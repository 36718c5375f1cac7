------------------------------ MODULE Recovery ------------------------------
(***************************************************************************)
(* Backup, restore, archive deletion and stack validation of the Advanced  *)
(* edition: ops/scripts/{_recovery,50-backup,60-restore,90-down}.sh and    *)
(* the recovery handlers of monitoring/backup-manager/server.py.           *)
(*                                                                         *)
(* A job is one execution of a handler or a script.  Jobs exclude each     *)
(* other with a non-blocking flock on run/recovery.lock; the HTTP handlers *)
(* first probe the same lock (recovery_busy), which takes it for a moment. *)
(* The installed state is the project tree and the service volumes, each   *)
(* abstracted to the version of its content, or Torn when a removal or a   *)
(* copy stopped half way.                                                  *)
(***************************************************************************)
EXTENDS FiniteSets, Naturals

CONSTANTS
    Job,          \* executions of a handler or a script
    Archive,      \* file names under backups/
    Content,      \* versions of the project tree
    Data,         \* versions of the volumes' content
    Torn,         \* an incomplete tree or volume
    None,         \* no value: nothing staged, a legacy archive without volumes
    Absent,       \* no file of that name
    Partial,      \* a file that is not a readable, complete archive
    Nobody,       \* the lock is free
    MaxSafety,    \* bound: room in restore-safety/, in different payloads
    Killable,     \* the kinds of jobs that may be killed
    HostCrashes   \* whether the host may lose power

ASSUME RecoveryAssumption ==
    /\ Torn \notin Content \cup Data /\ None \notin Content \cup Data
    /\ Torn # None
    /\ Nobody \notin Job
    /\ None \notin Archive
    /\ MaxSafety \in Nat
    /\ Killable \subseteq {"backup", "restore", "delete", "validate"}
    /\ HostCrashes \in BOOLEAN

VARIABLES
    pc,        \* where each job is
    kind,      \* what each job does
    via,       \* "api": a request to the backup-manager; "cli": run by hand
    target,    \* the archive a job reads, writes or deletes
    staged,    \* the payload in the job's private work directory
    saved,     \* what a restore has put in its safety archive
    mixed,     \* restores into whose volumes a stray helper has written
    holder,    \* the process that holds the flock
    archive,   \* backups/: what each name holds
    safety,    \* restore-safety/: the payloads of the complete archives
    project,   \* the installed project tree
    undo,      \* history: the copy of the tree that the restore which tore it has saved
    volumes,   \* the docker volumes
    stack,     \* the compose stack
    pause,     \* run/watchdog.pause exists
    status     \* run/recovery-status.json

jobVars  == <<pc, kind, via, target, staged, saved, mixed>>
diskVars == <<archive, safety, project, undo, volumes>>
vars     == <<jobVars, diskVars, holder, stack, pause, status>>

Kind    == {"backup", "restore", "delete", "validate"}
Tree    == Content \cup {Torn}
Volumes == Data \cup {Torn}
Payload == [project : Tree, volumes : Volumes \cup {None}]
Nothing == [project |-> None, volumes |-> None]
Draft   == [project : Tree \cup {None}, volumes : Volumes \cup {None}]

BackupWork   == {"copyProject", "copyVolumes", "writeArchive", "checkArchive"}
Preflight    == {"extract", "preflight"}
SafetyWork   == {"safetyProject", "safetyVolumes", "safetyArchive"}
\* Everything a restore does once its safety archive is complete.
Replacing    == {"down", "wipeProject", "copyInProject", "wipeVolumes",
                 "copyInVolumes", "render", "restart"}
\* The helper container that a killed restore leaves behind: it is about to
\* empty a volume, or fills one.  It holds no lock.
Stray        == {"strayEmpties", "strayFills"}
RestoreWork  == Preflight \cup SafetyWork \cup Replacing
\* The job runs inside a critical section of the recovery lock.
RecoveryWork == BackupWork \cup RestoreWork \cup {"validating"}
Location     == RecoveryWork \cup Stray \cup
                {"idle", "probe", "probing", "start", "lock", "unlink", "unlinked"}

TypeOK ==
    /\ pc \in [Job -> Location]
    /\ kind \in [Job -> Kind]
    /\ via \in [Job -> {"api", "cli"}]
    /\ target \in [Job -> Archive \cup {None}]
    /\ staged \in [Job -> Draft]
    /\ saved \in [Job -> Draft]
    /\ mixed \in SUBSET Job
    /\ holder \in Job \cup {Nobody}
    /\ archive \in [Archive -> Payload \cup {Absent, Partial}]
    /\ safety \in SUBSET Payload
    /\ project \in Tree
    /\ undo \in Tree \cup {None}
    /\ volumes \in Volumes
    /\ stack \in {"up", "partial", "down"}
    /\ pause \in BOOLEAN
    /\ status \in [operation : {"none", "backup", "restore", "delete"},
                   state : {"idle", "running", "success", "error"}]

Init ==
    /\ pc = [j \in Job |-> "idle"]
    /\ kind = [j \in Job |-> "validate"]
    /\ via = [j \in Job |-> "cli"]
    /\ target = [j \in Job |-> None]
    /\ staged = [j \in Job |-> Nothing]
    /\ saved = [j \in Job |-> Nothing]
    /\ mixed = {}
    /\ holder = Nobody
    \* Earlier releases and operators may have left files there.
    /\ archive \in [Archive -> {Absent, Partial} \cup
                               [project : Content, volumes : {None}]]
    /\ safety = {}
    /\ project \in Content
    /\ undo = None
    /\ volumes \in Data
    /\ stack = "up"
    /\ pause = FALSE
    /\ status = [operation |-> "none", state |-> "idle"]

-----------------------------------------------------------------------------
(* Helpers *)

Goto(j, l) == pc' = [pc EXCEPT ![j] = l]

\* write_status / write_recovery_status.
Report(op, st) == status' = [operation |-> op, state |-> st]

\* Mutant: a child that outlives its job has inherited descriptor 9.
ReleaseKeepsLock(S) == UNCHANGED holder

\* Descriptor 9 closes with the process, which releases the flock.
Release(S) == holder' = IF holder \in S THEN Nobody ELSE holder

\* What the jobs in S were is forgotten.
Forget(S) ==
    /\ kind' = [j \in Job |-> IF j \in S THEN "validate" ELSE kind[j]]
    /\ via' = [j \in Job |-> IF j \in S THEN "cli" ELSE via[j]]
    /\ target' = [j \in Job |-> IF j \in S THEN None ELSE target[j]]
    /\ mixed' = mixed \ S

\* The processes of the jobs in S are gone, and their work directories with
\* them (a kill leaves the directory, which nobody opens again).
Vanish(S) ==
    /\ Forget(S)
    /\ staged' = [j \in Job |-> IF j \in S THEN Nothing ELSE staged[j]]
    /\ saved' = [j \in Job |-> IF j \in S THEN Nothing ELSE saved[j]]
    /\ Release(S)

Gone(S) ==
    /\ pc' = [j \in Job |-> IF j \in S THEN "idle" ELSE pc[j]]
    /\ Vanish(S)

\* Mutant: the pause is only removed at the end of the script.
FinishKeepsPause(j) == Gone({j}) /\ pause' = (pause /\ pc[j] # "restart")

\* A job ends by itself: the EXIT trap of 60-restore.sh removes its work
\* directory and the pause file.
Finish(j) ==
    /\ Gone({j})
    /\ pause' = IF pc[j] \in RestoreWork THEN FALSE ELSE pause

-----------------------------------------------------------------------------
(* Starting a job *)

\* A request reaches the handler, which is part of the stack, or an operator
\* (or 40-update.sh) runs a script.  Deletion exists only as a request.
Begin(j, k, v, a) ==
    /\ pc[j] = "idle"
    /\ v = "api" => stack # "down"
    /\ v = "cli" => k \in {"backup", "restore"}
    \* 50-backup.sh stamps a new name; the other operations name a file.
    /\ k = "backup" => /\ archive[a] = Absent
                       /\ \A i \in Job : target[i] # a
    /\ Goto(j, IF v = "api" THEN "probe" ELSE "start")
    /\ kind' = [kind EXCEPT ![j] = k]
    /\ via' = [via EXCEPT ![j] = v]
    /\ target' = [target EXCEPT ![j] = a]
    /\ UNCHANGED <<staged, saved, mixed, diskVars, holder, stack, pause, status>>

\* recovery_busy: the lock is taken, the handler answers 409.
ProbeBusy(j) ==
    /\ pc[j] = "probe"
    /\ holder # Nobody
    /\ Finish(j)
    /\ UNCHANGED <<diskVars, stack, status>>

\* recovery_busy: the lock is free; the probe itself holds it for a moment.
ProbeTakes(j) ==
    /\ pc[j] = "probe"
    /\ holder = Nobody
    /\ holder' = j
    /\ Goto(j, "probing")
    /\ UNCHANGED <<kind, via, target, mixed, staged, saved, diskVars, stack, pause, status>>

\* recovery_busy returns False and the handler goes on without the lock.  A
\* deletion reports "running" first.
ProbeReleases(j) ==
    /\ pc[j] = "probing"
    /\ holder' = Nobody
    /\ IF kind[j] = "delete"
       THEN /\ Goto(j, "unlink")
            /\ Report("delete", "running")
       ELSE /\ Goto(j, "start")
            /\ UNCHANGED status
    /\ UNCHANGED <<kind, via, target, mixed, staged, saved, diskVars, stack, pause>>

\* schedule_restore and 60-restore.sh check that the archive exists before
\* anything else; the other jobs have nothing to check.
CheckArgument(j) ==
    /\ pc[j] = "start"
    /\ \/ /\ kind[j] = "restore" => archive[target[j]] # Absent
          /\ Goto(j, "lock")
          /\ UNCHANGED <<kind, via, target, mixed, staged, saved, holder, pause>>
       \/ /\ kind[j] = "restore" /\ archive[target[j]] = Absent
          /\ Finish(j)
    /\ UNCHANGED <<diskVars, stack, status>>

\* acquire_recovery_lock, and the flock of run_system_validation, give up at
\* once when the lock is taken, and report nothing.
LockRefused(j) ==
    /\ pc[j] = "lock"
    /\ holder # Nobody
    /\ Finish(j)
    /\ UNCHANGED <<diskVars, stack, status>>

\* Mutant: the result of flock is ignored.
LockTakenBlindly(j) ==
    /\ pc[j] = "lock"
    /\ holder' = j
    /\ Goto(j, CASE kind[j] = "backup" -> "copyProject"
                 [] kind[j] = "restore" -> "extract"
                 [] OTHER -> "validating")
    /\ UNCHANGED <<kind, via, target, mixed, staged, saved, diskVars, stack, pause, status>>

LockTaken(j) ==
    /\ pc[j] = "lock"
    /\ holder = Nobody
    /\ holder' = j
    /\ CASE kind[j] = "backup"   -> /\ Goto(j, "copyProject")
                                    /\ Report("backup", "running")
         [] kind[j] = "restore"  -> /\ Goto(j, "extract")
                                    /\ Report("restore", "running")
         [] OTHER                -> /\ Goto(j, "validating")
                                    /\ UNCHANGED status
    /\ UNCHANGED <<kind, via, target, mixed, staged, saved, diskVars, stack, pause>>

-----------------------------------------------------------------------------
(* backup_to_archive, called by 50-backup.sh as the condition of an `if`:   *)
(* errexit is off inside it, so a failing copy does not stop the function,  *)
(* and only its last command, the validation, decides the outcome.          *)

\* copy_project_tree.  A failed copy leaves an incomplete work directory.
CopyProject(j) ==
    /\ pc[j] = "copyProject"
    /\ \E p \in {project, Torn} :
           staged' = [staged EXCEPT ![j] = [project |-> p, volumes |-> None]]
    /\ Goto(j, "copyVolumes")
    /\ UNCHANGED <<kind, via, target, mixed, saved, holder, diskVars, stack, pause, status>>

\* backup_volumes.  An empty payload is an `exit 1`, which leaves the status
\* at "running"; a helper that fails after writing something goes unnoticed.
CopyVolumes(j) ==
    /\ pc[j] = "copyVolumes"
    /\ \/ /\ \E v \in {volumes, Torn} :
                 staged' = [staged EXCEPT
                               ![j] = [project |-> staged[j].project, volumes |-> v]]
          /\ Goto(j, "writeArchive")
          /\ UNCHANGED <<kind, via, target, mixed, saved, holder, pause>>
       \/ Finish(j)
    /\ UNCHANGED <<diskVars, stack, status>>

\* tar writes directly to the final name.
WriteArchive(j) ==
    /\ pc[j] = "writeArchive"
    /\ archive' = [archive EXCEPT ![target[j]] = Partial]
    /\ Goto(j, "checkArchive")
    /\ UNCHANGED <<kind, via, target, mixed, staged, saved, holder, safety, project, undo,
                   volumes, stack, pause, status>>

\* tar ends and validate_archive_safety decides.  It cannot accept a file that
\* a deletion or the retention has unlinked meanwhile, and a rejected file is
\* left where it is.
ArchiveAccepted(j) ==
    /\ pc[j] = "checkArchive"
    /\ archive[target[j]] = Partial
    /\ archive' = [archive EXCEPT ![target[j]] = staged[j]]
    /\ Report("backup", "success")
    /\ Finish(j)
    /\ UNCHANGED <<safety, project, undo, volumes, stack>>

ArchiveRejected(j) ==
    /\ pc[j] = "checkArchive"
    /\ Report("backup", "error")
    /\ Finish(j)
    /\ UNCHANGED <<diskVars, stack>>

-----------------------------------------------------------------------------
(* 60-restore.sh: checks that change nothing *)

\* Mutant: any file of that name is unpacked.
ExtractUnchecked(j) ==
    /\ pc[j] = "extract"
    /\ archive[target[j]] # Absent
    /\ staged' = [staged EXCEPT ![j] = archive[target[j]]]
    /\ Goto(j, "preflight")
    /\ UNCHANGED <<kind, via, target, mixed, saved, holder, diskVars, stack, pause, status>>

\* recovery_archive.py extract: validates the archive and unpacks it into the
\* private work directory, once.
Extract(j) ==
    /\ pc[j] = "extract"
    /\ archive[target[j]] \in Payload
    /\ staged' = [staged EXCEPT ![j] = archive[target[j]]]
    /\ Goto(j, "preflight")
    /\ UNCHANGED <<kind, via, target, mixed, saved, holder, diskVars, stack, pause, status>>

\* Mutant: no safety backup.
PreflightSkipsSafety(j) ==
    /\ pc[j] = "preflight"
    /\ Goto(j, "down")
    /\ UNCHANGED <<kind, via, target, mixed, staged, saved, holder, diskVars, stack,
                   pause, status>>

\* check_cached_restore_images and the confirmation.
PreflightPassed(j) ==
    /\ pc[j] = "preflight"
    /\ Goto(j, "safetyProject")
    /\ UNCHANGED <<kind, via, target, mixed, staged, saved, holder, diskVars, stack,
                   pause, status>>

\* A bad archive, a missing image or an operator who declines.
PreflightRejected(j) ==
    /\ pc[j] \in Preflight
    /\ Report("restore", "error")
    /\ Finish(j)
    /\ UNCHANGED <<diskVars, stack>>

-----------------------------------------------------------------------------
(* 60-restore.sh: from the safety backup on, errexit ends the script at the *)
(* first failure, with the status still at "running".                       *)

\* backup_to_archive of the safety archive: here a failing copy is fatal.
SaveProject(j) ==
    /\ pc[j] = "safetyProject"
    /\ saved' = [saved EXCEPT ![j] = [project |-> project, volumes |-> None]]
    /\ Goto(j, "safetyVolumes")
    /\ UNCHANGED <<kind, via, target, mixed, staged, holder, diskVars, stack, pause, status>>

SaveVolumes(j) ==
    /\ pc[j] = "safetyVolumes"
    /\ saved' = [saved EXCEPT
                     ![j] = [project |-> saved[j].project, volumes |-> volumes]]
    /\ Goto(j, "safetyArchive")
    /\ UNCHANGED <<kind, via, target, mixed, staged, holder, diskVars, stack, pause, status>>

\* Mutant: only the newest safety archive is kept.
SealSafetyKeepsNewest(j) ==
    /\ pc[j] = "safetyArchive"
    /\ safety' = {saved[j]}
    /\ pause' = TRUE
    /\ Goto(j, "down")
    /\ UNCHANGED <<kind, via, target, mixed, staged, saved, holder, archive, project, undo,
                   volumes, stack, status>>

\* The safety archive is written and validated, and the watchdog paused.
\* Without room for it the script fails (RestoreFails).
SealSafety(j) ==
    /\ pc[j] = "safetyArchive"
    /\ Cardinality(safety \cup {saved[j]}) <= MaxSafety
    /\ safety' = safety \cup {saved[j]}
    /\ pause' = TRUE
    /\ Goto(j, "down")
    /\ UNCHANGED <<kind, via, target, mixed, staged, saved, holder, archive, project, undo,
                   volumes, stack, status>>

\* 90-down.sh.  The requests that are running go away with their container,
\* except a restore that is already in a container of its own.
InBackend(i) ==
    /\ via[i] = "api"
    /\ pc[i] \in {"start", "lock"} => kind[i] # "restore"
    /\ pc[i] \in {"probe", "start", "lock", "unlink", "unlinked"}

StopStack(j) ==
    /\ pc[j] = "down"
    /\ stack' = "down"
    /\ LET gone == {i \in Job \ {j} : InBackend(i)}
       IN  /\ pc' = [i \in Job |-> IF i = j THEN "wipeProject"
                                   ELSE IF i \in gone THEN "idle" ELSE pc[i]]
           /\ Vanish(gone)
    /\ UNCHANGED <<diskVars, pause, status>>

\* What is in j's safety archive can undo what j does to the tree now, unless
\* an earlier restore has torn it already.
Remember(j) == undo' = IF project' # Torn THEN None
                       ELSE IF project # Torn THEN saved[j].project ELSE undo

\* restore_project_tree: check-tree, then removal, then the copy.
WipeProject(j) ==
    /\ pc[j] = "wipeProject"
    /\ project' = Torn
    /\ Remember(j)
    /\ Goto(j, "copyInProject")
    /\ UNCHANGED <<kind, via, target, mixed, staged, saved, holder, archive, safety,
                   volumes, stack, pause, status>>

\* Mutant: the archive is opened again for the copy.
CopyInProjectReopened(j) ==
    /\ pc[j] = "copyInProject"
    /\ project' = IF archive[target[j]] \in Payload THEN archive[target[j]].project ELSE Torn
    /\ Remember(j)
    /\ Goto(j, IF staged[j].volumes = None THEN "render" ELSE "wipeVolumes")
    /\ UNCHANGED <<kind, via, target, mixed, staged, saved, holder, archive, safety,
                   volumes, stack, pause, status>>

CopyInProject(j) ==
    /\ pc[j] = "copyInProject"
    /\ project' = staged[j].project
    /\ Remember(j)
    /\ Goto(j, IF staged[j].volumes = None THEN "render" ELSE "wipeVolumes")
    /\ UNCHANGED <<kind, via, target, mixed, staged, saved, holder, archive, safety,
                   volumes, stack, pause, status>>

\* restore_volumes: each payload is tested before its volume is emptied.
WipeVolumes(j) ==
    /\ pc[j] = "wipeVolumes"
    /\ volumes' = Torn
    /\ Goto(j, "copyInVolumes")
    /\ UNCHANGED <<kind, via, target, mixed, staged, saved, holder, archive, safety,
                   project, undo, stack, pause, status>>

\* The helper unpacks into whatever is there.
CopyInVolumes(j) ==
    /\ pc[j] = "copyInVolumes"
    /\ volumes' = IF j \in mixed THEN Torn ELSE staged[j].volumes
    /\ Goto(j, "render")
    /\ UNCHANGED <<kind, via, target, mixed, staged, saved, holder, archive, safety,
                   project, undo, stack, pause, status>>

\* The four renderers and 19-validate-stack.sh.
Render(j) ==
    /\ pc[j] = "render"
    /\ Goto(j, "restart")
    /\ UNCHANGED <<kind, via, target, mixed, staged, saved, holder, diskVars, stack,
                   pause, status>>

\* start_restored_stack_cached, which a request always asks for
\* (--auto-restart) and an operator may leave out.
RestoreDone(j) ==
    /\ pc[j] = "restart"
    /\ \/ stack' = "up"
       \/ via[j] = "cli" /\ UNCHANGED stack
    /\ Report("restore", "success")
    /\ Finish(j)
    /\ UNCHANGED diskVars

\* errexit: the script ends where it is.  Compose may have stopped or started
\* a part of the stack.
RestoreFails(j) ==
    /\ pc[j] \in SafetyWork \cup Replacing
    /\ IF pc[j] \in {"down", "restart"}
       THEN stack' \in {stack, "partial"}
       ELSE UNCHANGED stack
    /\ Finish(j)
    /\ UNCHANGED <<diskVars, status>>

-----------------------------------------------------------------------------
(* Deletion (/api/recovery/delete) and validation (run_system_validation)   *)

\* delete_backup_archive, without the lock.
Unlink(j) ==
    /\ pc[j] = "unlink"
    /\ archive[target[j]] # Absent
    /\ archive' = [archive EXCEPT ![target[j]] = Absent]
    /\ Goto(j, "unlinked")
    /\ UNCHANGED <<kind, via, target, mixed, staged, saved, holder, safety, project, undo,
                   volumes, stack, pause, status>>

UnlinkMissing(j) ==
    /\ pc[j] = "unlink"
    /\ archive[target[j]] = Absent
    /\ Report("delete", "error")
    /\ Finish(j)
    /\ UNCHANGED <<diskVars, stack>>

DeleteDone(j) ==
    /\ pc[j] = "unlinked"
    /\ Report("delete", "success")
    /\ Finish(j)
    /\ UNCHANGED <<diskVars, stack>>

\* The validation script reads the installation; its result has a file of its
\* own.  The lock is released when the descriptor closes.
Validated(j) ==
    /\ pc[j] = "validating"
    /\ Finish(j)
    /\ UNCHANGED <<diskVars, stack, status>>

-----------------------------------------------------------------------------
(* The rest of the system *)

\* /api/config, /api/setup/apply and /api/identity/password write .env without
\* looking at the recovery lock, for as long as the backup-manager runs.
ConfigWrite ==
    /\ stack # "down"
    /\ project \in Content
    /\ project' \in Content \ {project}
    /\ UNCHANGED <<jobVars, holder, archive, safety, undo, volumes, stack, pause, status>>

\* The services write to their volumes.
ServiceWrite ==
    /\ stack # "down"
    /\ volumes \in Data
    /\ volumes' \in Data \ {volumes}
    /\ UNCHANGED <<jobVars, holder, archive, safety, project, undo, stack, pause, status>>

\* 20-up.sh.  It does not look at the lock either: that nobody runs it by hand
\* during a restore is an assumption about the operator.
StackStarted ==
    /\ stack # "up"
    /\ project # Torn
    /\ holder = Nobody
    /\ stack' = "up"
    /\ UNCHANGED <<jobVars, diskVars, holder, pause, status>>

\* A job is killed (its container, or its whole process group): no trap runs,
\* and the kernel releases its lock.  A command that outlives only the shell has
\* descriptor 9: that is a kill after the command.
KillJob(j) ==
    /\ kind[j] \in Killable
    /\ pc[j] \notin {"idle"} \cup Stray
    /\ Gone({j})
    /\ UNCHANGED <<diskVars, stack, pause, status>>

\* A restore is killed while its `docker run` helper works on a volume: the
\* helper is a container of its own and goes on, the lock is free.  (That of a
\* backup only reads.)
KillLeavesHelper(j) ==
    /\ kind[j] \in Killable
    /\ pc[j] \in {"wipeVolumes", "copyInVolumes"}
    /\ Goto(j, IF pc[j] = "wipeVolumes" THEN "strayEmpties" ELSE "strayFills")
    /\ Forget({j})
    /\ Release({j})
    /\ UNCHANGED <<staged, saved, diskVars, stack, pause, status>>

\* A stray helper writes: to the volumes of every restore that has begun to
\* replace them meanwhile.
Intrude(S) == mixed' = mixed \cup {i \in Job \ S : pc[i] \in {"copyInVolumes", "render", "restart"}}

StrayEmpties(j) ==
    /\ pc[j] = "strayEmpties"
    /\ volumes' = Torn
    /\ Intrude({j})
    /\ Goto(j, "strayFills")
    /\ UNCHANGED <<kind, via, target, staged, saved, holder, archive, safety,
                   project, undo, stack, pause, status>>

\* It fills one volume, which may have been the only one.
StrayFills(j) ==
    /\ pc[j] = "strayFills"
    /\ volumes' \in {staged[j].volumes, Torn}
    /\ Intrude({j})
    /\ Goto(j, "idle")
    /\ staged' = [staged EXCEPT ![j] = Nothing]
    /\ saved' = [saved EXCEPT ![j] = Nothing]
    /\ UNCHANGED <<kind, via, target, holder, archive, safety, project, undo,
                   stack, pause, status>>

\* The host loses power; at boot systemd starts the stack (22-stack-service.sh
\* up), which needs the project tree and may not come up completely.
HostCrash ==
    /\ HostCrashes
    /\ Gone(Job)
    /\ IF project = Torn THEN UNCHANGED stack ELSE stack' \in {"up", "partial"}
    /\ UNCHANGED <<diskVars, pause, status>>

-----------------------------------------------------------------------------
Probe(j)   == ProbeBusy(j) \/ ProbeTakes(j) \/ ProbeReleases(j)
Acquire(j) == CheckArgument(j) \/ LockRefused(j) \/ LockTaken(j)
Backup(j)  == \/ CopyProject(j) \/ CopyVolumes(j) \/ WriteArchive(j)
              \/ ArchiveAccepted(j) \/ ArchiveRejected(j)
Restore(j) == \/ Extract(j) \/ PreflightPassed(j) \/ PreflightRejected(j)
              \/ SaveProject(j) \/ SaveVolumes(j) \/ SealSafety(j)
              \/ StopStack(j) \/ WipeProject(j) \/ CopyInProject(j)
              \/ WipeVolumes(j) \/ CopyInVolumes(j) \/ Render(j)
              \/ RestoreDone(j) \/ RestoreFails(j)
Delete(j)  == Unlink(j) \/ UnlinkMissing(j) \/ DeleteDone(j)

StrayStep(j) == StrayEmpties(j) \/ StrayFills(j)

\* What a job does by itself once it has begun.
JobStep(j) == Probe(j) \/ Acquire(j) \/ Backup(j) \/ Restore(j) \/ Delete(j) \/ Validated(j)

Next ==
    \/ \E j \in Job, k \in Kind, v \in {"api", "cli"}, a \in Archive : Begin(j, k, v, a)
    \/ \E j \in Job : JobStep(j)
    \/ \E j \in Job : KillJob(j) \/ KillLeavesHelper(j) \/ StrayStep(j)
    \/ HostCrash
    \/ ConfigWrite
    \/ ServiceWrite
    \/ StackStarted

\* A process that has begun keeps running until it ends or is killed; the
\* commands it waits for end, and an operator answers the prompt.
Fairness == \A j \in Job : WF_vars(JobStep(j)) /\ WF_vars(StrayStep(j))

Spec     == Init /\ [][Next]_vars
FairSpec == Spec /\ Fairness

-----------------------------------------------------------------------------
(* Properties *)

\* At most one backup, restore or validation whose process lives is at work at
\* any time, whichever way they were started (acquire_recovery_lock and
\* run_system_validation).  What may go on beside it is the helper of a killed
\* restore, and that only writes to volumes.
ExclusiveRecovery ==
    \A i, j \in Job : pc[i] \in RecoveryWork /\ pc[j] \in RecoveryWork => i = j

\* A restore replaces nothing before its own copy of the installation is sealed,
\* and while the tree is torn, restore-safety/ holds the copy of it which the
\* very restore that tore it took under the lock, however that one and those
\* after it ended (60-restore.sh creates the safety backup before it stops or
\* replaces anything).  A setting saved after that copy is in no archive.  For
\* torn volumes restore-safety/ holds an intact, maybe older, state of them.
TornIsRecoverable ==
    /\ \A j \in Job : pc[j] \in Replacing => saved[j] \in safety
    /\ project = Torn => undo \in Content /\ \E s \in safety : s.project = undo
    /\ volumes = Torn => \E s \in safety : s.volumes \in Data

\* When a restore renders, validates and restarts, the installation is exactly
\* the payload that passed the preflight, although archives are deleted and
\* settings are saved while it runs ("Never reopen a potentially changed input
\* after shutdown", 60-restore.sh:52).  Only the stray helper of a restore that
\* was killed can have changed the volumes.
InstalledMatchesStaged ==
    \A j \in Job :
        /\ pc[j] \in {"wipeVolumes", "copyInVolumes", "render", "restart"} =>
               project = staged[j].project
        /\ pc[j] \in {"render", "restart"} /\ staged[j].volumes # None /\ j \notin mixed =>
               volumes = staged[j].volumes

\* j has a staged payload and has sealed its safety archive.
Checked(j) == staged[j] \in Payload /\ saved[j] \in safety

\* The stack goes down, and the project tree is torn, only by the hand of a
\* restore that holds the lock, has a staged payload and has sealed its safety
\* archive; a volume also by the stray helper of one that had ("installation
\* unchanged", 60-restore.sh:54).
OnlyCheckedRestoreDisturbs ==
    [][ /\ (stack # "down" /\ stack' = "down") \/ (project # Torn /\ project' = Torn) =>
               \E j \in Job : Checked(j) /\ pc[j] \in Replacing /\ holder = j
        /\ volumes # Torn /\ volumes' = Torn =>
               \E j \in Job : /\ Checked(j)
                              /\ (pc[j] \in Replacing /\ holder = j) \/ pc[j] \in Stray ]_vars

\* The lock never stays taken: every holder ends, on every path through the
\* handlers and scripts, and a killed one loses it ("probe the same lock and
\* trust the kernel instead", server.py:327).
LockReleased == []<>(holder = Nobody)

\* The watchdog is not left paused by a restore that fails at any of its steps
\* (the EXIT trap, 60-restore.sh:48), while other jobs are killed.
WatchdogResumes == []<>(~pause)

\* What makes the properties above inductive.  A job has in its work directory
\* what its place in the script says.
WorkInv ==
    \A j \in Job :
        /\ pc[j] = "copyVolumes" => staged[j].project \in Tree
        /\ pc[j] \in {"writeArchive", "checkArchive", "preflight"} \cup SafetyWork \cup Replacing \cup Stray =>
               staged[j] \in Payload
        /\ pc[j] = "safetyVolumes" => saved[j].project \in Tree
        /\ pc[j] \in {"safetyArchive"} \cup Replacing \cup Stray => saved[j] \in Payload
        /\ pc[j] \in {"wipeVolumes", "copyInVolumes"} \cup Stray => staged[j].volumes # None

\* Whoever works or probes holds the lock.
LockInv ==
    \A j \in Job : pc[j] \in RecoveryWork \cup {"probing"} => holder = j

\* A restore that has not replaced the tree yet has an intact copy of it, unless
\* an earlier one has torn it; and one of them has intact volumes.
BeforeCopy == {"safetyVolumes", "safetyArchive", "down", "wipeProject", "copyInProject"}

HasVolumes == \E s \in safety : s.volumes \in Data

SafetyInv ==
    /\ TornIsRecoverable
    /\ \A j \in Job :
        /\ pc[j] \in BeforeCopy => saved[j].project \in Content \/ project = Torn
        /\ pc[j] = "safetyArchive" => saved[j].volumes \in Data \/ HasVolumes
        /\ pc[j] \in Stray => saved[j] \in safety
        /\ pc[j] \in Replacing \cup Stray => HasVolumes

\* The stack stays down from 90-down.sh to the restart.
AfterDown == Replacing \ {"down"}

DownInv ==
    /\ InstalledMatchesStaged
    /\ \A j \in Job : pc[j] \in AfterDown => stack = "down"

IndInv == TypeOK /\ WorkInv /\ LockInv /\ SafetyInv /\ DownInv

\* The safety backup is one "of the current state" (pi-dns-warden/docs/deploy-reference.md:292):
\* what the restore is about to remove is what it has saved.
SafetyHoldsReplacedProject ==
    \A j \in Job : pc[j] = "wipeProject" => saved[j].project = project

\* A backup that reports success includes the whole project tree ("Backups now
\* include",
\* pi-dns-warden/docs/deploy-reference.md:264).
SuccessfulBackupIsComplete ==
    [][\A j \in Job : ArchiveAccepted(j) => staged[j].project \in Content]_vars

=============================================================================
