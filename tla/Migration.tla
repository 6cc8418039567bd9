------------------------------ MODULE Migration ------------------------------
(***************************************************************************)
(* The journaled V1 to V2 migration of crates/migration/src/apply.rs:      *)
(* fence, backup, stage, verify and cut over every destination of one      *)
(* reviewed plan, restore after a failed cutover, resume from the journal, *)
(* and roll back.  The instance lock and the transaction lock taken by     *)
(* operate (crates/axiom/src/migration_runtime.rs) leave one run at a time. *)
(* A run interleaves with people who change files, and it may die between  *)
(* any two of its writes; a check and the write it guards are one step.    *)
(*                                                                         *)
(* A destination is told apart by its hash only: the bytes the plan        *)
(* recorded ("old"), the bytes of its source ("new"), anything else        *)
(* ("other") or no file ("absent").                                        *)
(***************************************************************************)
EXTENDS Naturals

CONSTANTS
    N,             \* destinations of the plan, in planned_writes order: the last is current.json
    Action,        \* what the plan does to each: create, replace or regenerate
    Previous,      \* previous_sha256 of each: "old", or "absent" when None
    NoJournal,     \* no journal.txt
    MaxCrashes, MaxFaults, MaxEdits, MaxRollbacks    \* bounds on the environment

Files == 1..N

Bytes == {"old", "new", "other", "absent"}

\* DestinationChange::validate_shape: a create has no previous bytes, a replace has.
ASSUME PlanAssumption ==
    /\ N \in Nat \ {0}
    /\ Action \in [Files -> {"create", "replace", "regenerate"}]
    /\ Previous \in [Files -> {"old", "absent"}]
    /\ \A f \in Files : /\ Action[f] = "create" => Previous[f] = "absent"
                        /\ Action[f] = "replace" => Previous[f] = "old"
    /\ MaxCrashes \in Nat /\ MaxFaults \in Nat /\ MaxEdits \in Nat /\ MaxRollbacks \in Nat

\* Create and replace name a source, whose hash is the expected one.
HasSource(f) == Action[f] # "regenerate"

Phases == {"fence", "backup", "stage", "verify", "cutover", "complete", "rollback"}

JournalFile == [state : {"pending", "staged", "verified", "cutover"},
                staged : BOOLEAN, backup : BOOLEAN]

Journal == [phase : Phases, fenced : BOOLEAN, files : [Files -> JournalFile]]

ASSUME JournalAssumption == NoJournal \notin Journal

VARIABLES
    dest,        \* the destinations
    copy,        \* the backups
    stage,       \* the staged bytes
    saved,       \* the journal on disk
    pc,          \* step of the run
    mem,         \* the journal of the run
    i,           \* the file the run is at
    resume,      \* resume_at_cutover
    blocked,     \* paths a restore or a rollback leaves as they are
    result,      \* how the last run ended
    authorised,  \* the plan is neither expired nor stale
    touched,     \* history: files somebody else changed, or whose backup or staged copy they changed
    crashes, faults, edits, rollbacks

disk == <<dest, copy, stage>>
run == <<pc, mem, i, resume, blocked, result>>
env == <<authorised, touched, crashes, faults, edits, rollbacks>>
vars == <<disk, saved, run, env>>

Steps == {"idle", "fence", "enterBackup", "backup", "enterStage", "stage", "enterVerify", "verify",
          "enterCutover", "cutover", "save", "restore", "unstage", "rollback", "rollbackDest"}

Results == {"none", "applied", "alreadyComplete", "refused", "restored", "incomplete",
            "rolledBack", "alreadyRolledBack", "blocked"}

TypeOK ==
    /\ dest \in [Files -> Bytes] /\ copy \in [Files -> Bytes] /\ stage \in [Files -> Bytes]
    /\ saved \in Journal \cup {NoJournal}
    /\ pc \in Steps /\ mem \in Journal /\ i \in 1..(N + 1)
    /\ resume \in BOOLEAN /\ blocked \subseteq Files
    /\ result \in Results
    /\ authorised \in BOOLEAN /\ touched \subseteq Files
    /\ crashes \in 0..MaxCrashes /\ faults \in 0..MaxFaults
    /\ edits \in 0..MaxEdits /\ rollbacks \in 0..MaxRollbacks

\* ApplyJournal::for_plan.
Fresh == [phase |-> "fence", fenced |-> FALSE,
          files |-> [f \in Files |-> [state |-> "pending", staged |-> FALSE, backup |-> FALSE]]]

Nowhere == [f \in Files |-> "absent"]

Init ==
    /\ dest = Previous /\ copy = Nowhere /\ stage = Nowhere
    /\ saved = NoJournal
    /\ pc = "idle" /\ mem = Fresh /\ i = 1 /\ resume = FALSE /\ blocked = {} /\ result = "none"
    /\ authorised = TRUE /\ touched = {}
    /\ crashes = 0 /\ faults = 0 /\ edits = 0 /\ rollbacks = 0

-----------------------------------------------------------------------------
(* People, time, and the end of a run. *)

\* Somebody changes or deletes a destination, a backup or a staged copy.
Edit(f, b) ==
    /\ edits < MaxEdits
    /\ edits' = edits + 1
    /\ touched' = touched \cup {f}
    /\ \/ dest' = [dest EXCEPT ![f] = b] /\ UNCHANGED <<copy, stage>>
       \/ copy' = [copy EXCEPT ![f] = b] /\ UNCHANGED <<dest, stage>>
       \/ stage' = [stage EXCEPT ![f] = b] /\ UNCHANGED <<dest, copy>>
    /\ UNCHANGED <<saved, run, authorised, crashes, faults, rollbacks>>

\* The plan expires, or a source it inventoried changes.
Expire ==
    /\ authorised
    /\ edits < MaxEdits
    /\ edits' = edits + 1
    /\ authorised' = FALSE
    /\ UNCHANGED <<disk, saved, run, touched, crashes, faults, rollbacks>>

\* The process is gone and with it the journal in memory.
EndRun(how) ==
    /\ pc' = "idle" /\ result' = how
    /\ mem' = Fresh /\ i' = 1 /\ resume' = FALSE /\ blocked' = {}

Crash ==
    /\ pc # "idle"
    /\ crashes < MaxCrashes
    /\ crashes' = crashes + 1
    /\ EndRun("none")
    /\ UNCHANGED <<disk, saved, authorised, touched, faults, edits, rollbacks>>

Fault ==
    /\ faults < MaxFaults
    /\ faults' = faults + 1
    /\ UNCHANGED <<authorised, touched, crashes, edits, rollbacks>>

\* save_quietly: the journal j is written, or the failure is ignored.
SaveQuietly(j) == saved' = j \/ UNCHANGED saved

Refuse ==
    /\ SaveQuietly(mem)
    /\ EndRun("refused")

-----------------------------------------------------------------------------
(* apply_journaled *)

\* The journal a run works on: a rolled-back one is a clean start.
Loaded == IF saved = NoJournal THEN Fresh ELSE IF saved.phase = "rollback" THEN Fresh ELSE saved

StartApply ==
    /\ pc = "idle"
    /\ IF ~authorised \/ Loaded.phase = "complete"
       THEN /\ result' = IF authorised THEN "alreadyComplete" ELSE "refused"
            /\ UNCHANGED <<pc, mem, resume>>
       ELSE /\ pc' = "fence" /\ result' = "none"
            /\ mem' = Loaded
            /\ resume' = (Loaded.phase = "cutover")
    /\ UNCHANGED <<disk, saved, i, blocked, env>>

\* The old publisher is still there.
FenceRefused ==
    /\ pc = "fence"
    /\ Fault
    /\ SaveQuietly([mem EXCEPT !.phase = "fence", !.fenced = FALSE])
    /\ EndRun("refused")
    /\ UNCHANGED disk

\* Mutant: an interrupted cutover is resumed from the backups.
FenceEstablishedRestarting ==
    /\ pc = "fence"
    /\ mem' = [mem EXCEPT !.phase = "fence", !.fenced = TRUE]
    /\ saved' = mem'
    /\ pc' = "enterBackup"
    /\ UNCHANGED <<disk, i, resume, blocked, result, env>>

FenceEstablished ==
    /\ pc = "fence"
    /\ mem' = [mem EXCEPT !.phase = "fence", !.fenced = TRUE]
    /\ saved' = mem'
    /\ pc' = IF resume THEN "enterCutover" ELSE "enterBackup"
    /\ UNCHANGED <<disk, i, resume, blocked, result, env>>

\* The journal is saved with the next phase and the loop over the files starts.
EnterPhase(at, phase) ==
    /\ pc = at
    /\ mem' = [mem EXCEPT !.phase = phase]
    /\ saved' = mem'
    /\ pc' = phase /\ i' = 1
    /\ UNCHANGED <<disk, resume, blocked, result, env>>

\* ... and saved again when the loop is over.
LeavePhase(phase, next) ==
    /\ pc = phase /\ i > N
    /\ saved' = mem
    /\ pc' = next
    /\ UNCHANGED <<disk, mem, i, resume, blocked, result, env>>

IsCutOver(f) == mem.files[f].state = "cutover"

At(phase) == pc = phase /\ i \in Files

SkipFile(phase, skipped) ==
    /\ At(phase)
    /\ skipped
    /\ i' = i + 1
    /\ UNCHANGED <<disk, saved, pc, mem, resume, blocked, result, env>>

RefuseFile(phase, wrong) ==
    /\ At(phase)
    /\ wrong
    /\ Refuse
    /\ UNCHANGED <<disk, env>>

\* Mutant: the backup is not recorded in the journal.
BackupOneUnrecorded ==
    /\ At("backup") /\ ~IsCutOver(i) /\ Previous[i] # "absent" /\ dest[i] = Previous[i]
    /\ copy' = [copy EXCEPT ![i] = dest[i]]
    /\ i' = i + 1
    /\ UNCHANGED <<dest, stage, saved, pc, mem, resume, blocked, result, env>>

BackupOne ==
    /\ At("backup") /\ ~IsCutOver(i) /\ Previous[i] # "absent" /\ dest[i] = Previous[i]
    /\ copy' = [copy EXCEPT ![i] = dest[i]]
    /\ mem' = [mem EXCEPT !.files[i].backup = TRUE]
    /\ i' = i + 1
    /\ UNCHANGED <<dest, stage, saved, pc, resume, blocked, result, env>>

StageOne ==
    /\ At("stage") /\ ~IsCutOver(i) /\ HasSource(i)
    /\ stage' = [stage EXCEPT ![i] = "new"]
    /\ mem' = [mem EXCEPT !.files[i].staged = TRUE, !.files[i].state = "staged"]
    /\ i' = i + 1
    /\ UNCHANGED <<dest, copy, saved, pc, resume, blocked, result, env>>

\* The staged bytes are the plan's and the destination is what the plan saw.
Verifiable(f) == mem.files[f].staged /\ stage[f] = "new" /\ dest[f] = Previous[f]

VerifyOne ==
    /\ At("verify") /\ ~IsCutOver(i) /\ HasSource(i) /\ Verifiable(i)
    /\ mem' = [mem EXCEPT !.files[i].state = "verified"]
    /\ i' = i + 1
    /\ UNCHANGED <<disk, saved, pc, resume, blocked, result, env>>

\* What the three loops pass over, and what they refuse.
SkipOne ==
    \/ SkipFile("backup", IsCutOver(i) \/ Previous[i] = "absent")
    \/ SkipFile("stage", IsCutOver(i) \/ ~HasSource(i))
    \/ SkipFile("verify", IsCutOver(i) \/ ~HasSource(i))

RefuseOne ==
    \/ RefuseFile("backup", ~IsCutOver(i) /\ Previous[i] # "absent" /\ dest[i] # Previous[i])
    \/ RefuseFile("stage", ~IsCutOver(i) /\ HasSource(i) /\ ~authorised)
    \/ RefuseFile("verify", ~IsCutOver(i) /\ HasSource(i) /\ ~Verifiable(i))

\* Reading or writing fails in one of the three loops.
PrepareFails ==
    /\ pc \in {"backup", "stage", "verify"}
    /\ Fault
    /\ Refuse
    /\ UNCHANGED disk

\* cutover_one: the destination is there already, or may be written.
InPlace(f) == dest[f] = "new"

\* Mutant: the destination is not compared with the plan.
MayWriteAnything(f) == ~IsCutOver(f) /\ ~InPlace(f) /\ mem.files[f].staged /\ stage[f] = "new"

MayWrite(f) ==
    /\ ~IsCutOver(f) /\ ~InPlace(f)
    /\ dest[f] = Previous[f] /\ mem.files[f].staged /\ stage[f] = "new"

CutoverOne ==
    /\ At("cutover")
    /\ HasSource(i) => InPlace(i) \/ MayWrite(i)
    /\ dest' = IF HasSource(i) THEN [dest EXCEPT ![i] = "new"] ELSE dest
    /\ mem' = IF HasSource(i) THEN [mem EXCEPT !.files[i].state = "cutover"] ELSE mem
    /\ pc' = "save"
    /\ UNCHANGED <<copy, stage, saved, i, resume, blocked, result, env>>

SaveCutover ==
    /\ pc = "save"
    /\ saved' = mem
    /\ pc' = "cutover" /\ i' = i + 1
    /\ UNCHANGED <<disk, mem, resume, blocked, result, env>>

CutoverRefused ==
    /\ At("cutover")
    /\ HasSource(i) /\ ~InPlace(i) /\ ~MayWrite(i)
    /\ pc' = "restore" /\ i' = 1
    /\ UNCHANGED <<disk, saved, mem, resume, blocked, result, env>>

\* Reading or writing fails, before or after the bytes are in place.
CutoverFails ==
    /\ At("cutover") /\ HasSource(i)
    /\ Fault
    /\ \/ UNCHANGED dest
       \/ MayWrite(i) /\ dest' = [dest EXCEPT ![i] = "new"]
    /\ pc' = "restore" /\ i' = 1
    /\ UNCHANGED <<copy, stage, saved, mem, resume, blocked, result>>

Complete ==
    /\ pc = "cutover" /\ i > N
    /\ saved' = [mem EXCEPT !.phase = "complete"]
    /\ EndRun("applied")
    /\ UNCHANGED <<disk, env>>

-----------------------------------------------------------------------------
(* restore, after a failed cutover *)

\* The recorded backup is there and is not the previous bytes, or is gone.
BackupDiffers(f) == mem.files[f].backup /\ copy[f] # Previous[f] /\ copy[f] # "absent"
BackupGone(f) == mem.files[f].backup /\ copy[f] = "absent"

Undone(f) == IF mem.files[f].backup THEN copy[f] ELSE "absent"

RestoreBlocked(f) == dest[f] \notin {"new", "absent"} \/ BackupDiffers(f)

RestoreSkip ==
    /\ At("restore")
    /\ ~IsCutOver(i) \/ RestoreBlocked(i)
    /\ blocked' = IF IsCutOver(i) THEN blocked \cup {i} ELSE blocked
    /\ i' = i + 1
    /\ UNCHANGED <<disk, saved, pc, mem, resume, result, env>>

RestoreOne ==
    /\ At("restore")
    /\ IsCutOver(i) /\ ~RestoreBlocked(i) /\ ~BackupGone(i)
    /\ dest' = [dest EXCEPT ![i] = Undone(i)]
    /\ pc' = "unstage"
    /\ UNCHANGED <<copy, stage, saved, mem, i, resume, blocked, result, env>>

RestoreUnstage ==
    /\ pc = "unstage"
    /\ stage' = [stage EXCEPT ![i] = IF mem.files[i].staged THEN "absent" ELSE @]
    /\ mem' = [mem EXCEPT !.files[i].state = "verified"]
    /\ pc' = "restore" /\ i' = i + 1
    /\ UNCHANGED <<dest, copy, saved, resume, blocked, result, env>>

RestoreDone ==
    /\ pc = "restore" /\ i > N
    /\ SaveQuietly(IF blocked = {} THEN [mem EXCEPT !.phase = "verify"] ELSE mem)
    /\ EndRun(IF blocked = {} THEN "restored" ELSE "incomplete")
    /\ UNCHANGED <<disk, env>>

-----------------------------------------------------------------------------
(* rollback_journaled *)

StartRollback ==
    /\ pc = "idle" /\ saved # NoJournal
    /\ rollbacks < MaxRollbacks
    /\ rollbacks' = rollbacks + 1
    /\ IF saved.phase \in {"complete", "cutover"}
       THEN pc' = "rollback" /\ mem' = saved /\ result' = "none"
       ELSE /\ result' = IF saved.phase = "rollback" THEN "alreadyRolledBack" ELSE "refused"
            /\ UNCHANGED <<pc, mem>>
    /\ UNCHANGED <<disk, saved, i, resume, blocked, authorised, touched, crashes, faults, edits>>

RollbackUnstage ==
    /\ At("rollback")
    /\ stage' = [stage EXCEPT ![i] = IF mem.files[i].staged THEN "absent" ELSE @]
    /\ mem' = [mem EXCEPT !.files[i].staged = FALSE]
    /\ pc' = "rollbackDest"
    /\ UNCHANGED <<dest, copy, saved, i, resume, blocked, result, env>>

\* A cutover whose journal write was lost is undone as well.
HoldsOurBytes(f) == HasSource(f) /\ dest[f] = "new"

ToUndo(f) == IsCutOver(f) \/ HoldsOurBytes(f)

RollbackBlocked(f) ==
    \/ IsCutOver(f) /\ (dest[f] \notin {"new", "absent"} \/ (dest[f] = "absent" /\ Previous[f] # "absent"))
    \/ BackupDiffers(f)

RollbackSkip ==
    /\ pc = "rollbackDest"
    /\ ~ToUndo(i) \/ RollbackBlocked(i)
    /\ blocked' = IF ToUndo(i) THEN blocked \cup {i} ELSE blocked
    /\ pc' = "rollback" /\ i' = i + 1
    /\ UNCHANGED <<disk, saved, mem, resume, result, env>>

RollbackOne ==
    /\ pc = "rollbackDest"
    /\ ToUndo(i) /\ ~RollbackBlocked(i) /\ ~BackupGone(i)
    /\ dest' = [dest EXCEPT ![i] = Undone(i)]
    /\ mem' = [mem EXCEPT !.files[i].state = "pending"]
    /\ pc' = "rollback" /\ i' = i + 1
    /\ UNCHANGED <<copy, stage, saved, resume, blocked, result, env>>

RollbackDone ==
    /\ pc = "rollback" /\ i > N
    /\ SaveQuietly(IF blocked = {} THEN [mem EXCEPT !.phase = "rollback"] ELSE mem)
    /\ EndRun(IF blocked = {} THEN "rolledBack" ELSE "blocked")
    /\ UNCHANGED <<disk, env>>

\* The backup cannot be read: the error ends the run before the journal is saved.
UndoFails ==
    /\ \/ pc = "restore" /\ i \in Files /\ IsCutOver(i) /\ ~RestoreBlocked(i)
       \/ pc = "rollbackDest" /\ ToUndo(i) /\ ~RollbackBlocked(i)
    /\ BackupGone(i)
    /\ EndRun("refused")
    /\ UNCHANGED <<disk, saved, env>>

-----------------------------------------------------------------------------
RunStep ==
    \/ FenceEstablished
    \/ EnterPhase("enterBackup", "backup") \/ BackupOne \/ LeavePhase("backup", "enterStage")
    \/ EnterPhase("enterStage", "stage") \/ StageOne \/ LeavePhase("stage", "enterVerify")
    \/ EnterPhase("enterVerify", "verify") \/ VerifyOne \/ LeavePhase("verify", "enterCutover")
    \/ SkipOne \/ RefuseOne
    \/ EnterPhase("enterCutover", "cutover") \/ CutoverOne \/ SaveCutover \/ CutoverRefused \/ Complete
    \/ RestoreSkip \/ RestoreOne \/ RestoreUnstage \/ RestoreDone
    \/ RollbackUnstage \/ RollbackSkip \/ RollbackOne \/ RollbackDone
    \/ UndoFails

Next ==
    \/ StartApply \/ StartRollback \/ RunStep
    \/ FenceRefused \/ PrepareFails \/ CutoverFails
    \/ Crash \/ Expire
    \/ \E f \in Files, b \in {"other", "absent"} : Edit(f, b)

Spec == Init /\ [][Next]_vars

\* A run goes on until it ends, and the operator applies the plan again.
FairSpec == Spec /\ WF_vars(RunStep) /\ WF_vars(StartApply)

-----------------------------------------------------------------------------
Untouched == Files \ touched

(* A destination that somebody else changed is never overwritten or removed *)
(* by an apply, a restore or a rollback (cutover_one, restore,              *)
(* rollback_journaled: "a human edit made after the cutover is never        *)
(* erased").                                                                *)
HumanBytesSurvive ==
    [][edits' = edits => \A f \in Files : dest[f] = "other" => dest'[f] = "other"]_vars

(* Until somebody else touches it, a destination that held bytes before     *)
(* holds them still, or holds the new ones while a verified copy exists     *)
(* that the journal on disk knows of: no crash, failure, resume or rollback *)
(* loses the previous bytes (backup_one before cutover, the saves between). *)
PreviousIsRecoverable ==
    \A f \in Untouched : Previous[f] = "old" /\ dest[f] # "old" =>
        /\ dest[f] = "new" /\ copy[f] = "old"
        /\ saved # NoJournal
        /\ saved.files[f].backup

(* A journal that says rolled back tells the truth: no destination keeps    *)
(* the new bytes, those whose cutover was never recorded included           *)
(* (rollback_journaled).                                                    *)
RolledBackIsClean ==
    pc = "idle" /\ saved # NoJournal =>
        (saved.phase = "rollback" => \A f \in Untouched : dest[f] = Previous[f])

(* A run that reports success has every destination in place, whatever was  *)
(* interrupted before it (apply_journaled).                                 *)
AppliedIsWhole ==
    pc = "idle" /\ result = "applied" =>
        \A f \in Untouched : HasSource(f) => dest[f] = "new"

Undisturbed == touched = {} /\ faults = 0 /\ rollbacks = 0

(* current.json, the last destination, never names a generation whose files *)
(* are not all cut over, in any state a crash can leave (planned_writes:    *)
(* "only after every immutable file it may expose has completed cutover").  *)
PointerIsLast ==
    Undisturbed /\ HasSource(N) /\ dest[N] = "new" =>
        \A f \in Files : HasSource(f) => dest[f] = "new"

(* An interrupted application is resumable: as long as nobody else touches  *)
(* the files, nothing is rolled back and the plan is valid, applying it     *)
(* again and again completes it (apply.rs: "a later run resumes from that   *)
(* journal instead of re-deciding").                                        *)
ApplyCompletes ==
    [](Undisturbed /\ authorised) => <>[](saved # NoJournal /\ saved.phase = "complete")

(* In every state that interruptions, faults and other people leave:       *)
(* previous bytes can be brought back, what a journal or a run reports is  *)
(* true, and the pointer is not ahead of what it names.                    *)
MigrationIsRecoverable ==
    /\ TypeOK
    /\ PreviousIsRecoverable
    /\ RolledBackIsClean
    /\ AppliedIsWhole
    /\ PointerIsLast
=============================================================================
