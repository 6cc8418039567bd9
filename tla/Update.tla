------------------------------- MODULE Update -------------------------------
(***************************************************************************)
(* The ecosystem transaction of crates/axiom: `axiom update apply` and     *)
(* `axiom update rollback` (update/ecosystem_runtime.rs) and `axiom        *)
(* install apply` (cli.rs), which share apply_ecosystem                    *)
(* (install/ecosystem.rs), over the `current` pointer, the skills pointer, *)
(* the versioned payloads, the owned service and the update journals.      *)
(* The maintenance lock leaves one operation at a time; it may die between *)
(* any two durable effects, and every write and service call may fail.     *)
(*                                                                         *)
(* A bundle is its version: both core components and the skills of it.  A  *)
(* plan whose recorded pointers are no longer on disk is refused before    *)
(* anything is written, so the plan of an apply that starts names the      *)
(* pointers on disk and is not state of its own.                           *)
(***************************************************************************)
EXTENDS Naturals

CONSTANTS
    Txns,        \* transaction ids, each used by one update or install (portable_id)
    Versions,    \* bundle versions
    First,       \* the version installed at the start
    MaxDamages,  \* bound on the files changed by hand
    NoTxn, NoSkills, NoPointer, NoJournal     \* absent values

Graphd == 1

Parts == {Graphd, 2}    \* CORE_COMPONENTS, in contract order: axiom-graphd and axiom-mcp

\* A core pointer record: the transaction that wrote it and the components it names, 0 for both.
Pointers == [txn : Txns \cup {NoTxn}, part : Parts \cup {0}, ver : Versions]

Down == NoPointer    \* no service is running

SkillPointers == Versions \cup {NoSkills}

\* A versioned directory of skills, or a core payload (which is renamed, so never partial).
Dirs == {"absent", "partial", "whole", "damaged"}

OpenStates == {"prepared", "activated", "service-recovery-required", "restored-after-service-failure"}

JournalStates == OpenStates \cup {"finalized", "rolled-back"}

Journals == [state : JournalStates, target : Versions, owned : BOOLEAN,
             prevCore : Pointers, prevSkills : SkillPointers, prevDir : Dirs,
             actCore : Pointers \cup {NoPointer}, actSkills : SkillPointers]

ASSUME UpdateAssumption ==
    /\ First \in Versions /\ MaxDamages \in Nat
    /\ NoTxn \notin Txns
    /\ NoSkills \notin Versions
    /\ NoPointer \notin Pointers
    /\ NoJournal \notin Journals

VARIABLES
    core,       \* <root>/current
    skills,     \* <root>/skills/current
    coreFile,   \* versions/<version>/<component>
    skillDir,   \* skills/<version>
    service,    \* owned: state/service-v1.json exists; on: the pointer the service was started from
    journal,    \* journal/ecosystem-update-<txn>.json
    used,       \* transaction ids that were used
    pc,         \* step of the operation that holds the maintenance lock
    txn, ver,   \* its transaction and its version
    mem,        \* its journal in memory; an install has none
    pending,    \* core components it has still to activate
    moveCore,   \* core_activated: it will write the core pointer
    damages     \* files changed by hand

files == <<coreFile, skillDir>>
run == <<pc, txn, ver, mem, pending, moveCore>>
vars == <<core, skills, files, service, journal, used, run, damages>>

Steps == {"idle", "drain", "stage", "check", "skillFiles", "skillManifest", "skillReuse",
          "skillPointer", "place", "point", "corePointer", "activate", "start", "finalize",
          "undoCore", "undoSkills", "undoJournal", "undoStart", "failJournal",
          "backDrain", "backCore", "backSkills", "backJournal", "backStart", "redoCore",
          "redoSkills", "close"}

TypeOK ==
    /\ core \in Pointers /\ skills \in SkillPointers
    /\ coreFile \in [Versions -> [Parts -> Dirs]] /\ skillDir \in [Versions -> Dirs]
    /\ service \in [owned : BOOLEAN, on : Pointers \cup {Down}]
    /\ journal \in [Txns -> Journals \cup {NoJournal}]
    /\ used \subseteq Txns
    /\ pc \in Steps
    /\ txn \in Txns \cup {NoTxn} /\ ver \in Versions
    /\ mem \in Journals \cup {NoJournal}
    /\ pending \subseteq Parts /\ moveCore \in BOOLEAN
    /\ damages \in Nat

Init ==
    /\ core = [txn |-> NoTxn, part |-> 0, ver |-> First]
    /\ skills \in {First, NoSkills}
    /\ coreFile = [v \in Versions |-> [p \in Parts |-> IF v = First THEN "whole" ELSE "absent"]]
    /\ skillDir = [v \in Versions |-> IF v = skills THEN "whole" ELSE "absent"]
    /\ service \in {[owned |-> TRUE, on |-> core], [owned |-> FALSE, on |-> Down]}
    /\ journal = [t \in Txns |-> NoJournal]
    /\ used = {}
    /\ pc = "idle" /\ txn = NoTxn /\ ver = First /\ mem = NoJournal
    /\ pending = {} /\ moveCore = FALSE /\ damages = 0

-----------------------------------------------------------------------------
\* What the operations read.

PartsOf(c) == IF c.part = 0 THEN Parts ELSE {c.part}

\* pointer_artifacts and verify_artifacts: every payload the record names has its digest.
CoreVerified(c) == \A p \in PartsOf(c) : coreFile[c.ver][p] = "whole"

\* skill_snapshot: the digests of the directory the skills pointer names.
DirOf(s) == IF s = NoSkills THEN "absent" ELSE skillDir[s]

IsOpen(j) == j # NoJournal /\ j.state \in OpenStates

IsInstall == mem = NoJournal

Goto(step) == pc' = step /\ UNCHANGED <<txn, ver, pending, moveCore>>

Release == /\ pc' = "idle" /\ txn' = NoTxn /\ ver' = First
           /\ mem' = NoJournal /\ pending' = {} /\ moveCore' = FALSE

\* The operation writes its journal in the given state and goes on; the write may fail, and the
\* operation then goes on at the other step with the state it meant to write.
Record(j, step, onError) ==
    \/ mem' = j /\ journal' = [journal EXCEPT ![txn] = j] /\ Goto(step)
    \/ mem' = j /\ Goto(onError) /\ UNCHANGED journal

\* ServiceLifecycle::drain.  When it fails the service may have been stopped all the same.
Drained == service' = [owned |-> FALSE, on |-> Down]

DrainFailed == \E on \in {service.on, Down} : service' = [service EXCEPT !.on = on]

\* ServiceLifecycle::reinstall starts the daemon the core pointer names (active_graphd).
NamesGraphd(c) == Graphd \in PartsOf(c) /\ coreFile[c.ver][Graphd] = "whole"

Reinstalled == NamesGraphd(core) /\ service' = [owned |-> TRUE, on |-> core]

ReinstallFailed == \E on \in {service.on, Down} : service' = [service EXCEPT !.on = on]

-----------------------------------------------------------------------------
\* apply, and apply_plan_document of the installer.

StartUpdate(t, v) ==
    /\ pc = "idle" /\ t \notin used
    /\ \A u \in Txns : ~IsOpen(journal[u])
    /\ CoreVerified(core)
    /\ LET j == [state |-> "prepared", target |-> v, owned |-> service.owned,
                 prevCore |-> core, prevSkills |-> skills, prevDir |-> DirOf(skills),
                 actCore |-> NoPointer, actSkills |-> NoSkills]
       IN mem' = j /\ journal' = [journal EXCEPT ![t] = j]
    /\ used' = used \cup {t} /\ txn' = t /\ ver' = v
    /\ pc' = IF service.owned THEN "drain" ELSE "stage"
    /\ UNCHANGED <<core, skills, files, service, pending, moveCore>>

StartInstall(t, v) ==
    /\ pc = "idle" /\ t \notin used
    /\ used' = used \cup {t} /\ txn' = t /\ ver' = v
    /\ pc' = "stage"
    /\ UNCHANGED <<core, skills, files, service, journal, mem, pending, moveCore>>

Drain ==
    /\ pc = "drain"
    /\ \/ Drained /\ Goto("stage")
       \/ DrainFailed /\ Goto("failJournal")
    /\ UNCHANGED <<core, skills, files, journal, used, mem>>

\* stage_core_payloads: the bundle may no longer hold the approved bytes.
Stage ==
    /\ pc = "stage"
    /\ \/ Goto("check") /\ UNCHANGED mem
       \/ ~IsInstall /\ Goto("failJournal") /\ UNCHANGED mem
       \/ IsInstall /\ Release
    /\ UNCHANGED <<core, skills, files, service, journal, used>>

\* An error of apply_ecosystem: recover_after_activation, or the return of the installer.
Abort ==
    \/ IsInstall /\ Release
    \/ ~IsInstall /\ Goto("undoCore") /\ UNCHANGED mem

\* apply_ecosystem has returned.
Applied ==
    \/ IsInstall /\ Release
    \/ ~IsInstall /\ Goto("activate") /\ UNCHANGED mem

SkillsReady == skills = ver /\ skillDir[ver] = "whole"

\* Phases 1 and 2 of apply_ecosystem decide what has to move.
Check ==
    LET absent == {p \in Parts : coreFile[ver][p] # "whole"}
        move == absent # {} \/ core.part # 0 \/ core.ver # ver
    IN /\ pc = "check"
       /\ \/ SkillsReady /\ ~move /\ Applied
          \/ /\ ~SkillsReady \/ move
             /\ pending' = absent /\ moveCore' = move
             /\ pc' = IF ~SkillsReady
                         THEN IF skillDir[ver] = "absent" THEN "skillFiles" ELSE "skillReuse"
                         ELSE IF absent # {} THEN "place" ELSE "corePointer"
             /\ UNCHANGED <<txn, ver, mem>>
          \/ Abort
       /\ UNCHANGED <<core, skills, files, service, journal, used>>

\* install: every declared file, then the manifest, then the pointer.
SkillFiles ==
    /\ pc = "skillFiles"
    /\ \/ skillDir' = [skillDir EXCEPT ![ver] = "partial"] /\ Goto("skillManifest") /\ UNCHANGED mem
       \/ skillDir' \in {skillDir, [skillDir EXCEPT ![ver] = "partial"]} /\ Abort
    /\ UNCHANGED <<core, skills, coreFile, service, journal, used>>

SkillManifest ==
    /\ pc = "skillManifest"
    /\ \/ skillDir' = [skillDir EXCEPT ![ver] = "whole"] /\ Goto("skillPointer") /\ UNCHANGED mem
       \/ UNCHANGED skillDir /\ Abort
    /\ UNCHANGED <<core, skills, coreFile, service, journal, used>>

\* reactivate_existing: a retained directory is used only when it is complete.
SkillReuse ==
    /\ pc = "skillReuse"
    /\ \/ skillDir[ver] = "whole" /\ Goto("skillPointer") /\ UNCHANGED mem
       \/ Abort
    /\ UNCHANGED <<core, skills, files, service, journal, used>>

SkillPointer ==
    /\ pc = "skillPointer"
    /\ \/ /\ skills' = ver
          /\ \/ pending # {} /\ Goto("place") /\ UNCHANGED mem
             \/ pending = {} /\ moveCore /\ Goto("corePointer") /\ UNCHANGED mem
             \/ pending = {} /\ ~moveCore /\ Applied
       \/ UNCHANGED skills /\ Abort
    /\ UNCHANGED <<core, files, service, journal, used>>

\* The component whose turn it is.
Turn(p) == p \in pending /\ \A q \in pending : p <= q

\* apply_install moves the payload; a destination that holds other bytes is a conflict.
Place ==
    /\ pc = "place"
    /\ \E p \in Parts :
        /\ Turn(p)
        /\ \/ /\ coreFile[ver][p] = "absent"
              /\ coreFile' = [coreFile EXCEPT ![ver][p] = "whole"]
              /\ Goto("point") /\ UNCHANGED mem
           \/ UNCHANGED coreFile /\ Abort
    /\ UNCHANGED <<core, skills, skillDir, service, journal, used>>

\* apply_install then replaces the one core pointer by a record of its own component.
Point ==
    /\ pc = "point"
    /\ \E p \in Parts :
        /\ Turn(p)
        /\ \/ /\ core' = [txn |-> txn, part |-> p, ver |-> ver]
              /\ \/ /\ pending' = pending \ {p}
                    /\ pc' = IF pending' = {} THEN "corePointer" ELSE "place"
                    /\ UNCHANGED <<txn, ver, mem, moveCore>>
                 \/ Abort
           \/ UNCHANGED core /\ Abort
    /\ UNCHANGED <<skills, files, service, journal, used>>

\* write_core_pointer: one record that names every core component.
CorePointer ==
    /\ pc = "corePointer"
    /\ \/ core' = [txn |-> txn, part |-> 0, ver |-> ver] /\ Applied
       \/ UNCHANGED core /\ Abort
    /\ UNCHANGED <<skills, files, service, journal, used>>

Activate ==
    /\ pc = "activate"
    /\ \/ Record([mem EXCEPT !.state = "activated", !.actCore = core, !.actSkills = skills],
                 IF mem.owned THEN "start" ELSE "finalize", "undoCore")
       \/ Abort /\ UNCHANGED journal
    /\ UNCHANGED <<core, skills, files, service, used>>

Start ==
    /\ pc = "start"
    /\ \/ Reinstalled /\ Goto("finalize")
       \/ ReinstallFailed /\ Goto("undoCore")
    /\ UNCHANGED <<core, skills, files, journal, used, mem>>

Finalize ==
    /\ pc = "finalize"
    /\ LET j == [mem EXCEPT !.state = "finalized"]
       IN \/ journal' = [journal EXCEPT ![txn] = j] /\ Release
          \/ mem' = j /\ Goto("undoCore") /\ UNCHANGED journal
    /\ UNCHANGED <<core, skills, files, service, used>>

-----------------------------------------------------------------------------
\* recover_after_activation goes on after an error of any of its steps.

UndoCore ==
    /\ pc = "undoCore"
    /\ core' \in {mem.prevCore, core}
    /\ Goto("undoSkills")
    /\ UNCHANGED <<skills, files, service, journal, used, mem>>

UndoSkills ==
    /\ pc = "undoSkills"
    /\ skills' \in {mem.prevSkills, skills}
    /\ Goto("undoJournal")
    /\ UNCHANGED <<core, files, service, journal, used, mem>>

UndoJournal ==
    /\ pc = "undoJournal"
    /\ Record([mem EXCEPT !.state = "restored-after-service-failure"], "undoStart", "undoStart")
    /\ UNCHANGED <<core, skills, files, service, used>>

\* recover_service_failure leaves the pointers alone.
FailJournal ==
    /\ pc = "failJournal"
    /\ Record([mem EXCEPT !.state = "service-recovery-required"], "undoStart", "undoStart")
    /\ UNCHANGED <<core, skills, files, service, used>>

UndoStart ==
    /\ pc = "undoStart"
    /\ \/ mem.owned /\ (Reinstalled \/ ReinstallFailed)
       \/ ~mem.owned /\ UNCHANGED service
    /\ Release
    /\ UNCHANGED <<core, skills, files, journal, used>>

-----------------------------------------------------------------------------
\* rollback.

Unmoved(j) == core = j.prevCore /\ skills = j.prevSkills

IsActivated(j) == core = j.actCore /\ skills = j.actSkills

\* candidate_core_pointer and verify_candidate_skills: the transaction of the journal wrote it.
CandidateCore(t, j) == core = [txn |-> t, part |-> 0, ver |-> j.target] /\ CoreVerified(core)

CandidateSkills(j) == skills = j.target /\ skillDir[j.target] \in {"whole", "damaged"}

RetainedVerified(j) == CoreVerified(j.prevCore) /\ DirOf(j.prevSkills) = j.prevDir

\* Mutant: a finished update is rolled back whatever the pointers are now.
MayRestoreAnything(t, j) ==
    \/ j.state = "prepared" /\ (core = j.prevCore \/ CandidateCore(t, j))
    \/ j.state \in {"service-recovery-required", "restored-after-service-failure"}
    \/ j.state \in {"activated", "finalized"}

\* The pointers belong to the transaction, as far as its journal can tell.
MayRestore(t, j) ==
    \/ /\ j.state = "prepared"
       /\ core = j.prevCore \/ CandidateCore(t, j)
       /\ skills = j.prevSkills \/ CandidateSkills(j)
    \/ /\ j.state \in {"service-recovery-required", "restored-after-service-failure"}
       /\ Unmoved(j) \/ IsActivated(j)
    \/ /\ j.state \in {"activated", "finalized"}
       /\ IsActivated(j)

\* Everything but a failed call is decided before the first effect.
RollbackAccepted(t) ==
    LET j == journal[t]
    IN j # NoJournal /\ RetainedVerified(j) /\ MayRestore(t, j)

\* A prepared journal drains only when a pointer has moved, a recovery only when both have.
MustDrain(j) ==
    /\ j.owned
    /\ j.state = "prepared" => ~Unmoved(j)
    /\ j.state \in {"service-recovery-required", "restored-after-service-failure"} => IsActivated(j)

\* A journal that says rolled-back is answered without an effect.
StartRollback(t) ==
    /\ pc = "idle" /\ RollbackAccepted(t)
    /\ mem' = journal[t] /\ txn' = t /\ ver' = journal[t].target
    /\ pc' = IF MustDrain(journal[t]) THEN "backDrain" ELSE "backCore"
    /\ UNCHANGED <<core, skills, files, service, journal, used, pending, moveCore>>

BackDrain ==
    /\ pc = "backDrain"
    /\ \/ Drained /\ Goto("backCore") /\ UNCHANGED mem
       \/ DrainFailed /\ Release
    /\ UNCHANGED <<core, skills, files, journal, used>>

BackCore ==
    /\ pc = "backCore"
    /\ \/ core' = mem.prevCore /\ Goto("backSkills") /\ UNCHANGED mem
       \/ core # mem.prevCore /\ UNCHANGED core /\ Release
    /\ UNCHANGED <<skills, files, service, journal, used>>

\* Mutant: the rollback of a recovery restores the core pointer only.
BackSkillsPrepared ==
    /\ pc = "backSkills"
    /\ skills' = IF mem.state = "prepared" THEN mem.prevSkills ELSE skills
    /\ Goto(IF mem.state = "prepared" THEN "backJournal" ELSE "backStart")
    /\ UNCHANGED <<core, files, service, journal, used, mem>>

BackSkills ==
    /\ pc = "backSkills"
    /\ \/ /\ skills' = mem.prevSkills
          /\ Goto(IF mem.state = "prepared" THEN "backJournal" ELSE "backStart")
          /\ UNCHANGED mem
       \/ skills # mem.prevSkills /\ UNCHANGED skills /\ Release
    /\ UNCHANGED <<core, files, service, journal, used>>

BackJournal ==
    /\ pc = "backJournal"
    /\ LET j == [mem EXCEPT !.state = "restored-after-service-failure"]
       IN \/ mem' = j /\ journal' = [journal EXCEPT ![txn] = j] /\ Goto("backStart")
          \/ UNCHANGED journal /\ Release
    /\ UNCHANGED <<core, skills, files, service, used>>

\* Only a rollback of an active update puts the active pointers back when the service fails.
BackStart ==
    /\ pc = "backStart"
    /\ \/ mem.owned /\ Reinstalled /\ Goto("close") /\ UNCHANGED mem
       \/ ~mem.owned /\ UNCHANGED service /\ Goto("close") /\ UNCHANGED mem
       \/ /\ mem.owned /\ ReinstallFailed
          /\ \/ mem.state \in {"activated", "finalized"} /\ Goto("redoCore") /\ UNCHANGED mem
             \/ mem.state \notin {"activated", "finalized"} /\ Release
    /\ UNCHANGED <<core, skills, files, journal, used>>

RedoCore ==
    /\ pc = "redoCore"
    /\ \/ core' = mem.actCore /\ Goto("redoSkills") /\ UNCHANGED mem
       \/ UNCHANGED core /\ Release
    /\ UNCHANGED <<skills, files, service, journal, used>>

RedoSkills ==
    /\ pc = "redoSkills"
    /\ \/ skills' = mem.actSkills /\ Goto("failJournal") /\ UNCHANGED mem
       \/ UNCHANGED skills /\ Release
    /\ UNCHANGED <<core, files, service, journal, used>>

Close ==
    /\ pc = "close"
    /\ journal' \in {journal, [journal EXCEPT ![txn] = [mem EXCEPT !.state = "rolled-back"]]}
    /\ Release
    /\ UNCHANGED <<core, skills, files, service, used>>

-----------------------------------------------------------------------------
\* The rest of the world: the death of the process, the service verbs, which take the lock too,
\* and files under the installation root that are changed by hand.

Crash ==
    /\ pc # "idle"
    /\ Release
    /\ UNCHANGED <<core, skills, files, service, journal, used>>

OperateService ==
    /\ pc = "idle"
    /\ Reinstalled \/ Drained
    /\ UNCHANGED <<core, skills, files, journal, used, run>>

Damage ==
    /\ damages < MaxDamages /\ damages' = damages + 1
    /\ \/ /\ \E v \in Versions, p \in Parts :
                /\ coreFile[v][p] = "whole"
                /\ coreFile' = [coreFile EXCEPT ![v][p] = "damaged"]
          /\ UNCHANGED skillDir
       \/ /\ \E v \in Versions :
                /\ skillDir[v] = "whole"
                /\ skillDir' = [skillDir EXCEPT ![v] = "damaged"]
          /\ UNCHANGED coreFile
    /\ UNCHANGED <<core, skills, service, journal, used, run>>

Apply ==
    \/ \E t \in Txns, v \in Versions : StartUpdate(t, v) \/ StartInstall(t, v)
    \/ Drain \/ Stage \/ Check \/ SkillFiles \/ SkillManifest \/ SkillReuse \/ SkillPointer
    \/ Place \/ Point \/ CorePointer \/ Activate \/ Start \/ Finalize

Recover == UndoCore \/ UndoSkills \/ UndoJournal \/ FailJournal \/ UndoStart

Rollback ==
    \/ \E t \in Txns : StartRollback(t)
    \/ BackDrain \/ BackCore \/ BackSkills \/ BackJournal \/ BackStart
    \/ RedoCore \/ RedoSkills \/ Close

Next ==
    \/ (Apply \/ Recover \/ Rollback \/ Crash \/ OperateService) /\ UNCHANGED damages
    \/ Damage

Spec == Init /\ [][Next]_vars

-----------------------------------------------------------------------------
\* Every pointer on disk names payloads that were put in place completely, whatever interrupted
\* an apply, a recovery or a rollback: an update leaves the previous directories alone
\* (keeps_previous_versions) and moves a pointer after the files it names.
PayloadsBehindPointers ==
    /\ \A p \in PartsOf(core) : coreFile[core.ver][p] # "absent"
    /\ skills # NoSkills => skillDir[skills] \in {"whole", "damaged"}

\* A journal is closed as rolled-back (rollback) only when both pointers are the ones the update
\* found and the service it found runs from them, after any interruptions of the update, of its
\* recovery and of earlier rollbacks.
RollbackRestores ==
    [][\A t \in Txns :
          journal'[t] # journal[t] /\ journal'[t].state = "rolled-back" =>
              /\ core' = journal[t].prevCore /\ skills' = journal[t].prevSkills
              /\ journal[t].owned => service' = [owned |-> TRUE, on |-> core']]_vars

\* A journal is closed as finalized (apply) only when the core pointer names both components of
\* the target, the skills pointer names its skills, and an owned service runs from that pointer,
\* also when the payloads were left behind by an earlier attempt.
FinishedUpdateIsWhole ==
    [][\A t \in Txns :
          journal'[t] # journal[t] /\ journal'[t].state = "finalized" =>
              /\ core'.part = 0 /\ core'.ver = journal[t].target
              /\ skills' = journal[t].target
              /\ journal[t].owned => service' = [owned |-> TRUE, on |-> core']]_vars

\* A recovery or a rollback never replaces a pointer that another transaction wrote: the pointer
\* it overwrites is the one its update found or the one its update wrote, even when an install,
\* another update or another rollback has run since.
OnlyOwnPointersAreReplaced ==
    [][Recover \/ Rollback =>
          /\ core' # core => core = mem.prevCore \/ core.txn = txn
          /\ skills' # skills => skills \in {mem.prevSkills, mem.target}]_vars

\* The owned service is stopped whenever an update or a rollback moves a pointer
\* (ServiceLifecycle::drain), also in a rollback that finds only one pointer moved.  The
\* restoration of a failed apply is the exception: recover_after_activation does not drain.
PointersMoveDrained ==
    [][/\ core' # core \/ skills' # skills
       /\ ~IsInstall /\ pc \notin {"undoCore", "undoSkills"}
       => (mem.owned => service.on = Down)]_vars

\* "Explicit rollback ... restores A, and resumes the owned service after an interrupted
\* activation" (Changelog.md:131): a prepared journal whose retained payloads are intact and
\* whose pointers nobody else has written is accepted by rollback.
InterruptedUpdateCanRollBack ==
    \A t \in Txns :
        (/\ pc = "idle" /\ journal[t] # NoJournal /\ journal[t].state = "prepared"
         /\ RetainedVerified(journal[t]) /\ CoreVerified(core)
         /\ core = journal[t].prevCore \/ core.txn = t
         /\ skills = journal[t].prevSkills \/ CandidateSkills(journal[t]))
        => RollbackAccepted(t)

(* What a journal says when it is closed is true of both pointers and of   *)
(* the service: finalized means the whole target, rolled-back the state    *)
(* before.                                                                 *)
ClosedJournalIsTrue ==
    /\ RollbackRestores
    /\ FinishedUpdateIsWhole

(* A pointer names payloads that are in place, is replaced only by the     *)
(* update that found or wrote it, and moves while the owned service is     *)
(* down.                                                                   *)
PointersMoveSafely ==
    /\ []PayloadsBehindPointers
    /\ OnlyOwnPointersAreReplaced
    /\ PointersMoveDrained
=============================================================================
