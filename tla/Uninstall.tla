----------------------------- MODULE Uninstall -----------------------------
(***************************************************************************)
(* `axiom uninstall plan` and `axiom uninstall apply` of crates/axiom      *)
(* (install/ecosystem_uninstall.rs): removal of the installed runtime      *)
(* files under an approved plan, with a recovery record that lets a dead   *)
(* removal be retried.  The record is read before the maintenance lock is  *)
(* taken and used after it, so two removals of one root race.              *)
(*                                                                         *)
(* Install, update, rollback and `service install` are each one step here  *)
(* (Update models their inside): what matters to a removal is which        *)
(* pointer, files and service they leave, and whether they look at its     *)
(* recovery record before they start.  A version stands for its core       *)
(* payload and its skills, one file each; a pointer is the number of the   *)
(* activation that wrote it, because it holds a transaction id.            *)
(***************************************************************************)
EXTENDS Naturals, Sequences, FiniteSets

CONSTANTS
    Operators,       \* processes that run `uninstall apply`
    Releases,        \* bundle versions, numbers so that paths have an order
    FirstRelease,    \* the version installed at the start
    MaxActivations,  \* bound on the pointers written
    MaxReviews,      \* bound on the plans reviewed
    MaxAborts,       \* bound on removals and installs that die
    MaxHandEdits,    \* bound on the files edited by hand
    NoOperator, NoRecovery, NoPayload

Kinds == {"skills", "versions"}

Payloads == Releases \X Kinds

\* What the journals say of an activation: what it installed, and what it replaced.
ActivationRecords == [ver : Releases, era : Nat, from : 0..MaxActivations, skills : Releases \cup {0},
                      undone : BOOLEAN]

RemovalPlans == [pointer : 1..MaxActivations, skills : Releases \cup {0}, owned : SUBSET ((1..MaxActivations) \X BOOLEAN),
          runtime : SUBSET Payloads, unit : 0..MaxActivations]

Recoveries == [plan : RemovalPlans, unitGone : BOOLEAN, removed : SUBSET Payloads, preserved : SUBSET Payloads,
               complete : BOOLEAN]

ASSUME UninstallAssumption ==
    /\ Releases \subseteq Nat \ {0} /\ FirstRelease \in Releases
    /\ MaxActivations \in Nat \ {0} /\ MaxReviews \in Nat /\ MaxAborts \in Nat /\ MaxHandEdits \in Nat
    /\ NoOperator \notin Operators
    /\ NoRecovery \notin Recoveries

VARIABLES
    payload,        \* what each runtime file is: as installed, edited or not there
    activations, \* the records of journal/, one per pointer ever written
    current,     \* <root>/current: the number of an activation, 0 when there is none
    skillsAt,    \* <root>/skills/current: a version, 0 when there is none
    unit,        \* state/service-v1.json: the activation it was bound to, 0 when there is none
    recovery,    \* uninstall-recovery-v1.json
    plans,       \* plan documents that were reviewed
    holder,      \* who holds maintenance.lock
    ops,         \* the removals that are running
    lateUnit,    \* a service was installed after a removal had taken it away
    disturbed,   \* an update or a rollback ran while a removal had stopped half way
    rewound,     \* a removal acted on a record that another one had moved on since it was read
    aborts, handEdits

installed == <<activations, current, skillsAt, unit>>
ghosts == <<lateUnit, disturbed, rewound>>
uninstallVars == <<payload, installed, recovery, plans, holder, ops, ghosts, aborts, handEdits>>

RemovalSteps == {"idle", "lock", "unit", "noteUnit", "look", "remove", "note", "pointer", "skillsPointer"}

UninstallTypeOK ==
    /\ payload \in [Payloads -> {"absent", "own", "edited"}]
    /\ activations \in Seq(ActivationRecords)
    /\ Len(activations) <= MaxActivations
    /\ current \in 0..Len(activations) /\ skillsAt \in Releases \cup {0} /\ unit \in 0..Len(activations)
    /\ recovery = NoRecovery \/ recovery \in Recoveries
    /\ plans \subseteq RemovalPlans
    /\ holder \in Operators \cup {NoOperator}
    /\ \A p \in Operators :
          /\ ops[p].step \in RemovalSteps
          /\ ops[p].rec = NoRecovery \/ ops[p].rec \in Recoveries
          /\ ops[p].file \in Payloads \cup {NoPayload} /\ ops[p].saw \in {"absent", "own", "edited"}
    /\ lateUnit \in BOOLEAN /\ disturbed \in BOOLEAN /\ rewound \in BOOLEAN
    /\ aborts \in 0..MaxAborts /\ handEdits \in 0..MaxHandEdits

Idle == [step |-> "idle", rec |-> NoRecovery, file |-> NoPayload, saw |-> "absent"]

\* The root right after an installation, with or without its service.
UninstallInit ==
    /\ payload = [f \in Payloads |-> IF f[1] = FirstRelease THEN "own" ELSE "absent"]
    /\ activations = <<[ver |-> FirstRelease, era |-> 1, from |-> 0, skills |-> 0, undone |-> FALSE]>>
    /\ current = 1 /\ skillsAt = FirstRelease /\ unit \in {0, 1}
    /\ recovery = NoRecovery /\ plans = {} /\ holder = NoOperator
    /\ ops = [p \in Operators |-> Idle]
    /\ lateUnit = FALSE /\ disturbed = FALSE /\ rewound = FALSE /\ aborts = 0 /\ handEdits = 0

-----------------------------------------------------------------------------
\* What the journals own.

ReleasesOf(acts) == {activations[i].ver : i \in acts}

(* The walk of `build` from the pointer: install records lead to the       *)
(* pointer before them and update journals lead both ways, so it reaches   *)
(* every activation since the root was last empty.  A record whose rows    *)
(* are all members of a reached pointer is owned too.                      *)
Owned == LET era == {i \in DOMAIN activations : activations[i].era = activations[current].era}
         IN {i \in DOMAIN activations : activations[i].ver \in ReleasesOf(era)}

\* collect_skills: every version whose manifest is there, while there is a skills pointer.
OwnedSkills == IF skillsAt = 0 THEN {} ELSE ReleasesOf(DOMAIN activations) \X {"skills"}

\* A plan records the digest of every journal it owns, and a rollback rewrites its journal.
Build == [pointer |-> current, skills |-> skillsAt, owned |-> {<<i, activations[i].undone>> : i \in Owned},
          runtime |-> ReleasesOf(Owned) \X {"versions"} \cup OwnedSkills, unit |-> unit]

\* What a retry compares: all of the plan but the service, which the removal takes away itself.
SameState(plan) == current # 0 /\ [Build EXCEPT !.unit = plan.unit] = plan

FreshRecord(plan) == [plan |-> plan, unitGone |-> FALSE, removed |-> {}, preserved |-> {}, complete |-> FALSE]

\* The runtime list is sorted by path: skills/ before versions/.
Before(f, g) == IF f[2] = g[2] THEN f[1] < g[1] ELSE f[2] = "skills"

Left(rec) == rec.plan.runtime \ (rec.removed \cup rec.preserved)

-----------------------------------------------------------------------------
\* One removal.

Stands(p, step) == ops[p].step = step

Move(p, step, rec) == ops' = [ops EXCEPT ![p] = [step |-> step, rec |-> rec, file |-> NoPayload, saw |-> "absent"]]

\* An early return: the guard is dropped with the command.
Refused(p) == /\ ops' = [ops EXCEPT ![p] = Idle]
              /\ holder' = IF holder = p THEN NoOperator ELSE holder

Review ==
    /\ current # 0 /\ Build \notin plans /\ Cardinality(plans) < MaxReviews
    /\ plans' = plans \cup {Build}
    /\ UNCHANGED <<payload, installed, recovery, holder, ops, ghosts, aborts, handEdits>>

\* Nothing is installed to plan for, or the plan is another one than the record's or the root's.
RefusedAtOnce ==
    /\ \/ current = 0
       \/ \E plan \in plans : IF recovery # NoRecovery THEN recovery.plan # plan ELSE current # 0 /\ Build # plan
    /\ UNCHANGED uninstallVars

\* The record, or the whole plan when there is none, is compared before the lock is taken.
ReadRecovery(p) ==
    /\ Stands(p, "idle")
    /\ \E plan \in plans :
          \/ recovery # NoRecovery /\ recovery.plan = plan /\ Move(p, "lock", recovery)
          \/ recovery = NoRecovery /\ current # 0 /\ Build = plan /\ Move(p, "lock", FreshRecord(plan))
    /\ UNCHANGED <<payload, installed, recovery, plans, holder, ghosts, aborts, handEdits>>

Acts(rec) == rewound' = (rewound \/ (recovery # NoRecovery /\ recovery # rec))

Begin(p, rec) ==
    /\ recovery' = rec
    /\ Acts(rec)
    /\ Move(p, IF rec.unitGone THEN "look" ELSE "unit", rec)

\* A removal that trusts what it read before it had the lock.
LockUnchecked(p) ==
    /\ Stands(p, "lock") /\ holder = NoOperator
    /\ holder' = p
    /\ IF ops[p].rec.complete THEN Move(p, "pointer", ops[p].rec) /\ Acts(ops[p].rec) /\ UNCHANGED recovery
                              ELSE Begin(p, ops[p].rec)
    /\ UNCHANGED <<payload, installed, plans, lateUnit, disturbed, aborts, handEdits>>

\* maintenance_lock; the installed state is built again and must be the plan's; and the first write
\* under the lock puts back the record that was read before it.
Lock(p) ==
    /\ Stands(p, "lock")
    /\ LET rec == ops[p].rec IN
       \/ /\ holder = NoOperator /\ rec.complete
          /\ holder' = p /\ Move(p, "pointer", rec) /\ Acts(rec) /\ UNCHANGED recovery
       \/ /\ holder = NoOperator /\ ~rec.complete /\ SameState(rec.plan)
          /\ holder' = p /\ Begin(p, rec)
       \/ /\ holder # NoOperator \/ (~rec.complete /\ ~SameState(rec.plan))
          /\ Refused(p) /\ UNCHANGED <<recovery, rewound>>
    /\ UNCHANGED <<payload, installed, plans, lateUnit, disturbed, aborts, handEdits>>

\* The service of the plan is removed; another one, or a failure, ends the command.
RemoveUnit(p) ==
    /\ Stands(p, "unit")
    /\ LET plan == ops[p].rec.plan
           gone == [ops[p].rec EXCEPT !.unitGone = TRUE] IN
       \/ plan.unit = 0 /\ Move(p, "noteUnit", gone) /\ UNCHANGED <<unit, holder>>
       \/ /\ plan.unit # 0 /\ unit \in {0, plan.unit}
          /\ \/ unit' = 0 /\ Move(p, "noteUnit", gone) /\ UNCHANGED holder
             \/ Refused(p) /\ UNCHANGED unit
       \/ plan.unit # 0 /\ unit \notin {0, plan.unit} /\ Refused(p) /\ UNCHANGED unit
    /\ UNCHANGED <<payload, activations, current, skillsAt, recovery, plans, ghosts, aborts, handEdits>>

NoteUnit(p) ==
    /\ Stands(p, "noteUnit")
    /\ recovery' = ops[p].rec
    /\ Move(p, "look", ops[p].rec)
    /\ UNCHANGED <<payload, installed, plans, holder, ghosts, aborts, handEdits>>

Looked(p, f, step, saw) == ops' = [ops EXCEPT ![p] = [@ EXCEPT !.step = step, !.file = f, !.saw = saw]]

\* The next file of the plan: an edited one is preserved, one that is gone counts as removed.
Look(p) ==
    /\ Stands(p, "look")
    /\ \E f \in Left(ops[p].rec) :
          /\ \A g \in Left(ops[p].rec) : g = f \/ Before(f, g)
          /\ Looked(p, f, IF payload[f] = "own" THEN "remove" ELSE "note", payload[f])
    /\ UNCHANGED <<payload, installed, recovery, plans, holder, ghosts, aborts, handEdits>>

Remove(p) ==
    /\ Stands(p, "remove")
    /\ payload' = [payload EXCEPT ![ops[p].file] = "absent"]
    /\ ops' = [ops EXCEPT ![p].step = "note"]
    /\ UNCHANGED <<installed, recovery, plans, holder, ghosts, aborts, handEdits>>

\* The progress of every file is durable before the next one is looked at.
Note(p) ==
    /\ Stands(p, "note")
    /\ LET f == ops[p].file
           rec == IF ops[p].saw = "edited" THEN [ops[p].rec EXCEPT !.preserved = @ \cup {f}]
                                           ELSE [ops[p].rec EXCEPT !.removed = @ \cup {f}]
       IN recovery' = rec /\ Move(p, "look", rec)
    /\ UNCHANGED <<payload, installed, plans, holder, ghosts, aborts, handEdits>>

\* A removal that goes on to the pointers before its completion is durable.
CompleteUnrecorded(p) ==
    /\ Stands(p, "look") /\ Left(ops[p].rec) = {}
    /\ Move(p, "pointer", [ops[p].rec EXCEPT !.complete = TRUE])
    /\ UNCHANGED <<payload, installed, recovery, plans, holder, ghosts, aborts, handEdits>>

\* The report, then the record: only now are the pointers given up.
CompleteRemoval(p) ==
    /\ Stands(p, "look") /\ Left(ops[p].rec) = {}
    /\ recovery' = [ops[p].rec EXCEPT !.complete = TRUE]
    /\ Move(p, "pointer", recovery')
    /\ UNCHANGED <<payload, installed, plans, holder, ghosts, aborts, handEdits>>

\* remove_pointers: a pointer with other bytes is left alone.
RemovePointer(p) ==
    /\ Stands(p, "pointer")
    /\ \/ /\ current \in {0, ops[p].rec.plan.pointer}
          /\ current' = 0 /\ Move(p, "skillsPointer", ops[p].rec) /\ UNCHANGED holder
       \/ current \notin {0, ops[p].rec.plan.pointer} /\ Refused(p) /\ UNCHANGED current
    /\ UNCHANGED <<payload, activations, skillsAt, unit, recovery, plans, ghosts, aborts, handEdits>>

RemoveSkillsPointer(p) ==
    /\ Stands(p, "skillsPointer")
    /\ skillsAt' = IF skillsAt = ops[p].rec.plan.skills THEN 0 ELSE skillsAt
    /\ Refused(p)
    /\ UNCHANGED <<payload, activations, current, unit, recovery, plans, ghosts, aborts, handEdits>>

Die(p) ==
    /\ ~Stands(p, "idle") /\ aborts < MaxAborts
    /\ aborts' = aborts + 1
    /\ Refused(p)
    /\ UNCHANGED <<payload, installed, recovery, plans, ghosts, handEdits>>

RemovalStep(p) == \/ ReadRecovery(p) \/ Lock(p) \/ RemoveUnit(p) \/ NoteUnit(p) \/ Look(p)
           \/ Remove(p) \/ Note(p) \/ CompleteRemoval(p) \/ RemovePointer(p) \/ RemoveSkillsPointer(p)

-----------------------------------------------------------------------------
\* The other holders of the maintenance lock, and the user.

Room == holder = NoOperator /\ Len(activations) < MaxActivations

\* Staging refuses an edited payload; skills are placed anew, over a remnant or reused whole.
Placeable(v) == \A k \in Kinds : payload[<<v, k>>] # "edited"

PointAt(v, era, from) ==
    /\ activations' = Append(activations, [ver |-> v, era |-> era, from |-> from, skills |-> skillsAt,
                                         undone |-> FALSE])
    /\ current' = Len(activations')
    /\ skillsAt' = v
    /\ payload' = [f \in Payloads |-> IF f[1] = v THEN "own" ELSE payload[f]]

CorePresent(v) == payload[<<v, "versions">>] = "own"

\* `install apply`: prepare_install refuses an incomplete removal and archives a complete one.
Install(v) ==
    /\ Room /\ Placeable(v)
    /\ recovery # NoRecovery => recovery.complete
    /\ ~(current # 0 /\ activations[current].ver = v /\ CorePresent(v))
    /\ PointAt(v, IF current = 0 THEN Len(activations) + 1 ELSE activations[current].era, 0)
    /\ recovery' = NoRecovery
    /\ UNCHANGED <<unit, plans, holder, ops, ghosts, aborts, handEdits>>

\* An install that dies once the record is archived.
InstallDies ==
    /\ holder = NoOperator /\ aborts < MaxAborts
    /\ recovery # NoRecovery /\ recovery.complete
    /\ aborts' = aborts + 1 /\ recovery' = NoRecovery
    /\ UNCHANGED <<payload, installed, plans, holder, ops, ghosts, handEdits>>

Stopped == recovery # NoRecovery /\ ~recovery.complete

Disturb == disturbed' = (disturbed \/ Stopped) /\ UNCHANGED <<lateUnit, rewound>>

\* `update apply` verifies the active payloads and never opens the recovery record.
UpdateTo(v) ==
    /\ Room /\ Placeable(v)
    /\ current # 0 /\ activations[current].ver # v /\ CorePresent(activations[current].ver)
    /\ PointAt(v, activations[current].era, current)
    /\ unit' = IF unit = 0 THEN 0 ELSE Len(activations')
    /\ Disturb
    /\ UNCHANGED <<recovery, plans, holder, ops, aborts, handEdits>>

\* `update rollback` of the update that wrote the active pointer; the old payloads are verified.
RollBack ==
    /\ holder = NoOperator
    /\ current # 0 /\ activations[current].from # 0
    /\ LET from == activations[current].from IN
       /\ CorePresent(activations[from].ver)
       /\ current' = from
       /\ skillsAt' = activations[current].skills
       /\ unit' = IF unit = 0 THEN 0 ELSE from
    /\ activations' = [activations EXCEPT ![current].undone = TRUE]
    /\ Disturb
    /\ UNCHANGED <<payload, recovery, plans, holder, ops, aborts, handEdits>>

\* `service install` binds the active daemon; it too never opens the recovery record.
InstallUnit ==
    /\ holder = NoOperator /\ current # 0 /\ unit = 0
    /\ CorePresent(activations[current].ver)
    /\ unit' = current
    /\ lateUnit' = (lateUnit \/ \E r \in {recovery} \cup {ops[p].rec : p \in Operators} :
                                   r # NoRecovery /\ r.unitGone)
    /\ UNCHANGED <<disturbed, rewound>>
    /\ UNCHANGED <<payload, activations, current, skillsAt, recovery, plans, holder, ops, aborts, handEdits>>

EditPayload(f) ==
    /\ payload[f] = "own" /\ handEdits < MaxHandEdits
    /\ handEdits' = handEdits + 1 /\ payload' = [payload EXCEPT ![f] = "edited"]
    /\ UNCHANGED <<installed, recovery, plans, holder, ops, ghosts, aborts>>

UninstallNext ==
    \/ Review \/ RefusedAtOnce \/ InstallDies \/ RollBack \/ InstallUnit
    \/ \E p \in Operators : RemovalStep(p) \/ Die(p)
    \/ \E v \in Releases : Install(v) \/ UpdateTo(v)
    \/ \E f \in Payloads : EditPayload(f)

UninstallSpec == UninstallInit /\ [][UninstallNext]_uninstallVars

-----------------------------------------------------------------------------
\* Properties.

Taken(f) == payload[f] # "absent" /\ payload'[f] = "absent"

(* Edited files survive (ecosystem_uninstall.rs:4 and 560): a file that    *)
(* had been edited by the time the removal took its digest is never        *)
(* removed, whatever aborts and retries come between.                      *)
EditedFilesSurvive ==
    [][\A f \in Payloads : Taken(f) => \E p \in Operators : ops[p].file = f /\ ops[p].saw = "own"]_uninstallVars

(* An approved removal takes only what it was approved for: when a file    *)
(* goes, the pointer, the journals and the file set are still the ones of  *)
(* the plan, although the record was read before the lock and an install   *)
(* or an update may have come in between.                                  *)
RemovalIsApproved ==
    [][\A f \in Payloads : Taken(f) => \E p \in Operators :
          holder = p /\ ops[p].file = f /\ f \in ops[p].rec.plan.runtime /\ SameState(ops[p].rec.plan)]_uninstallVars

(* The owned service is removed before any runtime file (apply's comment,  *)
(* ecosystem_uninstall.rs:470), unless a service was installed after a     *)
(* removal, running or dead, had noted that it is gone.                    *)
ServiceGoesFirst ==
    [][(\E f \in Payloads : Taken(f)) => \/ unit = 0 \/ lateUnit
                                      \/ \E p \in Operators : holder = p /\ ops[p].rec.plan.unit = 0]_uninstallVars

(* A removal that stopped half way can be taken up again: the state its    *)
(* plan names is still there, so the retry is accepted, because the        *)
(* pointers go only once the completion is durable.  Two things break it:  *)
(* an update in between, and a retry that acts on what it read before      *)
(* another removal went on: it writes an old record back, or it gives up   *)
(* the pointers for a completed one that an install has archived (Lock).   *)
StoppedRemovalResumes ==
    Stopped /\ ~disturbed /\ ~rewound => SameState(recovery.plan)

(* What the record says was removed is gone: a death between a removal and *)
(* its note never leaves a file that the retry would skip.                 *)
RemovedIsGone ==
    recovery # NoRecovery /\ ~disturbed => \A f \in recovery.removed : payload[f] = "absent"

(* A removal that stopped can be taken up where it stopped: its record is  *)
(* well formed, true, and of the state that is there.                      *)
RemovalCanBeTakenUp ==
    /\ UninstallTypeOK
    /\ StoppedRemovalResumes
    /\ RemovedIsGone

(* A file goes only as the plan says: unedited, after the service, and     *)
(* while the approved state is the present one.                            *)
FilesGoAsApproved ==
    /\ EditedFilesSurvive
    /\ RemovalIsApproved
    /\ ServiceGoesFirst
=============================================================================
