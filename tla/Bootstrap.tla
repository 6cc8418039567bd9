----------------------------- MODULE Bootstrap -----------------------------
(***************************************************************************)
(* Managed content in one repository (crates/axiom/src/bootstrap plan.rs,     *)
(* preconditions.rs, apply.rs, rollback.rs, ownership.rs; the order in which   *)
(* operator_runtime.rs calls them): a block inside AGENTS.md, a policy file    *)
(* and the ownership manifest, written from an approved plan under a lock,      *)
(* with backups and a journal under AXIOM_HOME.                                *)
(*                                                                           *)
(* Processes approve and apply plans beside each other, a human edits all      *)
(* three files at any time, reads and writes fail and processes die.  The      *)
(* journal's rollback has no caller in the repository; here an operator runs   *)
(* it while no apply is alive.  A hash check and the write it allows are one    *)
(* step.                                                                      *)
(***************************************************************************)
EXTENDS Naturals, Sequences, FiniteSets

CONSTANTS
    Appliers,       \* processes that plan and apply
    Templates,      \* template versions that bundles may carry
    MaxText,        \* contents of AGENTS.md outside the block, 0 is none
    Human,          \* managed content as a human left it
    NoPlan,         \* no plan, no lock, no journal
    MaxHumanEdits, MaxDeaths, MaxErrors     \* bounds on the environment

Managed == {"agents", "policy", "owner"}
Order   == <<"agents", "policy", "owner">>      \* ordered_files: the manifest last
Bytes   == [text : 0..MaxText, block : Templates \cup {0, Human}]
Plans   == [template : Templates, before : [Managed -> Bytes]]

ApplyJournals == [state : {"intent", "complete", "rolledback"}, plan : Plans, backed : SUBSET Managed]

ASSUME BootstrapAssumption ==
    /\ Templates \subseteq Nat \ {0} /\ Human \notin Nat /\ MaxText \in Nat
    /\ MaxHumanEdits \in Nat /\ MaxDeaths \in Nat /\ MaxErrors \in Nat
    /\ NoPlan \notin Plans /\ NoPlan \notin ApplyJournals

Nothing == [text |-> 0, block |-> 0]            \* an absent file; a human leaves no empty one

VARIABLES
    repo,       \* [Managed -> Bytes]
    lock,       \* the plan whose digest the lock file records, or NoPlan
    applyJournal,    \* [state, plan, backed]: the journal of the repository, or NoPlan
    backup,     \* [Managed -> Bytes]: the backup files
    applier,    \* [Appliers -> [at, plan]]
    outcome,    \* how the last apply or rollback ended
    before,     \* [Managed -> Bytes]: what the lock's holder read after it verified
    at,         \* the file in Order that the holder, or the rollback, is at
    written,    \* files the holder wrote and verified
    refused,    \* whether the undoing has refused or failed
    late,       \* files edited since the last verification; all, until the lock's holder verifies
    unread,     \* whether a read of this apply failed
    count       \* [edits, deaths, errors]

uvars == <<repo, lock, applyJournal, backup, applier, outcome, before, at, written, refused, late, unread, count>>

\* The plan of a template over what the repository holds: what it would write.
After(plan) ==
    [f \in Managed |->
        CASE f = "agents" -> [plan.before[f] EXCEPT !.block = plan.template]
          [] f = "policy" -> [Nothing EXCEPT !.block = plan.template]
          [] f = "owner"  -> [Nothing EXCEPT !.block = plan.template]]

\* The files whose bytes change, in the order of the plan.
Writes(plan) == {f \in Managed : After(plan)[f] # plan.before[f]}

\* plan_repository: an unreadable manifest, managed content without a manifest,
\* or content that is not what the manifest records (detect_drift).
Conflict(r) ==
    LET owner == r["owner"].block
    IN  \/ owner = Human
        \/ owner = 0 /\ (r["agents"].block # 0 \/ r["policy"] # Nothing)
        \/ owner # 0 /\ (r["agents"].block # owner \/ r["policy"].block # owner)

ApplySteps == {"idle", "approved", "acquire", "verify", "read", "backup", "intent", "write", "check",
               "undo", "undone", "complete"}

BootstrapTypeOK ==
    /\ repo \in [Managed -> Bytes] /\ backup \in [Managed -> Bytes] /\ before \in [Managed -> Bytes]
    /\ lock = NoPlan \/ lock \in Plans
    /\ applyJournal = NoPlan \/ applyJournal \in ApplyJournals
    /\ \A p \in Appliers : /\ applier[p].at \in ApplySteps \cup {"rollback"}
                           /\ applier[p].plan = NoPlan \/ applier[p].plan \in Plans
    /\ outcome \in {"none", "unchanged", "refused", "applied", "rolledback", "rollbackrefused"}
    /\ \A p, q \in Appliers : /\ applier[p].at \notin {"idle", "approved", "acquire"}
                              /\ applier[q].at \notin {"idle", "approved", "acquire"}
                              => p = q
    /\ at \in 0..4 /\ written \subseteq Managed /\ late \subseteq Managed
    /\ refused \in BOOLEAN /\ unread \in BOOLEAN
    /\ count \in [edits : 0..MaxHumanEdits, deaths : 0..MaxDeaths, errors : 0..MaxErrors]

\* A new repository, with or without an AGENTS.md, or one that is up to date.
BootstrapInit ==
    /\ \E t \in 0..MaxText, v \in Templates \cup {0} :
          repo = [f \in Managed |-> IF f = "agents" THEN [text |-> t, block |-> v]
                                    ELSE [text |-> 0, block |-> v]]
    /\ lock = NoPlan /\ applyJournal = NoPlan
    /\ backup = [f \in Managed |-> Nothing]
    /\ applier = [p \in Appliers |-> [at |-> "idle", plan |-> NoPlan]] /\ outcome = "none"
    /\ before = [f \in Managed |-> Nothing] /\ at = 0 /\ written = {} /\ refused = FALSE
    /\ late = {} /\ unread = FALSE
    /\ count = [edits |-> 0, deaths |-> 0, errors |-> 0]

-----------------------------------------------------------------------------
(* The environment. *)

HumanEdits(f, content) ==
    /\ count.edits < MaxHumanEdits /\ repo[f] # content
    /\ repo' = [repo EXCEPT ![f] = content]
    /\ late' = late \cup {f}
    /\ count' = [count EXCEPT !.edits = @ + 1]
    /\ UNCHANGED <<lock, applyJournal, backup, applier, outcome, before, at, written, refused, unread>>

\* A failing read or write; the budget is spent where the failure is chosen.
Fails == count.errors < MaxErrors /\ count' = [count EXCEPT !.errors = @ + 1]
Works == UNCHANGED count

GoOn(p, step) == applier' = [applier EXCEPT ![p].at = step] /\ UNCHANGED outcome

Ends(p, how) == applier' = [applier EXCEPT ![p] = [at |-> "idle", plan |-> NoPlan]] /\ outcome' = how

\* What the process kept in memory is gone with it.
Forget ==
    /\ before' = [f \in Managed |-> Nothing] /\ at' = 0 /\ written' = {} /\ refused' = FALSE

\* Drop: the lock file is removed only while it records the holder's token.
Unlock(p) == lock' = IF lock = applier[p].plan THEN NoPlan ELSE lock

\* A process dies; its lock file stays and nothing ever recovers it.
Dies(p) ==
    /\ applier[p].at \notin {"idle", "approved"} /\ count.deaths < MaxDeaths
    /\ count' = [count EXCEPT !.deaths = @ + 1]
    /\ Ends(p, "none")
    /\ IF applier[p].at = "acquire" THEN UNCHANGED <<before, at, written, refused>> ELSE Forget
    /\ UNCHANGED <<repo, lock, applyJournal, backup, late, unread>>

-----------------------------------------------------------------------------
(* Planning, and the way to the lock. *)

\* A conflict, or nothing to do, is reported and no plan made.
Approve(p, template) ==
    /\ applier[p].at = "idle"
    /\ \A q \in Appliers : applier[q].at # "rollback"
    /\ LET plan == [template |-> template, before |-> repo]
       IN  IF Conflict(repo) \/ Writes(plan) = {} THEN UNCHANGED <<applier, outcome>>
           ELSE applier' = [applier EXCEPT ![p] = [at |-> "approved", plan |-> plan]] /\ outcome' = "none"
    /\ UNCHANGED <<repo, lock, applyJournal, backup, before, at, written, refused, late, unread, count>>

\* The plan is made again: nothing left to do, a changed repository, or go on.
Replan(p) ==
    /\ applier[p].at = "approved"
    /\ LET plan == applier[p].plan
       IN  IF ~Conflict(repo) /\ Writes([plan EXCEPT !.before = repo]) = {} THEN Ends(p, "unchanged")
           ELSE IF repo # plan.before THEN Ends(p, "refused") ELSE GoOn(p, "acquire")
    /\ UNCHANGED <<repo, lock, applyJournal, backup, before, at, written, refused, late, unread, count>>

\* ApplyLock::acquire: exclusive creation of the lock file.
Acquire(p) ==
    /\ applier[p].at = "acquire"
    /\ IF lock # NoPlan THEN Ends(p, "refused") /\ UNCHANGED <<lock, late>>
       ELSE GoOn(p, "verify") /\ lock' = applier[p].plan /\ late' = Managed
    /\ UNCHANGED <<repo, applyJournal, backup, before, at, written, refused, unread, count>>

\* Mutant: the plan that was made again just before is trusted.
VerifyTrusting(p) ==
    /\ applier[p].at = "verify"
    /\ GoOn(p, "read") /\ late' = {} /\ unread' = FALSE /\ UNCHANGED lock
    /\ UNCHANGED <<repo, applyJournal, backup, before, at, written, refused, count>>

\* verify_repository under the lock: every file to be written and the managed
\* block are what the plan saw.
Verify(p) ==
    /\ applier[p].at = "verify"
    /\ LET plan == applier[p].plan
       IN  IF /\ \A f \in Writes(plan) : repo[f] = plan.before[f]
              /\ repo["agents"].block = plan.before["agents"].block
           THEN GoOn(p, "read") /\ late' = {} /\ unread' = FALSE /\ UNCHANGED lock
           ELSE Ends(p, "refused") /\ Unlock(p) /\ UNCHANGED <<late, unread>>
    /\ UNCHANGED <<repo, applyJournal, backup, before, at, written, refused, count>>

-----------------------------------------------------------------------------
(* write_repository. *)

\* The bytes to back up; a file that cannot be read counts as absent.
ReadBefore(p) ==
    /\ applier[p].at = "read"
    /\ \/ Works /\ before' = repo /\ UNCHANGED unread
       \/ Fails /\ \E f \in Writes(applier[p].plan) :
                      before' = [repo EXCEPT ![f] = Nothing] /\ unread' = TRUE
    /\ GoOn(p, "backup") /\ at' = 1
    /\ UNCHANGED <<repo, lock, applyJournal, backup, written, refused, late>>

\* Mutant: the backups of an earlier apply are taken for this one's.
BackupOnce(p) ==
    /\ applier[p].at = "backup" /\ at <= Len(Order)
    /\ LET f == Order[at]
       IN  /\ at' = at + 1
           /\ backup' = IF f \in Writes(applier[p].plan) /\ backup[f] = Nothing
                        THEN [backup EXCEPT ![f] = before[f]] ELSE backup
    /\ UNCHANGED <<repo, lock, applyJournal, applier, outcome, before, written, refused, late, unread, count>>

\* One backup; a failure ends the apply with nothing written.
Backup(p) ==
    /\ applier[p].at = "backup" /\ at <= Len(Order)
    /\ LET f == Order[at]
       IN  \/ /\ Works /\ at' = at + 1
              /\ backup' = IF f \in Writes(applier[p].plan) /\ before[f] # Nothing
                           THEN [backup EXCEPT ![f] = before[f]] ELSE backup
              /\ UNCHANGED <<applier, outcome, lock, before, written, refused>>
           \/ /\ f \in Writes(applier[p].plan) /\ before[f] # Nothing /\ Fails
              /\ Ends(p, "rolledback") /\ Unlock(p) /\ Forget
              /\ UNCHANGED backup
    /\ UNCHANGED <<repo, applyJournal, late, unread>>

\* The intent is recorded once all backups exist.
Intent(p) ==
    /\ applier[p].at = "backup" /\ at > Len(Order)
    /\ \/ /\ Works /\ GoOn(p, "write") /\ at' = 1
          /\ applyJournal' = [state |-> "intent", plan |-> applier[p].plan,
                              backed |-> {f \in Writes(applier[p].plan) : before[f] # Nothing}]
          /\ UNCHANGED <<lock, before, written, refused>>
       \/ Fails /\ Ends(p, "rolledback") /\ Unlock(p) /\ Forget /\ UNCHANGED applyJournal
    /\ UNCHANGED <<repo, backup, late, unread>>

\* One file replaced; a failure starts the undoing.
WriteFile(p) ==
    /\ applier[p].at = "write" /\ at <= Len(Order)
    /\ LET f == Order[at]
           plan == applier[p].plan
       IN  IF f \notin Writes(plan) THEN Works /\ at' = at + 1 /\ UNCHANGED <<repo, applier, outcome>>
           ELSE \/ Works /\ repo' = [repo EXCEPT ![f] = After(plan)[f]] /\ GoOn(p, "check") /\ UNCHANGED at
                \/ Fails /\ GoOn(p, "undo") /\ at' = at - 1 /\ UNCHANGED repo
    /\ UNCHANGED <<lock, applyJournal, backup, before, written, refused, late, unread>>

\* The file is read back: its hash, and in AGENTS.md the bytes outside the
\* block.  A file that fails here is not among the written ones.
CheckFile(p) ==
    /\ applier[p].at = "check"
    /\ LET f == Order[at]
           after == After(applier[p].plan)
           kept == f # "agents" \/ before[f] = Nothing \/ before[f].text = after[f].text
       IN  \/ /\ repo[f] = after[f] /\ kept /\ Works
              /\ written' = written \cup {f} /\ at' = at + 1 /\ GoOn(p, "write")
              /\ UNCHANGED unread
           \/ /\ ~(repo[f] = after[f] /\ kept) /\ Works
              /\ at' = at - 1 /\ GoOn(p, "undo")
              /\ UNCHANGED <<written, unread>>
           \/ /\ Fails
              /\ at' = at - 1 /\ GoOn(p, "undo") /\ unread' = TRUE
              /\ UNCHANGED written
    /\ UNCHANGED <<repo, lock, applyJournal, backup, before, refused, late>>

\* All files are written: the journal is complete, or stays as it was.
Complete(p) ==
    /\ applier[p].at = "write" /\ at > Len(Order)
    /\ \/ Works /\ applyJournal' = [applyJournal EXCEPT !.state = "complete"]
       \/ Fails /\ UNCHANGED applyJournal
    /\ Ends(p, "applied") /\ Unlock(p) /\ Forget
    /\ UNCHANGED <<repo, backup, late, unread>>

\* The internal rollback, backwards over the written files: a file that is not
\* what was written stays; a file without a backup is removed; a failure ends it.
UndoFile(p) ==
    /\ applier[p].at = "undo" /\ at > 0
    /\ LET f == Order[at]
       IN  IF f \notin written THEN Works /\ at' = at - 1 /\ UNCHANGED <<repo, refused>>
           ELSE \/ /\ Works /\ at' = at - 1
                   /\ IF repo[f] # After(applier[p].plan)[f] THEN refused' = TRUE /\ UNCHANGED repo
                      ELSE /\ repo' = [repo EXCEPT ![f] = IF before[f] = Nothing THEN Nothing
                                                          ELSE backup[f]]
                           /\ UNCHANGED refused
                \/ Fails /\ at' = 0 /\ refused' = TRUE /\ UNCHANGED repo
    /\ UNCHANGED <<lock, applyJournal, backup, applier, outcome, before, written, late, unread>>

\* The journal says rolled back whatever the undoing came to.
Undone(p) ==
    /\ applier[p].at = "undo" /\ at = 0
    /\ \/ Works /\ applyJournal' = [applyJournal EXCEPT !.state = "rolledback"]
       \/ Fails /\ UNCHANGED applyJournal
    /\ Ends(p, IF refused THEN "rollbackrefused" ELSE "rolledback") /\ Unlock(p) /\ Forget
    /\ UNCHANGED <<repo, backup, late, unread>>

-----------------------------------------------------------------------------
(* The rollback of a applyJournal. *)

Reversible(f) ==
    LET plan == applyJournal.plan
    IN  \/ repo[f] = plan.before[f]
        \/ /\ repo[f] = After(plan)[f]
           /\ plan.before[f] # Nothing => f \in applyJournal.backed /\ backup[f] = plan.before[f]

\* plan_rollback: every file is as before, or is what was written and can be restored.
PlanRollback(p) ==
    /\ \A q \in Appliers : applier[q].at = "idle"
    /\ applyJournal # NoPlan /\ \A f \in Writes(applyJournal.plan) : Reversible(f)
    /\ applier' = [applier EXCEPT ![p].at = "rollback"] /\ outcome' = "none"
    /\ at' = Len(Order) /\ late' = {}
    /\ written' = {f \in Writes(applyJournal.plan) : repo[f] # applyJournal.plan.before[f]}
    /\ UNCHANGED <<repo, lock, applyJournal, backup, before, refused, unread, count>>

\* rollback_repository, the last file of the plan first; an edit or an error
\* ends it where it is.
RollbackFile(p) ==
    /\ applier[p].at = "rollback" /\ at > 0
    /\ LET f == Order[at]
           plan == applyJournal.plan
       IN  \/ /\ f \in written => repo[f] = After(plan)[f]
              /\ Works
              /\ repo' = IF f \in written THEN [repo EXCEPT ![f] = plan.before[f]] ELSE repo
              /\ at' = at - 1
              /\ UNCHANGED <<applier, outcome, before, written, refused>>
           \/ /\ f \in written
              /\ (Works /\ repo[f] # After(plan)[f]) \/ Fails
              /\ Ends(p, "refused") /\ Forget /\ UNCHANGED repo
    /\ UNCHANGED <<lock, applyJournal, backup, late, unread>>

RollbackDone(p) ==
    /\ applier[p].at = "rollback" /\ at = 0
    /\ \/ Works /\ applyJournal' = [applyJournal EXCEPT !.state = "rolledback"] /\ Ends(p, "rolledback")
       \/ Fails /\ UNCHANGED applyJournal /\ Ends(p, "refused")
    /\ Forget
    /\ UNCHANGED <<repo, lock, backup, late, unread>>

-----------------------------------------------------------------------------
EngineStep(p) ==
    \/ Replan(p) \/ Acquire(p) \/ Verify(p)
    \/ ReadBefore(p) \/ Backup(p) \/ Intent(p) \/ WriteFile(p) \/ CheckFile(p) \/ Complete(p)
    \/ UndoFile(p) \/ Undone(p)
    \/ PlanRollback(p) \/ RollbackFile(p) \/ RollbackDone(p)

\* What a human may leave in a file.
HumanBytes(f) ==
    IF f = "agents"
    THEN {[repo[f] EXCEPT !.text = t] : t \in 1..MaxText}
           \cup {[repo[f] EXCEPT !.block = b] : b \in IF repo[f].block = 0 THEN {} ELSE {0, Human}}
    ELSE {[text |-> 0, block |-> b] : b \in {0, Human}}

BootstrapNext ==
    \/ \E p \in Appliers : EngineStep(p) \/ Dies(p) \/ \E t \in Templates : Approve(p, t)
    \/ \E f \in Managed : \E content \in HumanBytes(f) : HumanEdits(f, content)

BootstrapSpec == BootstrapInit /\ [][BootstrapNext]_uvars

-----------------------------------------------------------------------------
(* Properties. *)

(* The engine replaces only bytes of the plan it carries out, the ones that  *)
(* were approved and its own, except where a human came after the check under *)
(* the lock (verify_repository, rollback; "an approved plan can never          *)
(* overwrite a human edit made after approval").                                *)
EditsSurvive ==
    [][\A p \in Appliers, f \in Managed :
         repo'[f] # repo[f] /\ count'.edits = count.edits /\ applier[p].at \in {"write", "undo", "rollback"}
           => LET plan == IF applier[p].at = "rollback" THEN applyJournal.plan ELSE applier[p].plan
              IN  f \in late \/ repo[f] \in {plan.before[f], After(plan)[f]}]_uvars

(* While the lock of an apply whose intent is recorded is there, also one      *)
(* that died left behind, each file it has replaced can be restored from its    *)
(* backup, unless a human came after the check or the bytes could not be read   *)
(* ("a half-finished run is recoverable instead of lost").                      *)
InterruptedApplyIsReversible ==
    applyJournal # NoPlan /\ applyJournal.state = "intent" /\ lock = applyJournal.plan =>
        \A f \in Writes(applyJournal.plan) \ late : ~unread => Reversible(f)

(* An apply that reports success, or that it undid what it did, leaves a       *)
(* repository that the next plan accepts: manifest, block and policy agree,      *)
(* when no human edited and every read succeeded (write_repository, rollback).    *)
NextPlanIsAccepted ==
    outcome \in {"applied", "rolledback"} /\ lock = NoPlan
        /\ count.edits = 0 /\ ~unread
        /\ (\A q \in Appliers : applier[q].at # "rollback")
        => ~Conflict(repo)

(* A rollback that ends well has brought back all that the plan had replaced,  *)
(* whatever it found half done, except what a human did meanwhile                *)
(* (rollback_repository).                                                       *)
RollbackRestoresAll ==
    [][\A p \in Appliers :
         applier[p].at = "rollback" /\ outcome' = "rolledback" /\ applier'[p].at = "idle"
           => \A f \in Writes(applyJournal.plan) \ late : repo[f] = applyJournal.plan.before[f]]_uvars

(* However an apply ends, the repository is one that the next plan         *)
(* accepts, or one whose replaced bytes are in the backups; one process at *)
(* a time is past the lock.                                                *)
ApplyEndsOrIsReversible ==
    /\ BootstrapTypeOK
    /\ InterruptedApplyIsReversible
    /\ NextPlanIsAccepted

(* What apply and rollback do to the files: they replace approved bytes    *)
(* only, and a rollback that ends well has undone all of it.               *)
OnlyApprovedBytesChange ==
    /\ EditsSurvive
    /\ RollbackRestoresAll
=============================================================================
