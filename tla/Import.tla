------------------------------- MODULE Import -------------------------------
(***************************************************************************)
(* `axiom migrate`: what the command does around the migration engine for a   *)
(* repository (axiom/src/migration_runtime.rs): it finds the legacy graph, in  *)
(* either of its two places, reviews it into a plan, and applies the plan or   *)
(* rolls it back under the daemon's instance lock, the lock of the             *)
(* transaction and the lane guards, several plans and the daemon's own          *)
(* publications one after the other.                                          *)
(*                                                                           *)
(* A snapshot is one generation and the pointer that names it, and so are the  *)
(* two files of a plan.  The engine is here what it does to them: it stages,   *)
(* places the generation, then the pointer, and notes each in its journal      *)
(* (module Migration has its phases file by file).                             *)
(***************************************************************************)
EXTENDS Naturals, Sequences, FiniteSets

CONSTANTS
    Snapshots,      \* graphs a legacy place may hold
    Live,           \* a generation the daemon publishes
    NoSnapshot,
    MaxPlans,       \* bound on plans
    MaxWrites,      \* bound on changes of the legacy places and of the target by others
    MaxDeaths       \* bound on runs that die

ASSUME ImportAssumption ==
    /\ Live \notin Snapshots /\ NoSnapshot \notin Snapshots \cup {Live}
    /\ MaxPlans \in Nat /\ MaxWrites \in Nat /\ MaxDeaths \in Nat

Places == {"graph", "grahp"}            \* LEGACY_GRAPH_DIR, LEGACY_MISSPELLED_GRAPH_DIR
PlanFiles == {"generation", "pointer"}
ImportPhases == {"none", "fence", "verify", "cutover", "complete", "rollback"}

VARIABLES
    legacy,      \* [Places -> snapshot]
    bodies,      \* generations under .axiom/graph
    front,       \* the pointer there
    plans,       \* plan documents, in the order of their creation
    expired,     \* plans past their hour
    note,        \* [plan -> [phase, cut]]: its journal.txt
    import,      \* the run: [op, n, at, cut, blocked]
    staged,      \* plans whose staged copies are there
    halfUndone,  \* plans whose rollback died between its two files
    cleared,     \* the target was cleared during a run
    ready,       \* the last run said that the graph is ready
    writes, deaths

ivars == <<legacy, bodies, front, plans, expired, note, import, staged, halfUndone, cleared,
           ready, writes, deaths>>
target == <<bodies, front>>
others == <<writes, cleared>>

Contents == Snapshots \cup {NoSnapshot}

PlanDocuments == [place : Places \cup {NoSnapshot}, legacy : [Places -> Contents], needed : BOOLEAN,
                  bodies : SUBSET (Snapshots \cup {Live}), front : Contents \cup {Live}]

Notes == [phase : ImportPhases, cut : SUBSET PlanFiles]

ImportTypeOK ==
    /\ legacy \in [Places -> Contents]
    /\ bodies \subseteq Snapshots \cup {Live} /\ front \in Contents \cup {Live}
    /\ plans \in Seq(PlanDocuments) /\ Len(plans) <= MaxPlans /\ expired \subseteq 1..Len(plans)
    /\ note \in [1..MaxPlans -> Notes]
    /\ import.op \in {"none", "apply", "rollback"} /\ import.n \in 0..Len(plans)
    /\ import.at \in {"idle", "fence", "prepare", "enter", "generation", "noted", "pointer", "close", "last"}
    /\ import.cut \subseteq PlanFiles /\ import.blocked \in BOOLEAN
    /\ (import.op = "none") = (import.at = "idle")
    /\ staged \subseteq 1..MaxPlans /\ halfUndone \subseteq 1..MaxPlans /\ cleared \in BOOLEAN
    /\ ready \in BOOLEAN
    /\ writes \in 0..MaxWrites /\ deaths \in 0..MaxDeaths

NoImport == [op |-> "none", n |-> 0, at |-> "idle", cut |-> {}, blocked |-> FALSE]
NoNote   == [phase |-> "none", cut |-> {}]

ImportInit ==
    /\ legacy \in [Places -> Contents] /\ bodies = {} /\ front = NoSnapshot
    /\ plans = <<>> /\ expired = {} /\ note = [n \in 1..MaxPlans |-> NoNote]
    /\ import = NoImport /\ staged = {} /\ halfUndone = {} /\ cleared = FALSE
    /\ ready = FALSE /\ writes = 0 /\ deaths = 0

-----------------------------------------------------------------------------
(* Discovery and the plan. *)

\* inventory, and its validation: a pointer names a generation that is there.
Valid == front # NoSnapshot => front \in bodies

\* The first of the two places that holds something.
Selected == IF legacy["graph"] # NoSnapshot THEN "graph"
            ELSE IF legacy["grahp"] # NoSnapshot THEN "grahp" ELSE NoSnapshot

Empty == bodies = {} /\ front = NoSnapshot

\* The two places agree, and a target that is there is the legacy graph itself.
Discovered ==
    /\ Valid
    /\ \A p, q \in Places : legacy[p] # NoSnapshot /\ legacy[q] # NoSnapshot => legacy[p] = legacy[q]
    /\ Selected # NoSnapshot /\ ~Empty => bodies = {legacy[Selected]} /\ front = legacy[Selected]

PlanImport ==
    /\ Len(plans) < MaxPlans /\ Discovered
    /\ plans' = Append(plans, [place |-> Selected, legacy |-> legacy, bodies |-> bodies, front |-> front,
                               needed |-> Selected # NoSnapshot /\ Empty])
    /\ UNCHANGED <<legacy, target, expired, note, import, staged, halfUndone, ready, deaths, others>>

Snapshot(n) == IF plans[n].needed THEN plans[n].legacy[plans[n].place] ELSE NoSnapshot

-----------------------------------------------------------------------------
(* operate: what apply and rollback have in common. *)

\* The run has the instance lock, the lock of the transaction and the lane guards: none is
\* waited for, and a run that does not get them changes nothing.
MayOperate(n) == n \in 1..Len(plans) /\ import.op = "none"

StartImport(op, n, at, cut) ==
    import' = [op |-> op, n |-> n, at |-> at, cut |-> cut, blocked |-> FALSE]

Ends(how) == import' = NoImport /\ ready' = (how = "ready")

Goes(at) == import' = [import EXCEPT !.at = at]

Noted(phase, cut) == note' = [note EXCEPT ![import.n] = [phase |-> phase, cut |-> cut]]

\* The bytes of a file of the plan, and whether anything is there.
InPlaceOf(f, s) == IF f = "generation" THEN s \in bodies ELSE front = s
Appeared(f, s) == IF f = "generation" THEN s \in bodies ELSE front # NoSnapshot

Written(f, s) == IF f = "generation" THEN bodies' = bodies \cup {s} /\ UNCHANGED front
                                     ELSE front' = s /\ UNCHANGED bodies

Removed(f, s) == IF f = "generation" THEN bodies' = bodies \ {s} /\ UNCHANGED front
                                     ELSE front' = NoSnapshot /\ UNCHANGED bodies

-----------------------------------------------------------------------------
(* apply. *)

\* Mutant: only a target with a pointer counts.
OwnTargetWithPointer(n) ==
    plans[n].needed /\ front # NoSnapshot =>
        note[n].phase # "none" /\ bodies \subseteq {Snapshot(n)} /\ front \in {Snapshot(n), NoSnapshot}

\* Nothing under the target that this transaction did not write.
OwnTarget(n) ==
    plans[n].needed /\ ~Empty =>
        note[n].phase # "none" /\ bodies \subseteq {Snapshot(n)} /\ front \in {Snapshot(n), NoSnapshot}

\* Within its hour, and every source is what was reviewed.
Authorised(n) ==
    /\ n \notin expired /\ legacy = plans[n].legacy
    /\ ~plans[n].needed => Valid /\ bodies = plans[n].bodies /\ front = plans[n].front

\* The checks, the journal that is there, and the fence, which is noted first even in a resumed run.
BeginApply(n) ==
    /\ MayOperate(n)
    /\ IF ~OwnTarget(n) \/ ~Authorised(n) THEN Ends("refused") /\ UNCHANGED note
       ELSE IF note[n].phase = "complete" THEN Ends(IF Valid THEN "ready" ELSE "invalid") /\ UNCHANGED note
       ELSE LET cut == IF note[n].phase = "rollback" THEN {} ELSE note[n].cut
            IN  StartImport("apply", n, IF note[n].phase = "cutover" THEN "enter" ELSE "prepare", cut)
                /\ note' = [note EXCEPT ![n] = [phase |-> "fence", cut |-> cut]] /\ ready' = FALSE
    /\ UNCHANGED <<legacy, target, plans, expired, staged, halfUndone, deaths, others>>

\* Files still to be placed are staged from their source and must not be there.
Prepare ==
    /\ import.op = "apply" /\ import.at = "prepare"
    /\ LET n == import.n IN
       IF plans[n].needed /\ \/ \E f \in PlanFiles \ import.cut : Appeared(f, Snapshot(n))
                             \/ import.cut # PlanFiles /\ legacy[plans[n].place] # Snapshot(n)
       THEN Ends("refused") /\ UNCHANGED <<note, staged>>
       ELSE Goes("enter") /\ Noted("verify", import.cut) /\ UNCHANGED ready
            /\ staged' = staged \cup {n}
    /\ UNCHANGED <<legacy, target, plans, expired, halfUndone, deaths, others>>

\* The cutover is noted before its first file.
EnterCutover ==
    /\ import.op = "apply" /\ import.at = "enter"
    /\ Noted("cutover", import.cut)
    /\ Goes(IF plans[import.n].needed THEN "generation" ELSE "close")
    /\ UNCHANGED <<legacy, target, plans, expired, staged, halfUndone, ready, deaths, others>>

\* cutover_one may take f: it is in place, or nothing is and its staged copy can be read.
MayPlace(f, s) ==
    InPlaceOf(f, s) \/ (f \notin import.cut /\ ~Appeared(f, s) /\ import.n \in staged)

\* The bytes are placed; the journal follows.
PlaceOne(f, next) ==
    /\ import.op = "apply" /\ import.at = f /\ MayPlace(f, Snapshot(import.n))
    /\ Written(f, Snapshot(import.n))
    /\ import' = [import EXCEPT !.at = next, !.cut = @ \cup {f}]
    /\ UNCHANGED <<legacy, plans, expired, note, staged, halfUndone, ready, deaths, others>>

NoteCut ==
    /\ import.op = "apply" /\ import.at \in {"noted", "last"}
    /\ Noted("cutover", import.cut)
    /\ Goes(IF import.at = "noted" THEN "pointer" ELSE "close")
    /\ UNCHANGED <<legacy, target, plans, expired, staged, halfUndone, ready, deaths, others>>

\* A cutover that is refused takes back what the journal calls placed and is still its own.
RestoreImport ==
    /\ import.op = "apply" /\ import.at \in PlanFiles /\ ~MayPlace(import.at, Snapshot(import.n))
    /\ LET s == Snapshot(import.n)
           own == {f \in import.cut : InPlaceOf(f, s) \/ ~Appeared(f, s)}
       IN  /\ bodies' = IF "generation" \in own THEN bodies \ {s} ELSE bodies
           /\ front' = IF "pointer" \in own THEN NoSnapshot ELSE front
           /\ Noted(IF own = import.cut THEN "verify" ELSE "cutover", import.cut \ own)
    /\ staged' = staged \ {import.n}
    /\ Ends("restored")
    /\ UNCHANGED <<legacy, plans, expired, halfUndone, deaths, others>>

\* The journal is closed, then the whole inventory is validated again.
FinishImport ==
    /\ import.op = "apply" /\ import.at = "close"
    /\ Noted("complete", import.cut)
    /\ Ends(IF Valid THEN "ready" ELSE "invalid")
    /\ UNCHANGED <<legacy, target, plans, expired, staged, halfUndone, deaths, others>>

-----------------------------------------------------------------------------
(* rollback: it has no hour and compares no sources. *)

BeginRollback(n) ==
    /\ MayOperate(n) /\ note[n].phase # "none"
    /\ IF (plans[n].needed \/ Valid) /\ note[n].phase \in {"cutover", "complete"}
       THEN StartImport("rollback", n, IF plans[n].needed THEN "generation" ELSE "close", note[n].cut)
            /\ ready' = FALSE
       ELSE Ends("refused")
    /\ UNCHANGED <<legacy, target, plans, expired, note, staged, halfUndone, deaths, others>>

\* Mutant: what the journal calls placed is removed, whatever it is now.
UndoAnything(f, next) ==
    /\ import.op = "rollback" /\ import.at = f
    /\ Removed(f, Snapshot(import.n))
    /\ import' = [import EXCEPT !.at = next, !.cut = @ \ {f}]
    /\ staged' = staged \ {import.n}
    /\ UNCHANGED <<legacy, plans, expired, note, halfUndone, ready, deaths, others>>

\* Its own bytes are removed, a lost note included; other bytes at a noted place block the end.
UndoOne(f, next) ==
    /\ import.op = "rollback" /\ import.at = f
    /\ LET s == Snapshot(import.n) IN
       IF InPlaceOf(f, s)
       THEN Removed(f, s) /\ import' = [import EXCEPT !.at = next, !.cut = @ \ {f}]
       ELSE /\ UNCHANGED target
            /\ import' = [import EXCEPT !.at = next, !.blocked = @ \/ (f \in import.cut /\ Appeared(f, s)),
                                        !.cut = IF Appeared(f, s) THEN @ ELSE @ \ {f}]
    /\ staged' = staged \ {import.n}
    /\ UNCHANGED <<legacy, plans, expired, note, halfUndone, ready, deaths, others>>

FinishRollback ==
    /\ import.op = "rollback" /\ import.at = "close"
    /\ Noted(IF import.blocked THEN note[import.n].phase ELSE "rollback", import.cut)
    /\ halfUndone' = halfUndone \ {import.n}
    /\ Ends(IF import.blocked THEN "blocked" ELSE "rolledBack")
    /\ UNCHANGED <<legacy, target, plans, expired, staged, deaths, others>>

-----------------------------------------------------------------------------
(* The others. *)

ImportDies ==
    /\ import.op # "none" /\ deaths < MaxDeaths
    /\ deaths' = deaths + 1
    /\ halfUndone' = IF import.op = "rollback" /\ import.at = "pointer" THEN halfUndone \cup {import.n} ELSE halfUndone
    /\ Ends("none")
    /\ UNCHANGED <<legacy, target, plans, expired, note, staged, others>>

PlanExpires(n) ==
    /\ n \in 1..Len(plans) \ expired
    /\ expired' = expired \cup {n}
    /\ UNCHANGED <<legacy, target, plans, note, import, staged, halfUndone, ready, deaths, others>>

\* The daemon publishes a generation of its own: it has the instance lock, so no run is going.
PublishLive ==
    /\ import.op = "none"
    /\ bodies' = bodies \cup {Live} /\ front' = Live
    /\ UNCHANGED <<legacy, plans, expired, note, import, staged, halfUndone, ready, deaths, others>>

\* The old tool writes or removes a legacy place; somebody clears the target.
WriteLegacy(p, s) ==
    /\ writes < MaxWrites /\ writes' = writes + 1
    /\ legacy' = [legacy EXCEPT ![p] = s]
    /\ UNCHANGED <<target, plans, expired, note, import, staged, halfUndone, cleared, ready, deaths>>

ClearTarget ==
    /\ writes < MaxWrites /\ writes' = writes + 1
    /\ bodies' = {} /\ front' = NoSnapshot /\ cleared' = (cleared \/ import.op # "none")
    /\ UNCHANGED <<legacy, plans, expired, note, import, staged, halfUndone, ready, deaths>>

ImportNext ==
    \/ PlanImport \/ Prepare \/ EnterCutover \/ NoteCut \/ RestoreImport \/ FinishImport \/ FinishRollback
    \/ PlaceOne("generation", "noted") \/ PlaceOne("pointer", "last")
    \/ UndoOne("generation", "pointer") \/ UndoOne("pointer", "close")
    \/ \E n \in 1..MaxPlans : BeginApply(n) \/ BeginRollback(n) \/ PlanExpires(n)
    \/ ImportDies \/ PublishLive \/ ClearTarget
    \/ \E p \in Places, s \in Contents : WriteLegacy(p, s)

ImportSpec == ImportInit /\ [][ImportNext]_ivars

-----------------------------------------------------------------------------
(* Properties. *)

(* What readers of the new layout find is whole: outside a run the pointer     *)
(* names a generation that is there, after any interrupted, refused, resumed    *)
(* or undone import.  A rollback removes the generation before its pointer and   *)
(* is not covered when it dies between the two (rollback_journaled); nor is a     *)
(* target somebody cleared under a run.                                           *)
ImportedPointerHasGeneration == import.op = "none" /\ halfUndone = {} /\ ~cleared => Valid

(* No import replaces or removes what the daemon published meanwhile: the       *)
(* target must be the transaction's own, file by file ("target appeared or      *)
(* changed outside the owned journal", operate; cutover_one and the rollback).   *)
LiveIsKept ==
    [][import.op # "none" /\ writes' = writes =>
         /\ Live \in bodies => Live \in bodies'
         /\ front = Live => front' = Live]_ivars

(* Two plans never import two graphs over each other, although the legacy        *)
(* places change between them and either may be interrupted and taken up again   *)
(* ("conflicting .axiom target", plan; the stale check of operate).               *)
OneGraphIsImported == Cardinality(bodies \ {Live}) <= 1

(* "ready" means that the reviewed graph is in the target with its pointer, as    *)
(* long as nobody cleared the target during the run; the run may have been         *)
(* resumed after another plan or the daemon was at work.  An apply of a plan whose   *)
(* journal is complete also says "ready", whatever became of the target since         *)
(* (AlreadyComplete), and is not covered.                                             *)
ReadyIsReviewed ==
    [][ready' /\ import.op = "apply" /\ plans[import.n].needed /\ ~cleared =>
         front = Snapshot(import.n) /\ Snapshot(import.n) \in bodies]_ivars

(* What is in the target is one graph, whole: the three facts that an      *)
(* import owes to the readers of the new layout.                           *)
ImportedGraphIsWhole ==
    /\ ImportTypeOK
    /\ ImportedPointerHasGeneration
    /\ OneGraphIsImported

(* What a run of the command does to the target is what was reviewed: the  *)
(* daemon's publications stay, and "ready" is true.                        *)
ImportKeepsItsWord ==
    /\ LiveIsKept
    /\ ReadyIsReviewed
=============================================================================
