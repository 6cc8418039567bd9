------------------------------- MODULE Replace -------------------------------
(***************************************************************************)
(* Exchanging an installed executable and taking the exchange back            *)
(* (crates/axiom/src/update/native_apply.rs).  The executables of one install  *)
(* root share one rollback journal; a replacement copies the bytes that are     *)
(* there to a backup, journals their digest, looks for open handles, stages     *)
(* the verified bytes and renames them over the destination.                   *)
(*                                                                           *)
(* A file is its content, which stands for its digest too.  fs.write is not     *)
(* atomic, fs.rename is; a run may die between any two calls and inside a       *)
(* write.                                                                     *)
(***************************************************************************)
EXTENDS Naturals

CONSTANTS
    Executables,    \* COMPONENTS
    Artifacts,      \* contents an executable may have; the verified artifacts
    Torn,           \* what a write that died leaves
    Missing,        \* no file
    NoUndo,         \* no journal file
    NoTarget        \* no executable

ASSUME ReplaceAssumption ==
    /\ {Torn, Missing} \cap Artifacts = {} /\ Torn # Missing
    /\ NoTarget \notin Executables
    /\ {NoUndo, Torn} \cap [of : Executables, before : Artifacts \cup {Torn}] = {}

VARIABLES
    binary,     \* [Executables -> content]: the destination
    saved,      \* [Executables -> content]: its .axiom-backup
    staged,     \* [Executables -> content]: its .axiom-staged
    undo,       \* the journal: NoUndo, Torn or [of, before]
    open,       \* executables that a process holds open
    doing,      \* [call, target, step, bytes]: the run, if there is one
    last,       \* the executable of the last exchange that no later run disturbed
    was         \* what it held before that exchange

replaceVars == <<binary, saved, staged, undo, open, doing, last, was>>
executableFiles == <<binary, saved, staged, undo>>

Contents == Artifacts \cup {Torn, Missing}
UndoRecords == [of : Executables, before : Artifacts \cup {Torn}]
Idle == [call |-> "none", target |-> NoTarget, step |-> "none", bytes |-> Missing]

ReplaceTypeOK ==
    /\ binary \in [Executables -> Artifacts \cup {Torn}]
    /\ saved \in [Executables -> Contents] /\ staged \in [Executables -> Contents]
    /\ undo \in UndoRecords \cup {NoUndo, Torn}
    /\ open \subseteq Executables
    /\ doing.call \in {"none", "apply", "rollback"} /\ doing.target \in Executables \cup {NoTarget}
    /\ last \in Executables \cup {NoTarget} /\ was \in Contents

ReplaceInit ==
    /\ binary \in [Executables -> Artifacts]
    /\ saved = [x \in Executables |-> Missing] /\ staged = [x \in Executables |-> Missing]
    /\ undo = NoUndo
    /\ open \in SUBSET Executables
    /\ doing = Idle
    /\ last = NoTarget /\ was = Missing

Runs(call, step) == doing.call = call /\ doing.step = step
Then(step) == doing' = [doing EXCEPT !.step = step]

\* native_apply: the bytes are the verified artifact, and there is an
\* executable to replace.  What the version on record says is the planner's.
BeginApply(x, a) ==
    /\ doing = Idle
    /\ doing' = [call |-> "apply", target |-> x, step |-> "backup", bytes |-> a]
    /\ UNCHANGED <<executableFiles, open, last, was>>

\* The bytes that are there are copied to the backup.
WriteBackup ==
    /\ Runs("apply", "backup")
    /\ saved' = [saved EXCEPT ![doing.target] = binary[doing.target]]
    /\ last' = NoTarget /\ was' = Missing
    /\ Then("journal")
    /\ UNCHANGED <<binary, staged, undo, open>>

\* Mutant: the journal is left for after the cutover.
JournalLast ==
    /\ Runs("apply", "journal")
    /\ Then("fence")
    /\ UNCHANGED <<executableFiles, open, last, was>>

\* Their digest is journalled, over the journal of any earlier replacement.
WriteJournal ==
    /\ Runs("apply", "journal")
    /\ undo' = [of |-> doing.target, before |-> saved[doing.target]]
    /\ Then("fence")
    /\ UNCHANGED <<binary, saved, staged, open, last, was>>

\* The destination is held open: a conflict, the run ends.
FenceBusy ==
    /\ Runs("apply", "fence") /\ doing.target \in open
    /\ doing' = Idle
    /\ UNCHANGED <<executableFiles, open, last, was>>

\* It is idle, or the host cannot say.
FenceClear ==
    /\ Runs("apply", "fence")
    /\ Then("stage")
    /\ UNCHANGED <<executableFiles, open, last, was>>

\* The verified bytes are written to the temporary sibling.
StageBytes ==
    /\ Runs("apply", "stage")
    /\ staged' = [staged EXCEPT ![doing.target] = doing.bytes]
    /\ Then("check")
    /\ UNCHANGED <<binary, saved, undo, open, last, was>>

\* check_replacement refuses: a link, a handle, a length, another volume.
CheckRefuses ==
    /\ Runs("apply", "check")
    /\ doing' = Idle
    /\ UNCHANGED <<executableFiles, open, last, was>>

\* The staged bytes are the verified ones and one rename exchanges the
\* destination.
Cutover ==
    /\ Runs("apply", "check") /\ staged[doing.target] = doing.bytes
    /\ last' = doing.target /\ was' = binary[doing.target]
    /\ binary' = [binary EXCEPT ![doing.target] = staged[doing.target]]
    /\ staged' = [staged EXCEPT ![doing.target] = Missing]
    /\ doing' = Idle
    /\ UNCHANGED <<saved, undo, open>>

\* The journal is there and is this executable's, and its backup is the bytes
\* whose digest it recorded.
Restorable(x) ==
    /\ undo \notin {NoUndo, Torn} /\ undo.of = x
    /\ saved[x] # Missing /\ saved[x] = undo.before

\* rollback_native_apply; a refusal changes nothing.
BeginRestore(x) ==
    /\ doing = Idle /\ Restorable(x)
    /\ doing' = [call |-> "rollback", target |-> x, step |-> "write", bytes |-> saved[x]]
    /\ UNCHANGED <<executableFiles, open, last, was>>

\* The backup is written over the destination, in place, and read back.
Restore ==
    /\ Runs("rollback", "write")
    /\ binary' = [binary EXCEPT ![doing.target] = doing.bytes]
    /\ doing' = Idle
    /\ UNCHANGED <<saved, staged, undo, open, last, was>>

\* A run dies between two calls.
RunDies ==
    /\ doing # Idle
    /\ doing' = Idle
    /\ UNCHANGED <<executableFiles, open, last, was>>

\* A run dies inside a write.
WriteDies ==
    /\ doing # Idle
    /\ \/ /\ Runs("apply", "backup")
          /\ saved' = [saved EXCEPT ![doing.target] = Torn]
          /\ last' = NoTarget /\ was' = Missing
          /\ UNCHANGED <<binary, staged, undo>>
       \/ /\ Runs("apply", "journal") /\ undo' = Torn
          /\ UNCHANGED <<binary, saved, staged, last, was>>
       \/ /\ Runs("apply", "stage")
          /\ staged' = [staged EXCEPT ![doing.target] = Torn]
          /\ UNCHANGED <<binary, saved, undo, last, was>>
       \/ /\ Runs("rollback", "write")
          /\ binary' = [binary EXCEPT ![doing.target] = Torn]
          /\ UNCHANGED <<saved, staged, undo, last, was>>
    /\ doing' = Idle
    /\ UNCHANGED open

\* The processes of an installation start and stop.
Launch(x) ==
    /\ open' = IF x \in open THEN open \ {x} ELSE open \cup {x}
    /\ UNCHANGED <<executableFiles, doing, last, was>>

ReplaceNext ==
    \/ \E x \in Executables, a \in Artifacts : BeginApply(x, a)
    \/ WriteBackup \/ WriteJournal \/ FenceBusy \/ FenceClear \/ StageBytes \/ CheckRefuses \/ Cutover
    \/ \E x \in Executables : BeginRestore(x) \/ Launch(x)
    \/ Restore \/ RunDies \/ WriteDies

ReplaceSpec == ReplaceInit /\ [][ReplaceNext]_replaceVars

-----------------------------------------------------------------------------
\* Until another replacement begins to write, the last one can be taken back:
\* the journal is its own and the backup is what its destination held, also
\* after a rollback that died and left the destination torn.
LastExchangeCanBeUndone ==
    ReplaceTypeOK /\ (last # NoTarget => Restorable(last) /\ saved[last] = was)
=============================================================================
