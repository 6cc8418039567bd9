----------------------------- MODULE Publication -----------------------------
(***************************************************************************)
(* The reconcile pass of one project and the publication of its graph      *)
(* (crates/axiom-graphd/src/serve.rs), over the file rows and the outbox   *)
(* of crates/graph-store and the staging, pointer and recovery functions   *)
(* of crates/graph-export.  The instance lock makes the pass the only      *)
(* writer; it interleaves with edits of the source tree and with readers,  *)
(* and a crash may fall between any two of its durable effects.            *)
(*                                                                         *)
(* A generation is named by the digest of its own contents, so a payload   *)
(* stands for its generation id: what every file contributes to it.        *)
(***************************************************************************)
EXTENDS Naturals

CONSTANTS
    Files,          \* portable paths of the project
    Supported,      \* the files of a language that is analysed
    Contents,       \* what a file can hold
    Invalid,        \* contents the analyzers refuse in a supported file
    Blank,          \* contents without a declaration
    Absent,         \* no such file, NULL observed_hash, no facts
    Listed,         \* an unsupported file is published by its path only
    NoPointer,      \* no current.json
    NoManifest,     \* a staging directory without a readable manifest
    NoFile,
    Readers,        \* processes that load a lane under its shared guard
    MayShutdown,    \* whether a termination signal may stop the analysis
    MaxEdits, MaxCrashes, MaxRebuilds      \* bounds on the environment

Lanes == {"live", "checkpoint"}

Payloads == [Files -> Contents \cup {Absent, Listed}]

ASSUME PublicationAssumption ==
    /\ Supported \subseteq Files /\ NoFile \notin Files
    /\ Blank \subseteq Contents /\ Absent \notin Contents \cup {Listed}
    /\ NoPointer \notin Payloads /\ NoManifest \notin Payloads
    /\ MayShutdown \in BOOLEAN
    /\ MaxEdits \in Nat /\ MaxCrashes \in Nat /\ MaxRebuilds \in Nat

VARIABLES
    source,      \* the working tree
    row,         \* the files table
    facts,       \* the graph rows each file owns
    eventSeq,    \* solutions.event_seq
    outbox,      \* publish_outbox
    published,   \* published_generations
    pointer,     \* per lane, the generation current.json names
    installed,   \* per lane, the generations in generations/
    staged,      \* per lane, the sealed directories of .staging/ named by their content
    pending,     \* per lane, the directories .staging/pending-<seq>-<project>
    strays,      \* per lane, the seqs of the directories generations/pending-<seq>-<project>
    pc, at,      \* step of the pass, and the lane it is on
    seq,         \* event_seq of the solution row the pass read
    hadPointer,  \* generation_before is Some
    todo, cur,   \* dirty files left to analyse, and the one awaiting its ack
    work,        \* has_new_work
    payload,     \* the rendered payload; during recovery the generation to point at
    result,      \* how the last pass ended
    reader,      \* what every reader holds
    edits, crashes, rebuilds

store == <<row, facts, eventSeq, outbox, published>>
disk == <<pointer, installed, staged, pending, strays>>
local == <<at, seq, hadPointer, todo, cur, work, payload>>
env == <<edits, crashes, rebuilds>>
vars == <<source, store, disk, pc, local, result, reader, env>>

Steps == {"idle", "recover", "recoverPoint", "inventory", "analyze", "ack", "begin", "manifest",
          "rename", "commit", "bump", "lock", "install", "point", "mark", "record"}

\* The steps of publish.
PublishSteps == {"begin", "manifest", "rename", "commit", "bump", "lock", "install", "point",
                 "mark", "record"}

\* A pass succeeds, or fails in a way the foreground loop retries, or ends its process.
Results == {"none", "ok", "retry", "exit"}

Row == [observed : Contents \cup {Absent}, desired : Nat, indexed : Nat]

TypeOK ==
    /\ source \in [Files -> Contents \cup {Absent}]
    /\ row \in [Files -> Row]
    /\ facts \in [Files -> Contents \cup {Absent}]
    /\ eventSeq \in Nat /\ seq \in Nat
    /\ outbox \subseteq [seq : Nat, gen : Payloads, state : {"PENDING", "PUBLISHED"}]
    /\ published \subseteq [lane : Lanes, gen : Payloads, revision : Payloads]
    /\ pointer \in [Lanes -> Payloads \cup {NoPointer}]
    /\ installed \in [Lanes -> SUBSET Payloads]
    /\ staged \in [Lanes -> SUBSET Payloads]
    /\ pending \in [Lanes -> SUBSET [seq : Nat, manifest : Payloads \cup {NoManifest}]]
    /\ strays \in [Lanes -> SUBSET Nat]
    /\ pc \in Steps /\ at \in Lanes
    /\ hadPointer \in BOOLEAN /\ work \in BOOLEAN
    /\ todo \subseteq Files /\ cur \in Files \cup {NoFile}
    /\ payload \in Payloads \cup {NoPointer}
    /\ result \in Results
    /\ reader \in [Readers -> [phase : {"out", "guarded", "pointed"}, lane : Lanes,
                               gen : Payloads \cup {NoPointer}]]
    /\ edits \in 0..MaxEdits /\ crashes \in 0..MaxCrashes /\ rebuilds \in 0..MaxRebuilds

Away == [phase |-> "out", lane |-> "live", gen |-> NoPointer]

Init ==
    /\ source \in [Files -> Contents \cup {Absent}]
    /\ row = [f \in Files |-> [observed |-> Absent, desired |-> 0, indexed |-> 0]]
    /\ facts = [f \in Files |-> Absent]
    /\ eventSeq = 0 /\ outbox = {} /\ published = {}
    /\ pointer = [l \in Lanes |-> NoPointer]
    /\ installed = [l \in Lanes |-> {}]
    /\ staged = [l \in Lanes |-> {}]
    /\ pending = [l \in Lanes |-> {}]
    /\ strays = [l \in Lanes |-> {}]
    /\ pc = "idle" /\ at = "live" /\ seq = 0 /\ hadPointer = FALSE
    /\ todo = {} /\ cur = NoFile /\ work = FALSE /\ payload = NoPointer
    /\ result = "none"
    /\ reader = [r \in Readers |-> Away]
    /\ edits = 0 /\ crashes = 0 /\ rebuilds = 0

-----------------------------------------------------------------------------
(* The environment: an editor, and the crash of the process. *)

Edit(f, c) ==
    /\ edits < MaxEdits
    /\ source[f] # c
    /\ source' = [source EXCEPT ![f] = c]
    /\ edits' = edits + 1
    /\ UNCHANGED <<store, disk, pc, local, result, reader, crashes, rebuilds>>

\* The pass is over: what it kept in memory is gone.
EndPass(how) ==
    /\ pc' = "idle"
    /\ result' = how
    /\ at' = "live" /\ seq' = 0 /\ hadPointer' = FALSE
    /\ todo' = {} /\ cur' = NoFile /\ work' = FALSE /\ payload' = NoPointer

Crash ==
    /\ pc # "idle"
    /\ crashes < MaxCrashes
    /\ crashes' = crashes + 1
    /\ EndPass("exit")
    /\ UNCHANGED <<source, store, disk, reader, edits, rebuilds>>

-----------------------------------------------------------------------------
(* The start of a pass and the recovery of both lanes. *)

\* An explicit full rebuild makes every observed file dirty again.
Invalidated(r) ==
    IF r.observed = Absent THEN r
    ELSE [r EXCEPT !.desired = (IF r.desired > r.indexed THEN r.desired ELSE r.indexed) + 1]

\* A pass of the foreground loop, or the one pass of a build command, which runs
\* while no daemon does.
StartPass(full) ==
    /\ pc = "idle"
    /\ pc' = "recover" /\ at' = "live"
    /\ seq' = eventSeq
    /\ hadPointer' = (pointer["live"] # NoPointer)
    /\ IF full
       THEN /\ rebuilds < MaxRebuilds
            /\ rebuilds' = rebuilds + 1
            /\ row' = [f \in Files |-> Invalidated(row[f])]
            /\ result' = "exit"
       ELSE UNCHANGED <<rebuilds, row, result>>
    /\ UNCHANGED <<source, facts, eventSeq, outbox, published, disk, todo, cur, work, payload,
                   reader, edits, crashes>>

\* The next lane, or the inventory once both lanes are recovered.
NextLane(same, then) ==
    IF at = "live" THEN at' = "checkpoint" /\ pc' = same ELSE at' = "live" /\ pc' = then

\* plan: a pointer is left alone whether or not its target is there, and
\* without one there is nothing to resume when .staging/ is empty.
RecoverNothing ==
    /\ pc = "recover"
    /\ pointer[at] # NoPointer \/ (staged[at] = {} /\ pending[at] = {})
    /\ NextLane("recover", "inventory")
    /\ UNCHANGED <<source, store, disk, seq, hadPointer, todo, cur, work, payload, result,
                   reader, env>>

SealedPending(l) == {d \in pending[l] : d.manifest # NoManifest}

\* The first sealed directory in name order is moved to generations/ under its
\* own name, unless that name is taken there; a digest sorts before pending-.
RecoverInstall ==
    /\ pc = "recover"
    /\ pointer[at] = NoPointer
    /\ \/ \E g \in staged[at] :
            /\ payload' = g
            /\ installed' = [installed EXCEPT ![at] = @ \cup {g}]
            /\ staged' = [staged EXCEPT ![at] = IF g \in installed[at] THEN @ ELSE @ \ {g}]
            /\ UNCHANGED <<pending, strays>>
       \/ \E d \in SealedPending(at) :
            /\ staged[at] = {}
            /\ payload' = d.manifest
            /\ strays' = [strays EXCEPT ![at] = @ \cup {d.seq}]
            /\ pending' = [pending EXCEPT ![at] = IF d.seq \in strays[at] THEN @ ELSE @ \ {d}]
            /\ UNCHANGED <<installed, staged>>
    /\ pc' = "recoverPoint"
    /\ UNCHANGED <<source, store, pointer, at, seq, hadPointer, todo, cur, work, result,
                   reader, env>>

\* The pointer names the generation the manifest computes for itself.
RecoverPoint ==
    /\ pc = "recoverPoint"
    /\ pointer' = [pointer EXCEPT ![at] = payload]
    /\ payload' = NoPointer
    /\ NextLane("recover", "inventory")
    /\ UNCHANGED <<source, store, installed, staged, pending, strays, seq, hadPointer, todo, cur, work,
                   result, reader, env>>

RecoverDiscard ==
    /\ pc = "recover"
    /\ pointer[at] = NoPointer
    /\ staged[at] = {} /\ SealedPending(at) = {}
    /\ \E d \in pending[at] : pending' = [pending EXCEPT ![at] = @ \ {d}]
    /\ NextLane("recover", "inventory")
    /\ UNCHANGED <<source, store, pointer, installed, staged, strays, seq, hadPointer, todo, cur, work,
                   payload, result, reader, env>>

-----------------------------------------------------------------------------
(* Inventory and analysis. *)

Dirty(f) == row[f].desired > row[f].indexed

\* Reconciled(f, g): the row apply_inventory leaves for f at generation g.
Reconciled(f, g) ==
    IF source[f] = row[f].observed THEN row[f]
    ELSE [row[f] EXCEPT !.observed = source[f], !.desired = g]

\* MAX(desired_generation) + 1.
IsNextGeneration(g) ==
    /\ \A f \in Files : row[f].desired < g
    /\ g = 1 \/ \E f \in Files : row[f].desired + 1 = g

Generations == 1..(MaxEdits + MaxRebuilds + 2)

\* The walk is one step: an edit during the walk is an edit before or after it.
Inventory ==
    /\ pc = "inventory"
    /\ \E g \in Generations :
         /\ IsNextGeneration(g)
         /\ row' = [f \in Files |-> Reconciled(f, g)]
    /\ work' = (\E f \in Files : source[f] # row[f].observed)
    /\ todo' = {f \in Files : row'[f].desired > row'[f].indexed}
    /\ pc' = "analyze"
    /\ UNCHANGED <<source, facts, eventSeq, outbox, published, disk, at, seq, hadPointer, cur,
                   payload, result, reader, env>>

\* Mutant: the bytes read are not compared with the inventory.
AnalysableAnyBytes(f) ==
    row[f].observed = Absent \/ (f \in Supported => source[f] \notin Invalid)

\* The file still holds the bytes that were inventoried and they parse.
Analysable(f) ==
    \/ row[f].observed = Absent
    \/ source[f] = row[f].observed /\ (f \in Supported => source[f] \notin Invalid)

\* The facts of the bytes read: none for a language that is not analysed.
AnalysisOf(f, c) == IF f \in Supported THEN c ELSE Absent

(* The rows a file owns are exchanged in one transaction; what other files own *)
(* stays. Edges between files, which it would turn into unresolved ones, are   *)
(* not produced by analyze_file.                                               *)
ReplaceFileFacts(f, new) == facts' = [facts EXCEPT ![f] = new]

\* Mutant: only the inventory counts as new work.
AnalyzeFileUncounted(f) ==
    /\ pc = "analyze" /\ f \in todo
    /\ Analysable(f)
    /\ ReplaceFileFacts(f, IF row[f].observed = Absent THEN Absent ELSE AnalysisOf(f, source[f]))
    /\ cur' = f
    /\ pc' = "ack"
    /\ UNCHANGED <<source, row, eventSeq, outbox, published, disk, at, seq, hadPointer, todo, work,
                   payload, result, reader, env>>

AnalyzeFile(f) ==
    /\ pc = "analyze" /\ f \in todo
    /\ Analysable(f)
    /\ ReplaceFileFacts(f, IF row[f].observed = Absent THEN Absent ELSE AnalysisOf(f, source[f]))
    /\ work' = (work \/ (f \in Supported /\ row[f].observed # Absent))
    /\ cur' = f
    /\ pc' = "ack"
    /\ UNCHANGED <<source, row, eventSeq, outbox, published, disk, at, seq, hadPointer, todo,
                   payload, result, reader, env>>

AckGeneration ==
    /\ pc = "ack"
    /\ row' = [row EXCEPT ![cur].indexed = row[cur].desired]
    /\ todo' = todo \ {cur}
    /\ cur' = NoFile
    /\ pc' = "analyze"
    /\ UNCHANGED <<source, facts, eventSeq, outbox, published, disk, at, seq, hadPointer, work,
                   payload, result, reader, env>>

\* The source changed after the inventory or does not parse: the pass ends, what
\* it acknowledged stays.  The foreground loop tries again; the pass at the start
\* of a daemon and the pass of a build command end the process.
AnalysisRefused ==
    /\ pc = "analyze"
    /\ \E f \in todo : ~Analysable(f)
    /\ EndPass(IF result \in {"ok", "retry"} THEN "retry" ELSE "exit")
    /\ UNCHANGED <<source, store, disk, reader, env>>

\* The shutdown token refuses the claim of the next file.
AnalysisCancelled ==
    /\ MayShutdown
    /\ pc = "analyze" /\ todo # {}
    /\ EndPass("exit")
    /\ UNCHANGED <<source, store, disk, reader, env>>

-----------------------------------------------------------------------------
(* The decision to publish, and the publication of both lanes. *)

\* payload::render: facts of the analysed files, paths of the others.
Rendered ==
    [f \in Files |-> IF f \in Supported THEN facts[f]
                     ELSE IF row[f].observed = Absent THEN Absent ELSE Listed]

\* Payload::is_empty: no analysed file contributes a node.
IsEmpty(p) == \A f \in Supported : p[f] \in Blank \cup {Absent}

Analysed == pc = "analyze" /\ todo = {}

NothingToPublish == IsEmpty(Rendered) /\ ~hadPointer

\* Mutant: a published project is always up to date.
UpToDateOncePublished == \A l \in Lanes : pointer[l] # NoPointer

UpToDate == ~work /\ \A l \in Lanes : pointer[l] # NoPointer

\* Nothing was ever published and there is nothing to publish; the solution
\* catalog then refuses the project.
EndEmpty ==
    /\ Analysed
    /\ NothingToPublish
    /\ EndPass("exit")
    /\ UNCHANGED <<source, store, disk, reader, env>>

\* hydrate_published_outcome reads the manifest the live pointer names.
EndUpToDate ==
    /\ Analysed
    /\ ~NothingToPublish /\ UpToDate
    /\ EndPass(IF pointer["live"] \in installed["live"] THEN "ok" ELSE "exit")
    /\ UNCHANGED <<source, store, disk, reader, env>>

StartPublish ==
    /\ Analysed
    /\ ~NothingToPublish /\ ~UpToDate
    /\ payload' = Rendered
    /\ at' = "live" /\ pc' = "begin"
    /\ UNCHANGED <<source, store, disk, seq, hadPointer, todo, cur, work, result, reader, env>>

PendingOf(l, s) == {d \in pending[l] : d.seq = s}

\* StagingLayout::begin reuses a directory left by an interrupted pass, with
\* whatever manifest it holds.
StageBegin ==
    /\ pc = "begin"
    /\ pending' = [pending EXCEPT ![at] =
                      IF PendingOf(at, seq) = {}
                      THEN @ \cup {[seq |-> seq, manifest |-> NoManifest]} ELSE @]
    /\ pc' = "manifest"
    /\ UNCHANGED <<source, store, pointer, installed, staged, strays, local, result, reader, env>>

\* The shards are written and sealed, then manifest.json.
StageManifest ==
    /\ pc = "manifest"
    /\ pending' = [pending EXCEPT ![at] =
                      (@ \ PendingOf(at, seq)) \cup {[seq |-> seq, manifest |-> payload]}]
    /\ pc' = "rename"
    /\ UNCHANGED <<source, store, pointer, installed, staged, strays, local, result, reader, env>>

\* The directory takes the name of its content, or is dropped when that name
\* is already staged.
StageRename ==
    /\ pc = "rename"
    /\ pending' = [pending EXCEPT ![at] = @ \ PendingOf(at, seq)]
    /\ staged' = [staged EXCEPT ![at] = @ \cup {payload}]
    /\ IF at = "live" THEN pc' = "commit" /\ UNCHANGED at ELSE pc' = "lock" /\ at' = "live"
    /\ UNCHANGED <<source, store, pointer, installed, strays, seq, hadPointer, todo, cur, work, payload,
                   result, reader, env>>

\* commit_analysis_and_intent: an intent with the same id is kept as it is.
CommitIntent ==
    /\ pc = "commit"
    /\ outbox' = IF \E i \in outbox : i.seq = seq THEN outbox
                 ELSE outbox \cup {[seq |-> seq, gen |-> payload, state |-> "PENDING"]}
    /\ pc' = "bump"
    /\ UNCHANGED <<source, row, facts, eventSeq, published, disk, local, result, reader, env>>

BumpEventSeq ==
    /\ pc = "bump"
    /\ eventSeq' = eventSeq + 1
    /\ at' = "checkpoint" /\ pc' = "begin"
    /\ UNCHANGED <<source, row, facts, outbox, published, disk, seq, hadPointer, todo, cur, work,
                   payload, result, reader, env>>

HasReader(l) == \E r \in Readers : reader[r].phase # "out" /\ reader[r].lane = l

\* Mutant: the lane is written without its guard.
LockLaneUnguarded ==
    /\ pc = "lock"
    /\ pc' = "install"
    /\ UNCHANGED <<source, store, disk, local, result, reader, env>>

\* The exclusive guard of the lane is not waited for.
LockLane ==
    /\ pc = "lock"
    /\ IF HasReader(at)
       THEN EndPass("exit")
       ELSE pc' = "install" /\ UNCHANGED <<local, result>>
    /\ UNCHANGED <<source, store, disk, reader, env>>

InstallGeneration ==
    /\ pc = "install"
    /\ installed' = [installed EXCEPT ![at] = @ \cup {payload}]
    /\ staged' = [staged EXCEPT ![at] = @ \ {payload}]
    /\ pc' = "point"
    /\ UNCHANGED <<source, store, pointer, pending, strays, local, result, reader, env>>

\* pointer::replace, and the release of the guard.
MovePointer ==
    /\ pc = "point"
    /\ pointer' = [pointer EXCEPT ![at] = payload]
    /\ NextLane("lock", "mark")
    /\ UNCHANGED <<source, store, installed, staged, pending, strays, seq, hadPointer, todo, cur, work,
                   payload, result, reader, env>>

MarkPublished ==
    /\ pc = "mark"
    /\ outbox' = {IF i.seq = seq THEN [i EXCEPT !.state = "PUBLISHED"] ELSE i : i \in outbox}
    /\ pc' = "record"
    /\ UNCHANGED <<source, row, facts, eventSeq, published, disk, local, result, reader, env>>

\* One row per lane, with the revision of the intent; a row of the same lane
\* and generation is kept.
RecordGenerations ==
    /\ pc = "record"
    /\ published' = published \cup
          {[lane |-> l, gen |-> payload, revision |-> i.gen] :
             l \in {k \in Lanes : \A p \in published : ~(p.lane = k /\ p.gen = payload)},
             i \in {j \in outbox : j.seq = seq}}
    /\ EndPass("ok")
    /\ UNCHANGED <<source, row, facts, eventSeq, outbox, disk, reader, env>>

-----------------------------------------------------------------------------
(* Readers: load_snapshot under the shared guard of a lane. *)

WriterHolds(l) == pc \in {"install", "point"} /\ at = l

ReaderGuard(r, l) ==
    /\ reader[r].phase = "out"
    /\ pointer[l] # NoPointer
    /\ ~WriterHolds(l)
    /\ reader' = [reader EXCEPT ![r] = [phase |-> "guarded", lane |-> l, gen |-> NoPointer]]
    /\ UNCHANGED <<source, store, disk, pc, local, result, env>>

ReaderPoint(r) ==
    /\ reader[r].phase = "guarded"
    /\ reader' = [reader EXCEPT ![r] = [phase |-> "pointed", lane |-> reader[r].lane,
                                        gen |-> pointer[reader[r].lane]]]
    /\ UNCHANGED <<source, store, disk, pc, local, result, env>>

\* The manifest and the shards are loaded, or found missing, or the reader dies.
ReaderRelease(r) ==
    /\ reader[r].phase # "out"
    /\ reader' = [reader EXCEPT ![r] = Away]
    /\ UNCHANGED <<source, store, disk, pc, local, result, env>>

-----------------------------------------------------------------------------
PassStep ==
    \/ RecoverNothing \/ RecoverInstall \/ RecoverPoint \/ RecoverDiscard
    \/ Inventory
    \/ \E f \in Files : AnalyzeFile(f)
    \/ AckGeneration \/ AnalysisRefused \/ AnalysisCancelled
    \/ EndEmpty \/ EndUpToDate \/ StartPublish
    \/ StageBegin \/ StageManifest \/ StageRename
    \/ CommitIntent \/ BumpEventSeq
    \/ LockLane \/ InstallGeneration \/ MovePointer
    \/ MarkPublished \/ RecordGenerations

Next ==
    \/ \E f \in Files, c \in Contents \cup {Absent} : Edit(f, c)
    \/ Crash
    \/ \E full \in BOOLEAN : StartPass(full)
    \/ PassStep
    \/ \E r \in Readers : (\E l \in Lanes : ReaderGuard(r, l)) \/ ReaderPoint(r) \/ ReaderRelease(r)

Spec == Init /\ [][Next]_vars

\* The foreground loop starts the next pass until its process ends, and a pass
\* never waits for another participant.
FairSpec ==
    /\ Spec
    /\ WF_vars(result # "exit" /\ StartPass(FALSE))
    /\ WF_vars(PassStep)

-----------------------------------------------------------------------------
Readable(l) == pointer[l] \in installed[l]

(* A file that is not dirty has exactly the facts of the content that was   *)
(* last observed: a crash between replace_file_facts and ack_generation, a  *)
(* refused or a stopped analysis never leaves an acknowledged file behind   *)
(* its facts (serve.rs, files.rs).                                          *)
CleanFileIsIndexed ==
    \A f \in Files : ~Dirty(f) => facts[f] = AnalysisOf(f, row[f].observed)

(* The payload being published is the inventory of this pass, file by file: *)
(* no generation mixes files of two inventories or holds bytes that were    *)
(* not inventoried (serve.rs, the hash comparison before the analysis).     *)
PublishesTheInventory ==
    pc \in PublishSteps =>
        \A f \in Files :
            payload[f] = IF row[f].observed = Absent THEN Absent
                         ELSE IF f \in Supported THEN row[f].observed ELSE Listed

(* Once the pointer of a lane names a generation that is there, it does so  *)
(* for ever, across crashes, restarts and recoveries (publish_lane installs *)
(* before it points, and recovery leaves an existing pointer alone).        *)
StaysReadable == [][\A l \in Lanes : Readable(l) => Readable(l)']_vars

(* Between reading the pointer and loading the generation, a reader that    *)
(* holds the shared guard keeps the pointer it read: publish_lane takes the *)
(* guard exclusively, and recovery, which takes none, never replaces one.   *)
GuardedReaderIsUndisturbed ==
    \A r \in Readers : reader[r].phase = "pointed" => pointer[reader[r].lane] = reader[r].gen

(* What a reader of the lanes sees of all this: the generation the pointer  *)
(* names if it is there, and the one it is loading.                         *)
View == [l \in Lanes |-> IF Readable(l) THEN pointer[l] ELSE NoPointer]

Pinned ==
    [r \in Readers |->
        IF reader[r].phase = "pointed" /\ reader[r].gen \in installed[reader[r].lane]
        THEN <<reader[r].lane, reader[r].gen>> ELSE <<>>]

Register == INSTANCE SnapshotRegister
    WITH Generations <- Payloads, Nothing <- NoPointer, view <- View, pin <- Pinned

(* Publication, recovery and the readers implement the snapshot register:   *)
(* whatever is interrupted, a lane goes from one whole generation to the    *)
(* next and stands still for a reader (publish_lane, resume, load).         *)
ImplementsRegister == Register!Spec

(* After a pass that ended well both lanes name what the store holds: the   *)
(* last analysed state of the project is the published one.                 *)
OkPassIsPublished ==
    pc = "idle" /\ result = "ok" => \A l \in Lanes : pointer[l] = Rendered

(* serve.rs: never a pointer that names a generation which is not readable; *)
(* here only asked of the lanes a well-ended pass leaves.                   *)
NoDanglingPointer ==
    pc = "idle" /\ result = "ok" => \A l \in Lanes : pointer[l] # NoPointer => Readable(l)

(* When the daemon keeps running and the editing stops on sources that can  *)
(* be analysed, both lanes end up with exactly that source (the retries and *)
(* the fallback of the foreground loop, serve.rs).                          *)
PublicationConverges ==
    <>[](result # "exit" /\ \A f \in Supported : source[f] \notin Invalid) =>
        <>[](\A l \in Lanes, f \in Supported : pointer[l] # NoPointer /\ pointer[l][f] = source[f])

(* From the inventory to the lanes nothing else gets in: a clean file has  *)
(* the facts of what was observed, what is published is the inventory of   *)
(* the pass, and no writer is in a lane with a reader.                     *)
PublicationFollowsTheInventory ==
    /\ TypeOK
    /\ CleanFileIsIndexed
    /\ PublishesTheInventory
    /\ GuardedReaderIsUndisturbed

(* What readers see of a lane, once it shows something, is one whole       *)
(* generation after another (replace, load, resume).                       *)
LanesAreARegister ==
    /\ StaysReadable
    /\ ImplementsRegister
=============================================================================
