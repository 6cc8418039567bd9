------------------------------- MODULE Daemon -------------------------------
(***************************************************************************)
(* The writer of one home: `serve` with its watch loop, the one-shot        *)
(* `build` and `reconcile`, the change-hint inbox, the registration of one   *)
(* solution and its catalog (crates/axiom-graphd: serve.rs, hint_runtime.rs, *)
(* catalog_runtime.rs, lifecycle.rs, runtime.rs, commands/solution.rs).      *)
(*                                                                           *)
(* The instance lock (module InstanceLock) makes one process the writer, so  *)
(* a single record of the running pass is enough; producers of hints, the    *)
(* operator, the editor, readers and signals run beside it.  What one        *)
(* project's reconciliation does to its lanes step by step is module         *)
(* Publication; here it is claim, inventory, analysis and publication of one *)
(* file's bytes, so that several projects, the catalog, hints and shutdown   *)
(* can be composed.                                                          *)
(***************************************************************************)
EXTENDS Naturals, FiniteSets

CONSTANTS
    NProjects,      \* projects of the solution, reconciled in the order of their ids
    MaxVersion,     \* versions of a project's source; 0 is a tree without input
    Unparsed,       \* the versions whose analysis fails (source-analysis-invalid)
    Hints,          \* change hints that producers may submit
    InboxLimit,     \* LIMIT, the entries incoming-changes may hold
    MultiRepo,      \* the projects live in more than one repository
    MaxEvents,      \* bound on what the environment does in one behaviour
    None            \* no generation, no catalog, no metadata, no baseline

Projects == 1..NProjects
Versions == 0..MaxVersion

ASSUME DaemonAssumption ==
    /\ NProjects \in Nat \ {0} /\ MaxVersion \in Nat /\ InboxLimit \in Nat /\ MaxEvents \in Nat
    /\ Unparsed \subseteq 1..MaxVersion
    /\ IsFiniteSet(Hints) /\ "request" \notin Hints
    /\ MultiRepo \in BOOLEAN
    /\ None \notin Nat

VARIABLES
    source,     \* [Projects -> Versions]: the bytes on disk
    rows,       \* [Projects -> [known, dirty, facts]]: the file row and the facts it owns
    lane,       \* [Projects -> Versions or None]: what the lane's pointer names
    catalog,    \* the member vector the catalog pointer names, or None
    reg,        \* [on, cfg, scan, seq]: the solutions row
    meta,       \* the configuration the catalog host metadata was written for, or None
    enrolling,  \* a `register` has committed and has yet to write the metadata
    jobs,       \* [Hints \cup {"request"} -> [state, target]]
    inbox,      \* [Hints -> stage of the hint's file]
    proc,       \* the process that owns the instance lock: [owner, at, startup, shutdown, why]
    pass,       \* the pass it runs: [scope, full, batch, hint, p, work, cfg, got]
    watch,      \* [seen, due, retries, burst]: the loop's baselines, timer and retry count
    reading,    \* guards that readers hold shared
    torn,       \* projects whose lane no longer follows the rows: a stopped process did not
                \* publish acknowledged facts, or the rows went with a removed solution
    forgot,     \* hints whose job went with a removed solution
    events      \* environment steps taken so far

dvars == <<source, rows, lane, catalog, reg, meta, enrolling, jobs, inbox, proc, pass, watch,
          reading, torn, forgot, events>>
store == <<rows, reg, jobs>>
env   == <<source, meta, enrolling, inbox, reading, forgot, events>>

Scopes    == {{p} : p \in Projects} \cup {Projects}
JobIds    == Hints \cup {"request"}
NoJob     == [state |-> "absent", target |-> 0]
Active    == {"PENDING"}
JobStates == {"absent", "PENDING", "SUCCEEDED", "CANCELLED"}
Entries   == {h \in Hints : inbox[h] \in {"next", "stuck", "json"}}
NoRow     == [known |-> 0, dirty |-> FALSE, facts |-> 0]
Steps     == {"off", "list", "hints", "receipt", "claim", "inventory", "analyze", "publish",
              "members", "catalog", "finish", "baseline", "sleep"}
NoPass    == [scope |-> {}, full |-> FALSE, batch |-> {}, hint |-> None, p |-> 0, work |-> FALSE,
              cfg |-> 0, got |-> [p \in Projects |-> None]]

DaemonTypeOK ==
    /\ source \in [Projects -> Versions]
    /\ rows \in [Projects -> [known : Versions, dirty : BOOLEAN, facts : Versions]]
    /\ lane \in [Projects -> Versions \cup {None}]
    /\ catalog \in [Projects -> Versions] \cup {None}
    /\ reg \in [on : BOOLEAN, cfg : Nat, scan : BOOLEAN, seq : Nat]
    /\ meta \in Nat \cup {None}
    /\ enrolling \in BOOLEAN
    /\ jobs \in [JobIds -> [state : JobStates, target : Nat]]
    /\ inbox \in [Hints -> {"none", "checked", "next", "stuck", "json", "gone"}]
    /\ proc \in [owner : {"none", "serve", "build"}, at : Steps, startup : BOOLEAN,
                 shutdown : BOOLEAN, why : {"none", "done", "busy", "fatal", "shutdown", "crash"}]
    /\ pass \in [scope : SUBSET Projects, full : BOOLEAN, batch : SUBSET Hints,
                 hint : Hints \cup {None}, p : 0..NProjects + 1, work : BOOLEAN, cfg : Nat,
                 got : [Projects -> Versions \cup {None}]]
    /\ watch \in [seen : [Projects -> Versions \cup {None}], due : BOOLEAN, retries : 0..3,
                  burst : 0..3]     \* extra passes for transient errors before the loop waits again
    /\ reading \subseteq {"lane", "catalog"}
    /\ torn \subseteq Projects
    /\ forgot \subseteq Hints
    /\ events \in Nat

DaemonInit ==
    /\ source \in [Projects -> {0, 1} \cap Versions]
    /\ rows = [p \in Projects |-> NoRow]
    /\ lane = [p \in Projects |-> None]
    /\ catalog = None
    /\ reg = [on |-> TRUE, cfg |-> 0, scan |-> TRUE, seq |-> 0]
    /\ meta = 0
    /\ enrolling = FALSE
    /\ jobs = [j \in JobIds |-> NoJob]
    /\ inbox = [h \in Hints |-> "none"]
    /\ proc = [owner |-> "none", at |-> "off", startup |-> FALSE, shutdown |-> FALSE, why |-> "none"]
    /\ pass = NoPass
    /\ watch = [seen |-> [p \in Projects |-> None], due |-> FALSE, retries |-> 0, burst |-> 0]
    /\ reading = {}
    /\ torn = {}
    /\ forgot = {}
    /\ events = 0

(* An environment step is counted against the bound. *)
Happens == events < MaxEvents /\ events' = events + 1

-----------------------------------------------------------------------------
(* How a process and a pass end. *)

\* What a later pass does not count as work although the lane lacks it:
\* acknowledged facts, and a tombstone that waits for its acknowledgement.
Unpublished == {p \in Projects : /\ lane[p] # None
                                /\ IF rows[p].dirty THEN rows[p].known = 0
                                   ELSE rows[p].facts # lane[p]}

\* The lock is dropped on every path out of serve and build.
Stop(reason) ==
    /\ proc' = [proc EXCEPT !.owner = "none", !.at = "off", !.why = reason]
    /\ pass' = NoPass
    /\ torn' = torn \cup Unpublished
    /\ UNCHANGED watch

\* Mutant: a transient error ends the daemon like any other.
PassFailsForGood(kind) == Stop(IF kind = "busy" THEN "fatal" ELSE kind)

\* Only the loop survives an error, and only a transient one; the startup
\* pass, a one-shot pass and every other error end the process.
PassFails(kind) ==
    IF kind = "busy" /\ proc.owner = "serve" /\ ~proc.startup
    THEN /\ proc' = [proc EXCEPT !.at = "sleep"]
         /\ pass' = NoPass
         /\ watch' = [watch EXCEPT !.due = FALSE,
                                   !.retries = IF watch.retries >= 3 THEN 0 ELSE watch.retries + 1]
         /\ UNCHANGED torn
    ELSE Stop(kind)

PassSucceeds ==
    IF proc.owner = "build" THEN Stop("done")
    ELSE /\ proc' = [proc EXCEPT !.at = IF proc.startup THEN "baseline" ELSE "sleep"]
         /\ pass' = NoPass
         /\ watch' = IF proc.startup THEN watch
                     ELSE [watch EXCEPT !.due = FALSE, !.retries = 0]
         /\ UNCHANGED torn

GoTo(step) == proc' = [proc EXCEPT !.at = step]

-----------------------------------------------------------------------------
(* Starting and stopping the writer. *)

\* DaemonLock::acquire, a fresh token and the startup pass over everything.
StartServe ==
    /\ proc.owner = "none" /\ Happens
    /\ proc' = [owner |-> "serve", at |-> "list", startup |-> TRUE, shutdown |-> FALSE, why |-> "none"]
    /\ pass' = [NoPass EXCEPT !.scope = Projects]
    /\ watch' = [seen |-> [p \in Projects |-> None], due |-> FALSE, retries |-> 0, burst |-> 0]
    /\ UNCHANGED <<source, lane, catalog, meta, enrolling, inbox, reading, torn, forgot, store>>

\* `build` takes the same lock for one pass, over one project or over all of
\* them; `reconcile` records a job of a fixed id first, and a second request
\* of the same scope finds its row.
StartBuild(scope, full, recorded) ==
    /\ Happens
    /\ recorded => reg.on
    /\ jobs' = IF recorded /\ jobs["request"].state = "absent"
               THEN [jobs EXCEPT !["request"] = [state |-> "PENDING", target |-> reg.seq]]
               ELSE jobs
    /\ IF proc.owner = "none"
       THEN /\ proc' = [owner |-> "build", at |-> "list", startup |-> FALSE, shutdown |-> FALSE,
                        why |-> "none"]
            /\ pass' = [NoPass EXCEPT !.scope = scope, !.full = full]
       ELSE recorded /\ UNCHANGED <<proc, pass>>
    /\ UNCHANGED <<source, rows, reg, lane, catalog, meta, enrolling, inbox, watch, reading, torn,
                   forgot>>

\* The signal listener only sets the token.
Signal ==
    /\ proc.owner = "serve" /\ ~proc.shutdown /\ Happens
    /\ proc' = [proc EXCEPT !.shutdown = TRUE]
    /\ UNCHANGED <<source, lane, catalog, meta, enrolling, inbox, pass, watch, reading, torn, forgot,
                   store>>

DaemonCrash ==
    /\ proc.owner # "none" /\ Happens
    /\ Stop("crash")
    /\ UNCHANGED <<source, lane, catalog, meta, enrolling, inbox, reading, forgot, store>>

-----------------------------------------------------------------------------
(* The pass: hints, then each project, then the catalog. *)

\* ingest lists the inbox once, staging files included in the count.
ListInbox ==
    /\ proc.at = "list"
    /\ IF Cardinality(Entries) > InboxLimit
       THEN PassFails("fatal")
       ELSE /\ GoTo("hints")
            /\ pass' = [pass EXCEPT !.batch = {h \in Hints : inbox[h] = "json"}]
            /\ UNCHANGED <<watch, torn>>
    /\ UNCHANGED <<lane, catalog, store, env>>

\* Mutant: the row of an earlier, interrupted ingestion is not looked for.
IngestHintAgain(h) ==
    /\ proc.at = "hints" /\ h \in pass.batch
    /\ IF reg.on
       THEN /\ reg' = [reg EXCEPT !.seq = @ + 1]
            /\ jobs' = IF jobs[h].state = "absent"
                       THEN [jobs EXCEPT ![h] = [state |-> "PENDING", target |-> reg.seq + 1]]
                       ELSE jobs
            /\ GoTo("receipt")
            /\ pass' = [pass EXCEPT !.hint = h]
            /\ UNCHANGED <<watch, torn>>
       ELSE PassFails("fatal") /\ UNCHANGED <<reg, jobs>>
    /\ UNCHANGED <<rows, lane, catalog, env>>

\* Mutant: a transaction that rolled back still gives a receipt.
IngestHintUncommitted(h) ==
    /\ proc.at = "hints" /\ h \in pass.batch
    /\ GoTo("receipt")
    /\ pass' = [pass EXCEPT !.hint = h]
    /\ UNCHANGED <<rows, reg, jobs, watch, torn, lane, catalog, env>>

\* check refuses a hint whose solution is gone, and with it the pass; the
\* transaction skips a job it already holds, otherwise bumps event_seq and
\* inserts the job with the new sequence as its target.
IngestHint(h) ==
    /\ proc.at = "hints" /\ h \in pass.batch
    /\ IF reg.on
       THEN /\ IF jobs[h].state = "absent"
               THEN /\ reg' = [reg EXCEPT !.seq = @ + 1]
                    /\ jobs' = [jobs EXCEPT ![h] = [state |-> "PENDING", target |-> reg.seq + 1]]
               ELSE UNCHANGED <<reg, jobs>>
            /\ GoTo("receipt")
            /\ pass' = [pass EXCEPT !.hint = h]
            /\ UNCHANGED <<watch, torn>>
       ELSE PassFails("fatal") /\ UNCHANGED <<reg, jobs>>
    /\ UNCHANGED <<rows, lane, catalog, env>>

\* The file is removed after the commit.
RemoveReceipt ==
    /\ proc.at = "receipt"
    /\ inbox' = [inbox EXCEPT ![pass.hint] = "gone"]
    /\ GoTo("hints")
    /\ pass' = [pass EXCEPT !.batch = @ \ {pass.hint}, !.hint = None]
    /\ UNCHANGED <<source, lane, catalog, meta, enrolling, watch, reading, torn, forgot, events, store>>

\* The next project of the scope after p, or one past the last.
NextProject(p) ==
    LET rest == {q \in pass.scope : q > p}
    IN  IF rest = {} THEN NProjects + 1 ELSE CHOOSE q \in rest : \A r \in rest : q <= r

\* The solutions row is read once, before its projects.
ReadSolution ==
    /\ proc.at = "hints" /\ pass.batch = {}
    /\ CASE reg.on -> /\ GoTo("claim")
                      /\ pass' = [pass EXCEPT !.p = NextProject(0), !.cfg = reg.cfg]
                      /\ UNCHANGED <<watch, torn>>
         [] ~reg.on /\ proc.owner = "build" -> PassFails("fatal")
         [] ~reg.on /\ proc.owner = "serve" -> PassSucceeds
    /\ UNCHANGED <<lane, catalog, store, env>>

\* token.claim before each project; force_full dirties every file that exists.
ClaimProject ==
    /\ proc.at = "claim" /\ pass.p \in Projects
    /\ IF proc.shutdown
       THEN PassFails("shutdown") /\ UNCHANGED rows
       ELSE /\ GoTo("inventory")
            /\ rows' = IF pass.full /\ rows[pass.p].known # 0
                       THEN [rows EXCEPT ![pass.p].dirty = TRUE] ELSE rows
            /\ UNCHANGED <<pass, watch, torn>>
    /\ UNCHANGED <<lane, catalog, reg, jobs, env>>

\* apply_inventory; a row of a removed project breaks its foreign key.
InventoryProject ==
    /\ proc.at = "inventory"
    /\ LET p == pass.p
           queued == source[p] # rows[p].known
       IN  IF ~reg.on /\ queued
           THEN PassFails("fatal") /\ UNCHANGED rows
           ELSE /\ rows' = [rows EXCEPT ![p].known = source[p], ![p].dirty = @ \/ queued]
                /\ pass' = [pass EXCEPT !.work = queued]
                /\ GoTo("analyze")
                /\ UNCHANGED <<watch, torn>>
    /\ UNCHANGED <<lane, catalog, reg, jobs, env>>

\* Every dirty file is claimed, read again, compared with the inventory's
\* digest and analysed; a tombstone drops its facts.  A shutdown request, bytes
\* that changed since the inventory or bytes that do not parse end the pass.
AnalyzeProject ==
    /\ proc.at = "analyze"
    /\ LET p == pass.p
           row == rows[p]
           Acknowledge == rows' = [rows EXCEPT ![p].dirty = FALSE, ![p].facts = row.known]
       IN  CASE ~row.dirty -> GoTo("publish") /\ UNCHANGED <<rows, pass, watch, torn>>
             [] row.dirty /\ proc.shutdown -> PassFails("shutdown") /\ UNCHANGED rows
             [] row.dirty /\ ~proc.shutdown /\ row.known = 0 ->
                    Acknowledge /\ GoTo("publish") /\ UNCHANGED <<pass, watch, torn>>
             [] row.dirty /\ ~proc.shutdown /\ row.known # 0
                    /\ (source[p] # row.known \/ row.known \in Unparsed) ->
                    PassFails("busy") /\ UNCHANGED rows
             [] row.dirty /\ ~proc.shutdown /\ row.known # 0
                    /\ source[p] = row.known /\ row.known \notin Unparsed ->
                    /\ Acknowledge /\ GoTo("publish")
                    /\ pass' = [pass EXCEPT !.work = TRUE]
                    /\ UNCHANGED <<watch, torn>>
    /\ UNCHANGED <<lane, catalog, reg, jobs, env>>

\* The outcome of project p names generation g; the pass goes on.
Outcome(p, g) ==
    /\ GoTo("claim")
    /\ pass' = [pass EXCEPT !.p = NextProject(p), !.work = FALSE, !.got[p] = g]

\* Mutant: the outcome keeps the generation the lane had before.
PublishProjectBefore ==
    /\ proc.at = "publish"
    /\ LET p == pass.p
       IN  IF lane[p] # None /\ pass.work /\ reg.on /\ "lane" \notin reading
           THEN /\ lane' = [lane EXCEPT ![p] = rows[p].facts]
                /\ reg' = [reg EXCEPT !.seq = @ + 1]
                /\ Outcome(p, lane[p])
                /\ torn' = torn \ {p}
                /\ UNCHANGED watch
           ELSE IF lane[p] = None /\ rows[p].facts # 0
           THEN /\ lane' = [lane EXCEPT ![p] = rows[p].facts]
                /\ reg' = [reg EXCEPT !.seq = @ + 1]
                /\ Outcome(p, rows[p].facts)
                /\ UNCHANGED <<watch, torn>>
           ELSE Outcome(p, lane[p]) /\ UNCHANGED <<lane, reg, watch, torn>>
    /\ UNCHANGED <<rows, jobs, catalog, env>>

\* Mutant: a lane that has a pointer is taken for published.
PublishProjectOnce ==
    /\ proc.at = "publish"
    /\ LET p == pass.p
       IN  IF lane[p] = None /\ rows[p].facts # 0
           THEN /\ lane' = [lane EXCEPT ![p] = rows[p].facts]
                /\ reg' = [reg EXCEPT !.seq = @ + 1]
                /\ Outcome(p, rows[p].facts)
                /\ UNCHANGED <<watch, torn>>
           ELSE Outcome(p, lane[p]) /\ UNCHANGED <<lane, reg, watch, torn>>
    /\ UNCHANGED <<rows, jobs, catalog, env>>

\* An empty payload is not published first; a lane with a pointer and no work
\* is hydrated; otherwise the intent and the sequence are committed and the
\* lane is written, unless a reader holds its guard.
PublishProject ==
    /\ proc.at = "publish"
    /\ LET p == pass.p
           facts == rows[p].facts
           blank == facts = 0 /\ lane[p] = None
           current == ~pass.work /\ lane[p] # None
       IN  CASE blank \/ current -> Outcome(p, lane[p]) /\ UNCHANGED <<lane, reg, watch, torn>>
             [] ~blank /\ ~current /\ ~reg.on -> PassFails("fatal") /\ UNCHANGED <<lane, reg>>
             [] ~blank /\ ~current /\ reg.on /\ "lane" \in reading ->
                    PassFails("fatal") /\ reg' = [reg EXCEPT !.seq = @ + 1] /\ UNCHANGED lane
             [] ~blank /\ ~current /\ reg.on /\ "lane" \notin reading ->
                    /\ lane' = [lane EXCEPT ![p] = facts]
                    /\ reg' = [reg EXCEPT !.seq = @ + 1]
                    /\ Outcome(p, facts)
                    /\ torn' = torn \ {p}
                    /\ UNCHANGED watch
    /\ UNCHANGED <<rows, jobs, catalog, env>>

\* catalog_host_repo: metadata of this very configuration, or none at all
\* for a solution of one repository.
HostKnown == IF meta = None THEN ~MultiRepo ELSE meta = pass.cfg

\* The member vector: what this pass published or found, and the pointer of
\* every project it was not asked for.
CollectMembers ==
    /\ proc.at = "claim" /\ pass.p \notin Projects
    /\ LET member == [p \in Projects |-> IF p \in pass.scope THEN pass.got[p] ELSE lane[p]]
       IN  IF (\E p \in Projects : member[p] = None) \/ ~HostKnown
           THEN PassFails("fatal")
           ELSE /\ GoTo("catalog")
                /\ pass' = [pass EXCEPT !.got = member]
                /\ UNCHANGED <<watch, torn>>
    /\ UNCHANGED <<lane, catalog, store, env>>

\* Both guard files exclusively, install and pointer.
PublishCatalog ==
    /\ proc.at = "catalog"
    /\ IF "catalog" \in reading
       THEN PassFails("fatal") /\ UNCHANGED catalog
       ELSE /\ catalog' = pass.got
            /\ GoTo("finish")
            /\ UNCHANGED <<pass, watch, torn>>
    /\ UNCHANGED <<lane, store, env>>

\* clear_full_scan and mark_solution_jobs_succeeded: the kind of a hint's job
\* is not among those that are marked.
FinishPass ==
    /\ proc.at = "finish"
    /\ reg' = [reg EXCEPT !.scan = @ /\ pass.scope # Projects]
    /\ jobs' = [jobs EXCEPT !["request"].state = IF @ \in Active THEN "SUCCEEDED" ELSE @]
    /\ PassSucceeds
    /\ UNCHANGED <<rows, lane, catalog, env>>

-----------------------------------------------------------------------------
(* The watch loop of serve. *)

\* FilesystemSnapshot: an entry that is renamed or removed between read_dir
\* and metadata is an error, whether it is a source or any other file of the
\* tree, and the `?` of serve is its only handler.
SnapshotFails ==
    /\ reg.on /\ Happens
    /\ UNCHANGED source \/ \E p \in Projects, v \in Versions : source' = [source EXCEPT ![p] = v]
    /\ Stop("fatal")
    /\ UNCHANGED <<meta, enrolling, inbox, reading, forgot>>

\* The first poll of every root is its baseline and reports nothing.
Baseline ==
    /\ proc.at = "baseline"
    /\ \/ SnapshotFails
       \/ /\ watch' = [watch EXCEPT !.seen = IF reg.on THEN source ELSE @, !.due = FALSE]
          /\ proc' = [proc EXCEPT !.at = "sleep", !.startup = FALSE]
          /\ UNCHANGED <<pass, torn, env>>
    /\ UNCHANGED <<lane, catalog, store>>

\* Mutant: the loop does not look at the token.
TurnDeaf ==
    /\ proc.at = "sleep"
    /\ watch.due \/ watch.retries > 0
    /\ GoTo("list")
    /\ pass' = [NoPass EXCEPT !.scope = Projects]
    /\ UNCHANGED <<lane, catalog, watch, torn, store, env>>

\* The roots are polled.  An edit that keeps size and time is not seen, a root
\* that has no baseline yet gets one, and a hint, the timer or a pending retry
\* starts a pass.
PollRoots ==
    \E hit \in SUBSET {p \in Projects : watch.seen[p] \notin {None, source[p]}} :
        LET changed == reg.on /\ hit # {}
            seen == IF reg.on THEN source ELSE watch.seen
        IN  /\ IF changed \/ watch.due \/ watch.retries > 0
               THEN /\ GoTo("list")
                    /\ pass' = [NoPass EXCEPT !.scope = Projects]
                    /\ watch' = [watch EXCEPT !.seen = seen, !.burst =
                                    IF changed \/ watch.due THEN 0 ELSE watch.burst + 1]
               ELSE /\ watch' = [watch EXCEPT !.seen = seen]
                    /\ UNCHANGED <<proc, pass>>
            /\ UNCHANGED torn

\* One turn after the sleep: the token, then the snapshots.
Turn ==
    /\ proc.at = "sleep"
    /\ \/ proc.shutdown /\ Stop("shutdown") /\ UNCHANGED env
       \/ ~proc.shutdown /\ SnapshotFails
       \/ ~proc.shutdown /\ PollRoots /\ UNCHANGED env
    /\ UNCHANGED <<lane, catalog, store>>

\* FULL_RECONCILE_FALLBACK has elapsed since the last pass.
FallbackElapses ==
    /\ proc.at = "sleep" /\ ~watch.due
    /\ watch' = [watch EXCEPT !.due = TRUE]
    /\ UNCHANGED <<lane, catalog, proc, pass, torn, store, env>>

-----------------------------------------------------------------------------
(* The environment: editors, producers of hints, the operator, readers. *)

Edit(p, v) ==
    /\ v # source[p] /\ Happens
    /\ source' = [source EXCEPT ![p] = v]
    /\ UNCHANGED <<rows, lane, catalog, reg, meta, enrolling, jobs, inbox, proc, pass, watch, reading,
                   torn, forgot>>

Producer(h, from, to) ==
    /\ inbox[h] = from
    /\ inbox' = [inbox EXCEPT ![h] = to]
    /\ UNCHANGED <<source, rows, lane, catalog, reg, meta, enrolling, jobs, proc, pass, watch, reading,
                   torn, forgot>>

\* submit verifies the hint against the registry and counts the inbox ...
CheckHint(h) == Happens /\ reg.on /\ Cardinality(Entries) < InboxLimit /\ Producer(h, "none", "checked")

\* ... creates and synchronises the staging file ...
StageHint(h) == Producer(h, "checked", "next") /\ UNCHANGED events

\* ... and renames it, which is what accepts the hint.
AcceptHint(h) == Producer(h, "next", "json") /\ UNCHANGED events

\* A producer that dies leaves its staging file behind.
ProducerDies(h) == Happens /\ Producer(h, "next", "stuck")

Operator == UNCHANGED <<source, lane, catalog, inbox, proc, pass, watch, reading>>

\* plan_register and apply_register: one transaction, refused while registered.
Register ==
    /\ ~reg.on /\ ~enrolling /\ Happens
    /\ reg' = [on |-> TRUE, cfg |-> reg.cfg + 1, scan |-> TRUE, seq |-> 0]
    /\ enrolling' = TRUE
    /\ UNCHANGED <<rows, jobs, meta, forgot, torn>> /\ Operator

\* write_catalog_host_metadata follows the commit; a command that dies or that
\* finds no host for several repositories has registered all the same.
WriteMetadata ==
    /\ enrolling
    /\ enrolling' = FALSE
    /\ meta' = reg.cfg
    /\ UNCHANGED <<rows, reg, jobs, forgot, torn, events>> /\ Operator

RegisterDies ==
    /\ enrolling /\ Happens
    /\ enrolling' = FALSE
    /\ UNCHANGED <<rows, reg, jobs, meta, forgot, torn>> /\ Operator

\* apply_remove: refused while a job is active, otherwise every row goes; the
\* lanes, the catalog, the metadata and the inbox stay.
Remove ==
    /\ reg.on /\ Happens
    /\ \A j \in JobIds : jobs[j].state \notin Active
    /\ reg' = [reg EXCEPT !.on = FALSE]
    /\ rows' = [p \in Projects |-> NoRow]
    /\ forgot' = forgot \cup {h \in Hints : jobs[h].state # "absent"}
    /\ jobs' = [j \in JobIds |-> NoJob]
    /\ torn' = torn \cup {p \in Projects : lane[p] # None}
    /\ UNCHANGED <<meta, enrolling>> /\ Operator

\* `queue cancel`.
CancelJob(j) ==
    /\ jobs[j].state \in Active /\ Happens
    /\ jobs' = [jobs EXCEPT ![j].state = "CANCELLED"]
    /\ UNCHANGED <<rows, reg, meta, enrolling, forgot, torn>> /\ Operator

Read(g) ==
    /\ g \notin reading /\ Happens
    /\ reading' = reading \cup {g}
    /\ UNCHANGED <<source, rows, lane, catalog, reg, meta, enrolling, jobs, inbox, proc, pass, watch,
                   torn, forgot>>

EndRead(g) ==
    /\ g \in reading
    /\ reading' = reading \ {g}
    /\ UNCHANGED <<source, rows, lane, catalog, reg, meta, enrolling, jobs, inbox, proc, pass, watch,
                   torn, forgot, events>>

-----------------------------------------------------------------------------
PassStep ==
    \/ ListInbox \/ (\E h \in Hints : IngestHint(h)) \/ RemoveReceipt \/ ReadSolution
    \/ ClaimProject \/ InventoryProject \/ AnalyzeProject \/ PublishProject
    \/ CollectMembers \/ PublishCatalog \/ FinishPass

LoopStep == Baseline \/ Turn

DaemonEnvironment ==
    \/ StartServe \/ Signal \/ DaemonCrash
    \/ \E scope \in Scopes, full \in BOOLEAN : StartBuild(scope, full, FALSE)
    \/ \E scope \in Scopes : StartBuild(scope, FALSE, TRUE)
    \/ \E p \in Projects, v \in Versions : Edit(p, v)
    \/ \E h \in Hints : CheckHint(h) \/ StageHint(h) \/ AcceptHint(h) \/ ProducerDies(h)
    \/ Register \/ WriteMetadata \/ RegisterDies \/ Remove
    \/ \E j \in JobIds : CancelJob(j)
    \/ \E g \in {"lane", "catalog"} : Read(g) \/ EndRead(g)

DaemonNext == PassStep \/ LoopStep \/ FallbackElapses \/ DaemonEnvironment

DaemonSpec == DaemonInit /\ [][DaemonNext]_dvars

\* The process is scheduled, its clock runs and readers let go of their guards.
DaemonFair ==
    /\ WF_dvars(PassStep) /\ WF_dvars(LoopStep) /\ WF_dvars(FallbackElapses)
    /\ \A g \in {"lane", "catalog"} : WF_dvars(EndRead(g))

-----------------------------------------------------------------------------
(* Properties. *)

(* An accepted hint is not lost: its file leaves the inbox only after the    *)
(* job it asks for was committed, whatever crashes in between; only the      *)
(* removal of the whole solution takes the job away (ingest, apply_remove).  *)
AcceptedHintIsKept ==
    \A h \in Hints : inbox[h] = "gone" => jobs[h].state # "absent" \/ h \in forgot

(* No two hints of a registration wait for the same event: each target is   *)
(* its own and within the sequence, so a later barrier on a target is met    *)
(* by later work only (bump_event_seq and enqueue_job in one transaction).   *)
TargetsAreDistinct ==
    /\ \A j \in JobIds : jobs[j].state # "absent" => reg.on /\ jobs[j].target <= reg.seq
    /\ \A g, h \in Hints :
           jobs[g].state # "absent" /\ jobs[h].state # "absent" /\ jobs[g].target = jobs[h].target => g = h

(* A hint whose file survived a crash is counted once: while hints are       *)
(* ingested, the sequence moves only together with a new job (ingest).       *)
HintCountsOnce ==
    [][proc.at = "hints" /\ reg'.on /\ reg.on /\ reg'.seq # reg.seq
         => \E h \in Hints : jobs[h].state = "absent" /\ jobs'[h].target = reg'.seq]_dvars

(* Whenever the catalog moves, its members are the generations all lanes     *)
(* have at that moment: the vector is gathered over the whole pass, from     *)
(* outcomes and from pointers (publish_solution_catalog).                     *)
CatalogIsACut == [][catalog' # catalog => catalog' = lane]_dvars

(* A running watch loop is ended by an error only for a lasting cause, or by *)
(* an entry that vanishes while the loop itself walks the trees: an edit      *)
(* anywhere inside a pass, or a source that does not parse, is retried        *)
(* (the error match of serve, which the snapshot's `?` does not reach).       *)
FatalStopHasCause ==
    [][proc.owner = "serve" /\ ~proc.startup /\ proc'.owner = "none" /\ proc'.why = "fatal"
         => \/ ~reg.on
            \/ reading # {}
            \/ ~HostKnown
            \/ Cardinality(Entries) > InboxLimit
            \/ \E p \in Projects : lane[p] = None
            \/ proc.at = "sleep" /\ events' # events]_dvars

(* A requested shutdown ends the daemon, in the middle of a pass or asleep   *)
(* (token.claim, the loop's test of the token).                               *)
ShutdownCompletes == (proc.owner = "serve" /\ proc.shutdown) ~> (proc.owner = "none")

(* While the daemon serves a registered solution whose sources parse, the    *)
(* catalog catches up with every project again and again, also for an edit   *)
(* the watcher missed or that fell between the startup inventory and the      *)
(* baseline.  The exception is a lane that no longer follows the rows, after  *)
(* a process stopped between acknowledging and publishing, or a removal.      *)
CatalogCatchesUp ==
    \A p \in Projects :
        []<>(\/ proc.owner # "serve" \/ ~reg.on \/ p \in torn
             \/ \E q \in Projects : source[q] \in Unparsed
             \/ (catalog # None /\ catalog[p] = source[p]))

(* Nothing that a producer was told is accepted gets lost or confused, and *)
(* transient errors cause at most three extra passes in a row: the state   *)
(* is well formed, accepted hints are kept, their targets are their own.   *)
HintsAreKept ==
    /\ DaemonTypeOK
    /\ AcceptedHintIsKept
    /\ TargetsAreDistinct
=============================================================================
