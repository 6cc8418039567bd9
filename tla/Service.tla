------------------------------ MODULE Service -------------------------------
(***************************************************************************)
(* `axiom service` (axiom/src/service): the LaunchAgent of the daemon.  Its  *)
(* definition in ~/Library/LaunchAgents, the label launchd has loaded, the    *)
(* process, and state/service-v1.json, the record that lets a command touch   *)
(* the other three.  install, start, stop, uninstall, and the update, which    *)
(* drains (removes) the service, moves `current` and installs the service       *)
(* again, hold the maintenance lock, may die between two effects, and share    *)
(* the host with its user and with login sessions.                              *)
(*                                                                           *)
(* A definition is told apart by the generation whose daemon it names; other    *)
(* bytes, of the user or of a write that was cut short, are Foreign.             *)
(***************************************************************************)
EXTENDS Naturals

CONSTANTS
    Activations,    \* what <root>/current may name
    Foreign, NoDefinition, NoRecord,
    MaxSessions,    \* bound on what the user and the sessions do
    MaxRefusals,    \* bound on launchctl and file system refusals
    MaxKills        \* bound on commands that die

ASSUME ServiceAssumption ==
    /\ Foreign \notin Activations /\ NoDefinition \notin Activations \cup {Foreign}
    /\ NoRecord \notin [def : Activations \cup {Foreign}, gen : Activations]
    /\ MaxSessions \in Nat /\ MaxRefusals \in Nat /\ MaxKills \in Nat

VARIABLES
    plist,       \* the definition
    loaded,      \* the definition that launchd loaded under the label
    alive,       \* the process of the label runs
    owned,       \* service-v1.json: [def, gen]
    gen,         \* <root>/current
    cmd,         \* the command that runs: [op, at, def, to]
    byHand,      \* the user has changed the definition or the label
    raced,       \* and did so while a command ran, or a session began under one
    loose,       \* a command stopped after it had written the definition and before the record
    tally        \* [sessions, refusals, kills]

serviceVars == <<plist, loaded, alive, owned, gen, cmd, byHand, raced, loose, tally>>
host == <<plist, loaded, alive>>
history == <<byHand, raced, loose>>

Definitions == Activations \cup {Foreign, NoDefinition}
Records == [def : Activations \cup {Foreign}, gen : Activations]
NoCommand == [op |-> "none", at |-> "idle", def |-> NoDefinition, to |-> NoDefinition]

ServiceTypeOK ==
    /\ plist \in Definitions /\ loaded \in Definitions /\ alive \in BOOLEAN
    /\ alive => loaded # NoDefinition
    /\ owned \in Records \cup {NoRecord} /\ gen \in Activations
    /\ cmd.op \in {"none", "install", "remove", "update"}
    /\ cmd.at \in {"idle", "write", "bootstrap", "record", "undo", "bootout", "target", "delete", "forget", "point"}
    /\ (cmd.op = "none") = (cmd.at = "idle")
    /\ cmd.def \in Activations \cup {NoDefinition} /\ cmd.to \in Activations \cup {NoDefinition}
    /\ byHand \in BOOLEAN /\ raced \in BOOLEAN /\ loose \in BOOLEAN
    /\ tally \in [sessions : 0..MaxSessions, refusals : 0..MaxRefusals, kills : 0..MaxKills]

\* A host without the service; the label or the definition may be somebody's already.
ServiceInit ==
    /\ plist \in {NoDefinition, Foreign} /\ loaded \in {NoDefinition, plist} /\ alive = (loaded # NoDefinition)
    /\ owned = NoRecord /\ gen \in Activations /\ cmd = NoCommand
    /\ byHand = (plist = Foreign) /\ raced = FALSE /\ loose = FALSE
    /\ tally = [sessions |-> 0, refusals |-> 0, kills |-> 0]

-----------------------------------------------------------------------------
(* Ownership. *)

\* read_with_home: the record is there, and the definition is the recorded one.
Owned == owned # NoRecord /\ plist = owned.def

Step(at) == cmd' = [cmd EXCEPT !.at = at]

Stopped == cmd' = NoCommand

\* Once the definition is written, a command that ends before the record leaves it unowned.
LeftLoose == loose' = (loose \/ cmd.at \in {"bootstrap", "record", "undo"})

\* launchctl or the file system says no, within the bound.
Refuses == tally.refusals < MaxRefusals /\ tally' = [tally EXCEPT !.refusals = @ + 1]

-----------------------------------------------------------------------------
(* install *)

\* A label or a definition that is there must be this installation's.
Installable == (loaded # NoDefinition => Owned) /\ (plist # NoDefinition => Owned)

BeginInstall ==
    /\ cmd.op = "none" /\ Installable
    /\ cmd' = [op |-> "install", at |-> "write", def |-> gen, to |-> NoDefinition]
    /\ UNCHANGED <<host, owned, gen, history, tally>>

\* ensure_registered: bytes that differ are replaced.
WriteDefinition ==
    /\ cmd.at = "write"
    /\ plist' = cmd.def /\ Step("bootstrap")
    /\ UNCHANGED <<loaded, alive, owned, gen, history, tally>>

\* launchctl loads what the file holds now and starts it; a label that is loaded is refused.
LoadDefinition ==
    /\ cmd.at = "bootstrap" /\ loaded = NoDefinition /\ plist # NoDefinition
    /\ loaded' = plist /\ alive' = TRUE /\ Step("record")
    /\ UNCHANGED <<plist, owned, gen, history, tally>>

\* The error is returned as it is: the definition stays.
LoadRefused ==
    /\ cmd.at = "bootstrap"
    /\ IF loaded # NoDefinition \/ plist = NoDefinition THEN UNCHANGED tally ELSE Refuses
    /\ Stopped /\ LeftLoose
    /\ UNCHANGED <<host, owned, gen, byHand, raced>>

\* The record names the bytes and the generation that are there now.
RecordService ==
    /\ cmd.at = "record" /\ plist # NoDefinition
    /\ owned' = [def |-> plist, gen |-> gen] /\ Stopped /\ loose' = FALSE
    /\ UNCHANGED <<host, gen, byHand, raced, tally>>

DefinitionGone ==
    /\ cmd.at = "record" /\ plist = NoDefinition
    /\ Stopped /\ LeftLoose
    /\ UNCHANGED <<host, owned, gen, byHand, raced, tally>>

\* A record that cannot be written: what was registered is removed again.
RecordRefused ==
    /\ cmd.at = "record" /\ plist # NoDefinition /\ Refuses
    /\ Step("undo")
    /\ UNCHANGED <<host, owned, gen, history>>

\* remove_registered, whose outcome nobody looks at.
UndoInstall ==
    /\ cmd.at = "undo"
    /\ IF plist # NoDefinition /\ loaded # NoDefinition
       THEN plist' = NoDefinition /\ loaded' = NoDefinition /\ alive' = FALSE /\ UNCHANGED loose
       ELSE LeftLoose /\ UNCHANGED host
    /\ Stopped
    /\ UNCHANGED <<owned, gen, byHand, raced, tally>>

-----------------------------------------------------------------------------
(* start and stop: the definition, the record and the active generation must agree. *)

\* Mutant: the active generation is not compared.
ControlledAnyGeneration == cmd.op = "none" /\ Owned

Controlled == cmd.op = "none" /\ Owned /\ owned.gen = gen

StartService ==
    /\ Controlled /\ loaded # NoDefinition
    /\ alive' = TRUE
    /\ UNCHANGED <<plist, loaded, owned, gen, cmd, history, tally>>

StopService ==
    /\ Controlled /\ alive
    /\ alive' = FALSE
    /\ UNCHANGED <<plist, loaded, owned, gen, cmd, history, tally>>

-----------------------------------------------------------------------------
(* uninstall, and the drain of an update *)

\* Mutant: without its definition the label is taken to be gone.
RemoveFromBlind == IF plist = NoDefinition THEN "forget" ELSE "bootout"

\* The label is asked for only when the definition is missing.
RemoveFrom == IF plist = NoDefinition THEN "target" ELSE "bootout"

\* Without a record nothing is touched; a definition that differs from the record refuses.
BeginRemove(op, to) ==
    /\ cmd.op = "none" /\ owned # NoRecord /\ plist \in {owned.def, NoDefinition}
    /\ cmd' = [op |-> op, at |-> RemoveFrom, def |-> NoDefinition, to |-> to]
    /\ UNCHANGED <<host, owned, gen, history, tally>>

\* The label is unloaded and its process ended.
Bootout ==
    /\ cmd.at \in {"bootout", "target"} /\ loaded # NoDefinition
    /\ loaded' = NoDefinition /\ alive' = FALSE
    /\ Step(IF cmd.at = "bootout" THEN "delete" ELSE "forget")
    /\ UNCHANGED <<plist, owned, gen, history, tally>>

\* A definition whose label is not loaded cannot be booted out; a missing one has nothing to boot out.
NotLoaded ==
    /\ cmd.at \in {"bootout", "target"} /\ loaded = NoDefinition
    /\ IF cmd.at = "target" THEN Step("forget") ELSE Stopped
    /\ UNCHANGED <<host, owned, gen, history, tally>>

BootoutRefused ==
    /\ cmd.at \in {"bootout", "target"} /\ Refuses
    /\ Stopped
    /\ UNCHANGED <<host, owned, gen, history>>

DeleteDefinition ==
    /\ cmd.at = "delete"
    /\ plist' = NoDefinition /\ Step("forget")
    /\ UNCHANGED <<loaded, alive, owned, gen, history, tally>>

Forget ==
    /\ cmd.at = "forget"
    /\ owned' = NoRecord
    /\ IF cmd.op = "update" THEN Step("point") ELSE Stopped
    /\ UNCHANGED <<host, gen, history, tally>>

-----------------------------------------------------------------------------
(* The update and the install of the ecosystem *)

\* The pointer moves between drain and reinstall, which asks for the same as an install does.
MoveCurrent ==
    /\ cmd.at = "point"
    /\ gen' = cmd.to
    /\ IF Installable
       THEN cmd' = [cmd EXCEPT !.at = "write", !.def = cmd.to] ELSE Stopped
    /\ UNCHANGED <<host, owned, history, tally>>

\* `install apply` moves the pointer under a service that is there, and so does an update without a record.
Activate(g) ==
    /\ cmd.op = "none" /\ g # gen /\ gen' = g
    /\ UNCHANGED <<host, owned, cmd, history, tally>>

-----------------------------------------------------------------------------
(* The user, the sessions and the death of a command *)

Meanwhile == raced' = (raced \/ cmd.op # "none")

Visits == tally.sessions < MaxSessions /\ tally' = [tally EXCEPT !.sessions = @ + 1]

\* A login loads what the directory holds.
Login ==
    /\ Visits /\ Meanwhile
    /\ loaded' = plist /\ alive' = (plist # NoDefinition)
    /\ UNCHANGED <<plist, owned, gen, cmd, byHand, loose>>

ChangeDefinition(d) ==
    /\ Visits /\ Meanwhile /\ d # plist
    /\ plist' = d /\ byHand' = TRUE
    /\ UNCHANGED <<loaded, alive, owned, gen, cmd, loose>>

BootoutByHand ==
    /\ loaded # NoDefinition /\ Visits /\ Meanwhile
    /\ loaded' = NoDefinition /\ alive' = FALSE /\ byHand' = TRUE
    /\ UNCHANGED <<plist, owned, gen, cmd, loose>>

DaemonExits ==
    /\ alive /\ alive' = FALSE
    /\ UNCHANGED <<plist, loaded, owned, gen, cmd, history, tally>>

\* A definition is written in place: a death in it may leave part of the bytes.
CommandDies ==
    /\ cmd.op # "none" /\ tally.kills < MaxKills
    /\ tally' = [tally EXCEPT !.kills = @ + 1]
    /\ plist' \in IF cmd.at = "write" THEN {plist, Foreign} ELSE {plist}
    /\ loose' = (loose \/ plist' # plist \/ cmd.at \in {"bootstrap", "record", "undo"})
    /\ Stopped
    /\ UNCHANGED <<loaded, alive, owned, gen, byHand, raced>>

CommandStep ==
    \/ WriteDefinition \/ LoadDefinition \/ LoadRefused \/ RecordService \/ DefinitionGone \/ RecordRefused
    \/ UndoInstall \/ Bootout \/ NotLoaded \/ BootoutRefused \/ DeleteDefinition \/ Forget \/ MoveCurrent

ServiceNext ==
    \/ BeginInstall \/ BeginRemove("remove", NoDefinition) \/ StartService \/ StopService \/ CommandStep
    \/ \E g \in Activations : Activate(g) \/ (g # gen /\ BeginRemove("update", g))
    \/ Login \/ BootoutByHand \/ DaemonExits \/ CommandDies
    \/ \E d \in {Foreign, NoDefinition} : ChangeDefinition(d)

ServiceSpec == ServiceInit /\ [][ServiceNext]_serviceVars

-----------------------------------------------------------------------------
(* Properties. *)

(* No command writes over or deletes a definition that is not this             *)
(* installation's, unless it appeared after the command had looked             *)
(* ("existing LaunchAgent definition is not owned by this install", run;        *)
(* "owned service definition changed", remove_with_exec).                        *)
ForeignDefinitionIsKept ==
    [][cmd.op # "none" /\ tally' = tally /\ plist = Foreign /\ ~raced => plist' = Foreign]_serviceVars

(* When a removal gives up its record, neither the definition nor the label      *)
(* nor the process is left, whatever the user removed by hand before and         *)
(* wherever an earlier attempt died: nothing could remove them afterwards          *)
(* (remove_with_exec: "missing service state cannot authorize an existing            *)
(* LaunchAgent").                                                                     *)
RemovedIsUnregistered ==
    cmd.at = "forget" /\ ~raced => plist = NoDefinition /\ loaded = NoDefinition /\ ~alive

(* What `service start` starts is the daemon of the active generation, after any      *)
(* updates, installations over a running service, sessions and hand edits ("owned      *)
(* service state names a different active generation", run).                             *)
StartedIsCurrent ==
    [][cmd.op = "none" /\ ~alive /\ alive' /\ tally' = tally /\ ~raced => loaded = gen]_serviceVars

(* A service that is there is recorded, so that it can be controlled and removed:          *)
(* as long as nobody changes it by hand and no installation stopped between the              *)
(* definition and the record, also when the record could not be written.                     *)
ServiceIsRecorded ==
    cmd.op = "none" /\ ~byHand /\ ~raced /\ ~loose =>
        (plist # NoDefinition \/ loaded # NoDefinition => owned # NoRecord /\ plist \in {owned.def, NoDefinition})

(* The record and the service go together: a service that is there has its *)
(* record, and a record is given up only when nothing is left of the       *)
(* service.                                                                *)
ServiceIsAccountedFor ==
    /\ ServiceTypeOK
    /\ RemovedIsUnregistered
    /\ ServiceIsRecorded

(* What the commands touch and start is this installation's: no foreign    *)
(* definition, no daemon of another generation.                            *)
CommandsAreOwned ==
    /\ ForeignDefinitionIsKept
    /\ StartedIsCurrent
=============================================================================
