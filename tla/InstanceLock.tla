---------------------------- MODULE InstanceLock ----------------------------
(***************************************************************************)
(* The home-level daemon lock of crates/axiom-graphd/src/instance_lock.rs: *)
(* the exclusive file run/daemon.lock and the readable owner record        *)
(* run/daemon.owner.json.  Every system call of acquire and of Drop that   *)
(* another process can observe is one step.                                *)
(***************************************************************************)
CONSTANTS
    Procs,          \* process incarnations; each has its own pid and runs once
    NoProc,         \* "no such file" or "no owner named"
    Platform,       \* "windows", "linux" or "other" (the cfg attributes)
    SerialStarts    \* TRUE: an init system starts one daemon at a time

ASSUME PlatformAssumption == Platform \in {"windows", "linux", "other"}
ASSUME ProcAssumption == NoProc \notin Procs
ASSUME SerialAssumption == SerialStarts \in BOOLEAN

VARIABLES
    pc,       \* where each process stands in acquire or Drop
    lock,     \* the creator of the file at run/daemon.lock (windows: holder of the open handle)
    record,   \* the pid in run/daemon.owner.json; NoProc when absent or unreadable
    seen      \* the record a process read in recover_stale_claim

vars == <<pc, lock, record, seen>>

Locations == {"new", "open", "recover", "check", "unlink", "reopen", "opened",
              "truncated", "held", "dropping", "refused", "released", "crashed"}

\* A process that still runs: its /proc entry exists.
Running == {"open", "recover", "check", "unlink", "reopen", "opened",
            "truncated", "held", "dropping"}
\* Between the call of acquire and its return.
Acquiring == {"open", "recover", "check", "unlink", "reopen", "opened", "truncated"}
\* acquire has returned Ok, and the value has not been dropped completely.
Owning == {"held", "dropping"}

TypeOK ==
    /\ pc \in [Procs -> Locations]
    /\ lock \in Procs \cup {NoProc}
    /\ record \in Procs \cup {NoProc}
    /\ seen \in [Procs -> Procs \cup {NoProc}]

Init ==
    /\ pc = [p \in Procs |-> "new"]
    /\ lock = NoProc
    /\ record = NoProc
    /\ seen = [p \in Procs |-> NoProc]

Goto(p, l) == pc' = [pc EXCEPT ![p] = l]

\* A daemon is started and calls DaemonLock::acquire.
Start(p) ==
    /\ pc[p] = "new"
    /\ SerialStarts => \A q \in Procs : pc[q] \notin Acquiring
    /\ Goto(p, "open")
    /\ UNCHANGED <<lock, record, seen>>

\* open_exclusive succeeds: create_new, or the zero share mode on Windows.
OpenExclusive(p) ==
    /\ pc[p] \in {"open", "reopen"}
    /\ lock = NoProc
    /\ lock' = p
    /\ Goto(p, "opened")
    /\ UNCHANGED <<record, seen>>

\* open_exclusive fails.  The first failure tries the recovery, the second one
\* is a conflict.  On Windows recover_stale_claim is always false.
OpenRefused(p) ==
    /\ pc[p] \in {"open", "reopen"}
    /\ lock # NoProc
    /\ Goto(p, IF pc[p] = "open" /\ Platform # "windows" THEN "recover" ELSE "refused")
    /\ UNCHANGED <<lock, record, seen>>

\* recover_stale_claim reads the owner record; without one the claim stands.
ReadOwnerRecord(p) ==
    /\ pc[p] = "recover"
    /\ seen' = [seen EXCEPT ![p] = record]
    /\ Goto(p, IF record = NoProc THEN "refused" ELSE "check")
    /\ UNCHANGED <<lock, record>>

\* owner_is_alive: /proc/<pid> on Linux, undeterminable elsewhere.
OwnerIsDead(q) == Platform = "linux" /\ pc[q] \notin Running

\* Mutant: the liveness answer is not consulted.
CheckOwnerTrusting(p) ==
    /\ pc[p] = "check"
    /\ Goto(p, "unlink")
    /\ UNCHANGED <<lock, record, seen>>

CheckOwner(p) ==
    /\ pc[p] = "check"
    /\ Goto(p, IF OwnerIsDead(seen[p]) THEN "unlink" ELSE "refused")
    /\ UNCHANGED <<lock, record, seen>>

\* remove_file(lock_path): removes whatever file the path names NOW; a missing
\* file is an Internal error.
RemoveLockFile(p) ==
    /\ pc[p] = "unlink"
    /\ lock' = NoProc
    /\ Goto(p, IF lock = NoProc THEN "refused" ELSE "reopen")
    /\ UNCHANGED <<record, seen>>

\* write_record through the handle has succeeded and std::fs::write has opened
\* the owner record with truncation: it does not parse for the moment.
TruncateOwnerRecord(p) ==
    /\ pc[p] = "opened"
    /\ record' = NoProc
    /\ Goto(p, "truncated")
    /\ UNCHANGED <<lock, seen>>

\* The bytes of the owner record are there and acquire returns the lock.
WriteOwnerRecord(p) ==
    /\ pc[p] = "truncated"
    /\ record' = p
    /\ Goto(p, "held")
    /\ UNCHANGED <<lock, seen>>

\* write_record or write_owner_record fails: acquire returns the error before
\* a DaemonLock exists, so no Drop runs; closing the handle frees it on Windows.
WriteFails(p) ==
    /\ pc[p] \in {"opened", "truncated"}
    /\ Goto(p, "refused")
    /\ lock' = IF Platform = "windows" THEN NoProc ELSE lock
    /\ UNCHANGED <<record, seen>>

\* Drop removes the owner record first ...
DropRecord(p) ==
    /\ pc[p] = "held"
    /\ record' = NoProc
    /\ Goto(p, "dropping")
    /\ UNCHANGED <<lock, seen>>

\* ... then the lock file (by its path) or, on Windows, closes the handle.
DropLock(p) ==
    /\ pc[p] = "dropping"
    /\ lock' = NoProc
    /\ Goto(p, "released")
    /\ UNCHANGED <<record, seen>>

\* The process dies.  Files stay; an open Windows handle is closed by the kernel.
Crash(p) ==
    /\ pc[p] \in Running
    /\ Goto(p, "crashed")
    /\ lock' = IF Platform = "windows" /\ lock = p THEN NoProc ELSE lock
    /\ UNCHANGED <<record, seen>>

Next ==
    \E p \in Procs :
        \/ Start(p) \/ OpenExclusive(p) \/ OpenRefused(p) \/ ReadOwnerRecord(p)
        \/ CheckOwner(p) \/ RemoveLockFile(p) \/ TruncateOwnerRecord(p)
        \/ WriteOwnerRecord(p) \/ WriteFails(p) \/ DropRecord(p) \/ DropLock(p)
        \/ Crash(p)

Spec == Init /\ [][Next]_vars

-----------------------------------------------------------------------------
(* At most one process is between a successful acquire and the end of its   *)
(* Drop: "exactly one writer per Axiom home" (instance_lock.rs, line 3).    *)
SingleOwner ==
    \A p, q \in Procs : pc[p] \in Owning /\ pc[q] \in Owning => p = q

(* While a process owns the home, the lock file at the path is its own: no  *)
(* recovery and no Drop of another process removed or replaced it, so the   *)
(* next starter meets a live claim.                                         *)
OwnerKeepsClaim ==
    \A p \in Procs : pc[p] \in Owning => lock = p

(* One process at a time owns the home, and the lock file at the path is   *)
(* its own (DaemonLock::acquire, recover_stale_claim).                     *)
HomeIsOwnedOnce ==
    /\ TypeOK
    /\ SingleOwner
    /\ OwnerKeepsClaim
=============================================================================
