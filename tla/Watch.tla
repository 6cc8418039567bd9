------------------------------- MODULE Watch -------------------------------
(***************************************************************************)
(* One watched project (crates/graph-watch): the native backend and its      *)
(* drain, the polling backend, normalisation of a flush, the sticky recovery *)
(* state, the Reconciler that decides what one batch may do, and the         *)
(* inventory plan that a scan computes.                                      *)
(*                                                                           *)
(* The library leaves the loop to its caller.  The caller here does what the *)
(* outcomes are documented to mean and the tests show: it re-reads the paths  *)
(* of an Apply; it confirms those of a Bounded rescan and submits the same    *)
(* hints again; it runs a complete inventory for a FullScan and acknowledges  *)
(* it; and it reports a failed drain as a lost connection.  A batch that is   *)
(* still bounded after it was confirmed may be given up for a required scan.  *)
(* The editor runs beside it at every step.                                   *)
(***************************************************************************)
EXTENDS Naturals, Sequences, SequencesExt, FiniteSets

CONSTANTS
    Plain,      \* paths that both policies let through
    Ignored,    \* paths of the ignore policy: the engine's own output
    Secret,     \* paths the input policy withholds by name
    Fold,       \* [Paths -> names]: same_path, the identity where case matters
    MaxVersion, \* contents of a file
    MaxDrain,   \* MAX_DRAIN_HINTS and MAX_HINTS_PER_BATCH, one and the same bound
    MaxTouches    \* bound on what the editor and the backend do in one behaviour

Paths == Plain \cup Ignored \cup Secret

ASSUME WatchAssumption ==
    /\ IsFiniteSet(Paths) /\ Plain # {} /\ Plain \cap (Ignored \cup Secret) = {} /\ Ignored \cap Secret = {}
    /\ DOMAIN Fold = Paths
    /\ MaxVersion \in Nat /\ MaxDrain \in Nat \ {0} /\ MaxTouches \in Nat

VARIABLES
    tree,       \* [Paths -> 0..MaxVersion or Link]: the worktree, 0 is an absent path
    known,      \* [Paths -> 0..MaxVersion]: KnownInventory
    backend,    \* the backend that bind_backend chose, or "none"
    channel,    \* events the native backend has sent and nobody has drained
    previous,   \* the snapshot of the last poll, or the empty function before the first
    recovery,   \* the reason why a full scan is required, or "none"
    batch,      \* [hints, over, first, again]: the flush the caller holds until an
                \* outcome settles it; again once it was bounded and confirmed
    queue,      \* paths that the last outcome or scan has yet to re-read
    step,       \* what the caller does: "idle", "batch", "confirm", "apply", "scan"
    ahead,      \* paths last looked at while they were not as the last poll has them
    touches     \* steps of the environment so far

wvars == <<tree, known, backend, channel, previous, recovery, batch, queue, step, ahead, touches>>

Link    == MaxVersion + 1            \* a symlink that the input policy refuses
Content == 0..Link
Kinds   == {"Created", "Modified", "Removed", "RenamedFrom", "RenamedTo", "Other", "Error"}
Reasons == {"Overflow", "Reconnect", "BranchChange", "BackendSwitch", "BufferOverflow"}
Hint(k, p) == [kind |-> k, path |-> p]
NoBatch == [hints |-> <<>>, over |-> FALSE, first |-> FALSE, again |-> FALSE]
NoSnapshot == <<>>

WatchTypeOK ==
    /\ tree \in [Paths -> Content] /\ known \in [Paths -> 0..MaxVersion]
    /\ backend \in {"none", "native", "polling"}
    /\ \A i \in DOMAIN channel : \A h \in ToSet(channel[i]) : h.kind \in Kinds /\ h.path \in Paths
    /\ previous = NoSnapshot \/ previous \in [Paths -> Content]
    /\ recovery \in Reasons \cup {"none"}
    /\ \A h \in ToSet(batch.hints) : h.kind \in Kinds \ {"Error"} /\ h.path \in Paths
    /\ queue \subseteq Paths
    /\ step \in {"idle", "batch", "confirm", "apply", "scan"}
    /\ ahead \subseteq Plain
    /\ touches \in 0..MaxTouches

\* Two present paths never have names the host takes for the same.
Consistent(t) == \A p, q \in Paths : Fold[p] = Fold[q] /\ t[p] # 0 /\ t[q] # 0 => p = q

WatchInit ==
    /\ tree \in {t \in [Paths -> {0, 1}] : Consistent(t) /\ \A p \in Paths \ Plain : t[p] = 0}
    /\ known = [p \in Paths |-> 0]
    /\ backend = "none"
    /\ channel = <<>>
    /\ previous = NoSnapshot
    /\ recovery = "none"
    /\ batch = NoBatch
    /\ queue = {}
    /\ step = "idle"
    /\ ahead = {}
    /\ touches = 0

-----------------------------------------------------------------------------
(* The worktree and what the native backend sends about it. *)

Happens == touches < MaxTouches /\ touches' = touches + 1

\* The events reach the channel only once the native watch is running.
Sends(events) == channel' = IF backend = "native" THEN channel \o events ELSE channel

Worktree == UNCHANGED <<known, backend, previous, recovery, batch, queue, step, ahead>>

\* A path is created, changed, removed, or replaced by a refused symlink.
Touch(p, v) ==
    /\ tree[p] # v /\ Happens
    /\ tree' = [tree EXCEPT ![p] = v]
    /\ Consistent(tree')
    /\ Sends(<< <<Hint(IF tree[p] = 0 THEN "Created" ELSE IF v = 0 THEN "Removed" ELSE "Modified", p)>> >>)
    /\ Worktree

\* translate_event: both sides of a rename in one event, or one event each.
Rename(p, q, both) ==
    /\ p # q /\ tree[p] # 0 /\ tree[q] = 0 /\ Happens
    /\ tree' = [tree EXCEPT ![p] = 0, ![q] = tree[p]]
    /\ Consistent(tree')
    /\ LET from == Hint("RenamedFrom", p)
           to   == Hint("RenamedTo", q)
       IN  Sends(IF both THEN << <<from, to>> >> ELSE << <<from>>, <<to>> >>)
    /\ Worktree

\* An access, or an error of the backend itself; whose path does not matter.
Noise(k) ==
    /\ backend = "native" /\ Happens
    /\ Sends(<< <<Hint(k, CHOOSE p \in Plain : TRUE)>> >>)
    /\ UNCHANGED tree /\ Worktree

-----------------------------------------------------------------------------
(* The recovery state: sticky, the first reason is kept. *)

RequireFullScan(reason) == recovery' = IF recovery = "none" THEN reason ELSE recovery

\* bind_backend; the caller reports the switch, as absorb asks for.
BindBackend(kind) ==
    /\ step = "idle" /\ backend # kind /\ (backend # "none" => Happens)
    /\ backend' = kind
    /\ channel' = <<>>
    /\ previous' = NoSnapshot
    /\ RequireFullScan("BackendSwitch")
    /\ UNCHANGED <<tree, known, batch, queue, step, ahead>>
    /\ backend = "none" => UNCHANGED touches

\* absorb: a lost or restored connection drops what was in flight, a branch
\* switch does not.
Absorb(reason) ==
    /\ step = "idle" /\ backend = "native" /\ Happens
    /\ channel' = IF reason = "Reconnect" THEN <<>> ELSE channel
    /\ RequireFullScan(reason)
    /\ UNCHANGED <<tree, known, backend, previous, batch, queue, step, ahead>>

-----------------------------------------------------------------------------
(* Observation. *)

\* drain: events are taken until the flush is full; the event that finds it
\* full is lost, and the flush says so.  An error loses the whole flush.
Drain ==
    /\ step = "idle" /\ backend = "native" /\ channel # <<>>
    /\ LET HintsOf(n) == FlattenSeq(SubSeq(channel, 1, n))
           full  == {n \in 1..Len(channel) : Len(HintsOf(n)) >= MaxDrain}
           n     == IF full = {} THEN Len(channel) ELSE CHOOSE k \in full : \A j \in full : k <= j
           over  == n < Len(channel)
       IN  /\ channel' = SubSeq(channel, IF over THEN n + 2 ELSE n + 1, Len(channel))
           /\ IF \E h \in ToSet(HintsOf(n)) : h.kind = "Error"
              THEN RequireFullScan("Reconnect") /\ UNCHANGED <<batch, step>>
              ELSE /\ batch' = [NoBatch EXCEPT !.hints = HintsOf(n), !.over = over]
                   /\ step' = "batch"
                   /\ UNCHANGED recovery
    /\ UNCHANGED <<tree, known, backend, previous, queue, ahead, touches>>

\* poll: the difference of two snapshots; the first one is only a baseline.
Poll ==
    /\ step = "idle" /\ backend = "polling"
    /\ LET changed == IF previous = NoSnapshot THEN {} ELSE {p \in Paths : previous[p] # tree[p]}
           HintOf(p) == Hint(IF tree[p] = 0 THEN "Removed"
                             ELSE IF previous[p] = 0 THEN "Created" ELSE "Modified", p)
       IN  /\ previous = NoSnapshot \/ changed # {}
           /\ batch' = [NoBatch EXCEPT
                          !.hints = [i \in 1..Cardinality(changed) |-> HintOf(SetToSeq(changed)[i])],
                          !.first = previous = NoSnapshot]
    /\ previous' = tree
    /\ step' = "batch"
    /\ UNCHANGED <<tree, known, backend, channel, recovery, queue, ahead, touches>>

\* drain times out on an empty channel, poll finds nothing new.
WaitForHints ==
    /\ step = "idle" /\ recovery = "none"
    /\ \/ backend = "native" /\ channel = <<>>
       \/ backend = "polling" /\ previous = tree
    /\ UNCHANGED wvars

-----------------------------------------------------------------------------
(* The decision about one batch. *)

Named(hints, kinds) == {hints[i].path : i \in {j \in DOMAIN hints : hints[j].kind \in kinds}}

\* normalize pairs every destination with the first origin of the same name
\* that is still free, or else with the first free one; what it tells the
\* reconciler is which origins stay alone and which renames change case only.
Pairing(hints) ==
    LET Sides(k) == SelectSeq(hints, LAMBDA h : h.kind = k)
        origins == [i \in DOMAIN Sides("RenamedFrom") |-> Sides("RenamedFrom")[i].path]
        Pair(acc, to) ==
            LET free == {i \in DOMAIN origins : origins[i] \notin acc.used}
                same == {i \in free : Fold[origins[i]] = Fold[to.path]}
                pool == IF same # {} THEN same ELSE free
                o    == origins[CHOOSE i \in pool : \A j \in pool : i <= j]
            IN  IF pool = {} THEN acc
                ELSE [used |-> acc.used \cup {o},
                      cased |-> IF same # {} /\ o # to.path THEN acc.cased \cup {to.path}
                                ELSE acc.cased]
        paired == FoldLeft(Pair, [used |-> {}, cased |-> {}], Sides("RenamedTo"))
    IN  [alone |-> ToSet(origins) \ paired.used, cased |-> paired.cased]

\* The two policies: what the engine writes itself is not input, and a secret
\* or a symlink is never read.
IsIgnored(p) == p \in Ignored
IsRefused(p) == p \in Secret \/ tree[p] = Link

\* Mutant: an upsert of a path without a row is skipped like a secret.
DecisionSkippingNew ==
    LET hints   == batch.hints
        upserts == Named(hints, {"Created", "Modified", "RenamedTo"})
        hinted  == upserts \cup Named(hints, {"Removed", "RenamedFrom"})
        tracked == {p \in hinted : ~IsIgnored(p)}
        refused == {p \in tracked : IsRefused(p)}
        apply   == {p \in tracked \ refused : p \notin upserts \/ known[p] # 0}
        rescan  == (Pairing(hints).cased \cap apply) \cup (refused \ Secret)
    IN  [bounded |-> apply # {} /\ rescan # {},
         paths |-> IF apply = {} THEN {} ELSE IF rescan # {} THEN rescan ELSE apply,
         boundary |-> refused \ Secret]

\* What a batch of bounded size asks for once the policies have seen it: to
\* confirm the paths that may not be applied as a delta, or else to apply all.
\* With nothing to apply a boundary is not asked about either.
Decision ==
    LET hints   == batch.hints
        upserts == Named(hints, {"Created", "Modified", "RenamedTo"})
        hinted  == upserts \cup Named(hints, {"Removed", "RenamedFrom"})
        tracked == {p \in hinted : ~IsIgnored(p)}
        refused == {p \in tracked : IsRefused(p)}
        apply   == tracked \ refused
        rescan  == (Pairing(hints).cased \cap apply)
                     \cup (refused \ Secret)
                     \cup {p \in upserts \cap apply : known[p] = 0}
    IN  [bounded |-> apply # {} /\ rescan # {},
         paths |-> IF apply = {} THEN {} ELSE IF rescan # {} THEN rescan ELSE apply,
         boundary |-> refused \ Secret]

FullScan(reason) ==
    /\ RequireFullScan(reason)
    /\ batch' = NoBatch /\ queue' = {} /\ step' = "idle"
    /\ UNCHANGED ahead

\* A path is looked at while it is not as the last poll has it: should it turn
\* back before the next poll, that poll will not tell.
Outruns(p) == backend = "polling" /\ previous # NoSnapshot /\ p \in Plain /\ previous[p] # tree[p]

\* A bounded batch is not acted on yet and stays with the caller.
Decided ==
    /\ queue' = Decision.paths
    /\ IF Decision.bounded THEN step' = "confirm" /\ UNCHANGED batch
                           ELSE step' = "apply" /\ batch' = NoBatch
    /\ ahead' = IF Decision.paths = {} THEN ahead \cup {p \in Decision.boundary : Outruns(p)} ELSE ahead

\* Mutant: an outstanding scan does not hold back a trustworthy batch, and
\* deciding about it settles the scan.
ReconcileForgetful ==
    /\ step = "batch"
    /\ CASE batch.first -> FullScan("BackendSwitch")
         [] ~batch.first /\ batch.over -> FullScan("Overflow")
         [] ~batch.first /\ ~batch.over -> Decided /\ recovery' = "none"
    /\ UNCHANGED <<tree, known, backend, channel, previous, touches>>

\* reconcile_poll and reconcile, early returns in their order.
Reconcile ==
    /\ step = "batch"
    /\ CASE batch.first -> FullScan("BackendSwitch")
         [] ~batch.first /\ batch.over -> FullScan("Overflow")
         [] ~batch.first /\ ~batch.over /\ Len(batch.hints) > MaxDrain -> FullScan("BufferOverflow")
         [] ~batch.first /\ ~batch.over /\ Len(batch.hints) <= MaxDrain /\ recovery # "none" ->
              FullScan(recovery)
         [] ~batch.first /\ ~batch.over /\ Len(batch.hints) <= MaxDrain /\ recovery = "none" ->
              IF Pairing(batch.hints).alone # {} THEN FullScan("Overflow")
              ELSE Decided /\ UNCHANGED recovery
    /\ UNCHANGED <<tree, known, backend, channel, previous, touches>>

-----------------------------------------------------------------------------
(* What the caller does with the outcome. *)

\* A path is re-read, one at a time; a symlink or a secret is not followed and
\* leaves the row as it was.
Reread(p) ==
    /\ known' = IF p \in Plain /\ tree[p] # Link THEN [known EXCEPT ![p] = tree[p]] ELSE known
    /\ ahead' = IF Outruns(p) THEN ahead \cup {p} ELSE ahead \ {p}
    /\ queue' = queue \ {p}

NextPath == CHOOSE p \in queue : TRUE

\* The paths of an Apply, or those that a Bounded rescan asks to confirm.
ApplyPath ==
    /\ step \in {"apply", "confirm"} /\ queue # {}
    /\ Reread(NextPath)
    /\ UNCHANGED <<tree, backend, channel, previous, recovery, batch, step, touches>>

BatchDone ==
    /\ step = "apply" /\ queue = {}
    /\ step' = "idle"
    /\ UNCHANGED <<tree, known, backend, channel, previous, recovery, batch, queue, ahead, touches>>

\* What was confirmed is in the inventory now, and the same hints are submitted
\* again.
Resubmit ==
    /\ step = "confirm" /\ queue = {}
    /\ step' = "batch"
    /\ batch' = [batch EXCEPT !.again = TRUE]
    /\ UNCHANGED <<tree, known, backend, channel, previous, recovery, queue, ahead, touches>>

\* require_full_scan, for a batch that no confirmation settles: a rename of case
\* only, a symlink, or a new path that is gone again.
RequireScan ==
    /\ step \in {"batch", "confirm"} /\ batch.again
    /\ FullScan("BufferOverflow")
    /\ UNCHANGED <<tree, known, backend, channel, previous, touches>>

\* plan_inventory over every path, in some order; the walk takes its time.
StartScan ==
    /\ step = "idle" /\ recovery # "none"
    /\ step' = "scan"
    /\ queue' = Plain
    /\ UNCHANGED <<tree, known, backend, channel, previous, recovery, batch, ahead, touches>>

\* A withheld path counts as seen: its row is neither changed nor deleted
\* (Secret and Ignored paths never have one).
ScanPath ==
    /\ step = "scan" /\ queue # {}
    /\ Reread(NextPath)
    /\ UNCHANGED <<tree, backend, channel, previous, recovery, batch, step, touches>>

AcknowledgeScan ==
    /\ step = "scan" /\ queue = {}
    /\ recovery' = "none"
    /\ step' = "idle"
    /\ UNCHANGED <<tree, known, backend, channel, previous, batch, queue, ahead, touches>>

-----------------------------------------------------------------------------
WatchCaller ==
    \/ Drain \/ Poll \/ Reconcile \/ ApplyPath \/ BatchDone \/ Resubmit \/ RequireScan
    \/ StartScan \/ ScanPath \/ AcknowledgeScan

WatchEnvironment ==
    \/ \E p \in Plain, v \in Content : Touch(p, v)
    \/ \E p \in Ignored \cup Secret, v \in {0, 1} : Touch(p, v)
    \/ \E p, q \in Plain, both \in BOOLEAN : Rename(p, q, both)
    \/ \E k \in {"Other", "Error"} : Noise(k)
    \/ \E kind \in {"native", "polling"} : BindBackend(kind)
    \/ \E reason \in {"Reconnect", "BranchChange"} : Absorb(reason)

WatchNext == WatchCaller \/ WatchEnvironment \/ WaitForHints

WatchSpec == WatchInit /\ [][WatchNext]_wvars

\* The caller starts a backend and its loop keeps running; it does not submit
\* a batch for ever that stays bounded.
WatchStart == backend = "none" /\ \E kind \in {"native", "polling"} : BindBackend(kind)

WatchFair == WF_wvars(WatchCaller) /\ WF_wvars(WatchStart) /\ WF_wvars(RequireScan)

-----------------------------------------------------------------------------
(* Properties. *)

\* The row of p is not what the worktree holds.
Owed(p) == p \in Plain /\ tree[p] # Link /\ known[p] # tree[p]

\* Something that the caller still has to look at will lead to p.
Covered(p) ==
    LET Speaks(h) == h.path = p /\ h.kind # "Other"
    IN  \/ backend = "none" \/ recovery # "none"
        \/ \E i \in DOMAIN channel : \E h \in ToSet(channel[i]) : Speaks(h)
        \/ step \in {"batch", "confirm"} /\ (batch.over \/ batch.first \/ \E h \in ToSet(batch.hints) : Speaks(h))
        \/ p \in queue
        \/ backend = "polling" /\ (previous = NoSnapshot \/ previous[p] # tree[p])

(* No change is lost between the editor and the inventory, whatever is       *)
(* dropped on the way: a full flush, an error of the backend, a split        *)
(* rename, a batch that may not be applied yet, a switch of backends or an   *)
(* edit behind the back of a running scan leaves a hint, a difference of      *)
(* snapshots or the sticky scan requirement (NativeWatcher::drain,            *)
(* RecoveryState, Reconciler::reconcile).  With native events there is no     *)
(* exception.  With polling it is a path that was looked at between two polls *)
(* which find it as it was: no hint and no difference will tell of it.        *)
NothingIsLost == WatchTypeOK /\ \A p \in Plain : Owed(p) => Covered(p) \/ p \in ahead

(* Once the editor rests the inventory becomes the worktree, but for the paths *)
(* that polling cannot tell of (see NothingIsLost): the sticky requirement     *)
(* does not keep the caller from ever finishing, nor does a batch that is      *)
(* bounded again and again, given a caller that at last requires a scan for it *)
(* (Reconciler::reconcile, require_full_scan).                                 *)
InventoryConverges == <>[](\A p \in Plain : Owed(p) => p \in ahead)
=============================================================================
