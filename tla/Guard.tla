------------------------------- MODULE Guard -------------------------------
(***************************************************************************)
(* The guards of one solution instance (crates/platform/src/guard.rs): the   *)
(* two lock files admission.lock and data.lock, the plans by which a          *)
(* publisher, a collector and a reader take them, the bounded wait, and the   *)
(* retention decision that runs under them (plan_gc there, plan and execute   *)
(* of crates/graph-export/src/gc.rs).                                         *)
(*                                                                           *)
(* The locks are the system's: a dead process holds none.  What a holder      *)
(* does under its guards is its caller's: a publisher stages a generation     *)
(* and moves the pointer, a collector plans and deletes, a reader pins the    *)
(* generation of the pointer and copies it.                                   *)
(***************************************************************************)
EXTENDS Naturals, FiniteSets

CONSTANTS
    Participants,   \* processes that take guards
    Releasable,     \* generation identities
    NoGeneration,   \* no generation is pinned
    Patience,        \* BoundedWait.timeout_ms, in retry intervals
    RetryMax        \* RETRY_MAX_MS, in retry intervals (RETRY_INITIAL_MS is one)

ASSUME GuardAssumption ==
    /\ IsFiniteSet(Participants) /\ IsFiniteSet(Releasable) /\ NoGeneration \notin Releasable
    /\ Patience \in Nat \ {0} /\ RetryMax \in Nat \ {0}

Roles == {"admission", "data"}
Modes == {"none", "shared", "exclusive"}

VARIABLES
    plan,       \* [Participants -> "idle" or whose plan it follows]
    step,       \* [Participants -> the lock it waits for, or what it does with both]
    grip,       \* [Participants -> [Roles -> Modes]]: the locks the system gave it
    elapsed,    \* [Participants -> time since its wait began]
    delay,      \* [Participants -> its next retry delay]
    pinned,     \* [Participants -> the generation a reader copies]
    doomed,     \* [Participants -> generations a collector's plan lists]
    present,    \* the generations on guarded
    current,    \* the generation the pointer names
    exposed     \* generations whose publication was begun and not completed

guardVars == <<plan, step, grip, elapsed, delay, pinned, doomed, present, current, exposed>>
turn == <<plan, step>>
clock == <<elapsed, delay>>
guarded == <<present, current, exposed>>

Nothing == [r \in Roles |-> "none"]
Plans == {"publisher", "collector", "reader"}
Working == {"begin", "expose", "delete", "copy", "done"}

GuardTypeOK ==
    /\ plan \in [Participants -> Plans \cup {"idle"}]
    /\ step \in [Participants -> Roles \cup Working]
    /\ grip \in [Participants -> [Roles -> Modes]]
    /\ elapsed \in [Participants -> 0..Patience] /\ delay \in [Participants -> 1..RetryMax]
    /\ pinned \in [Participants -> Releasable \cup {NoGeneration}]
    /\ doomed \in [Participants -> SUBSET Releasable]
    /\ present \subseteq Releasable /\ current \in Releasable /\ exposed \subseteq Releasable

GuardInit ==
    /\ plan = [p \in Participants |-> "idle"]
    /\ step = [p \in Participants |-> "admission"]
    /\ grip = [p \in Participants |-> Nothing]
    /\ elapsed = [p \in Participants |-> 0] /\ delay = [p \in Participants |-> 1]
    /\ pinned = [p \in Participants |-> NoGeneration]
    /\ doomed = [p \in Participants |-> {}]
    /\ current \in Releasable /\ present = {current} /\ exposed = {}

\* The mode in which a plan takes both of its locks.
ModeOf(k) == IF k = "reader" THEN "shared" ELSE "exclusive"

\* The system grants a lock in a mode that no other holder excludes.
Grants(p, r, m) ==
    \A q \in Participants \ {p} :
        grip[q][r] = "none" \/ (grip[q][r] = "shared" /\ m = "shared")

Waiting(p) == plan[p] # "idle" /\ step[p] \in Roles

Goes(p, to) == step' = [step EXCEPT ![p] = to] /\ UNCHANGED plan

\* The participant is as it was before it began, holding nothing.
Leaves(p) ==
    /\ plan' = [plan EXCEPT ![p] = "idle"] /\ step' = [step EXCEPT ![p] = "admission"]
    /\ grip' = [grip EXCEPT ![p] = Nothing]
    /\ elapsed' = [elapsed EXCEPT ![p] = 0] /\ delay' = [delay EXCEPT ![p] = 1]
    /\ pinned' = [pinned EXCEPT ![p] = NoGeneration] /\ doomed' = [doomed EXCEPT ![p] = {}]

\* acquire_exclusive and acquire_reader begin: the wait's clock starts.
BeginAcquire(p, k) ==
    /\ plan[p] = "idle"
    /\ plan' = [plan EXCEPT ![p] = k]
    /\ UNCHANGED <<step, grip, clock, pinned, doomed, guarded>>

\* The next lock of the plan, or the holder's work.
Advances(p) ==
    /\ Goes(p, IF step[p] = "admission" THEN "data" ELSE "begin")
    /\ delay' = [delay EXCEPT ![p] = 1]
    /\ elapsed' = [elapsed EXCEPT ![p] = IF step[p] = "admission" THEN @ ELSE 0]

\* Mutant: a reader takes the data lock first.
TakesDataFirst(p) ==
    /\ Waiting(p)
    /\ LET r == IF plan[p] = "reader"
                THEN CHOOSE s \in Roles : s # step[p] ELSE step[p]
       IN /\ Grants(p, r, ModeOf(plan[p]))
          /\ grip' = [grip EXCEPT ![p][r] = ModeOf(plan[p])]
    /\ Advances(p)
    /\ UNCHANGED <<pinned, doomed, guarded>>

\* Mutant: a reader takes the data lock in no mode at all.
TakesAdmissionOnly(p) ==
    /\ Waiting(p)
    /\ Grants(p, step[p], ModeOf(plan[p])) \/ (plan[p] = "reader" /\ step[p] = "data")
    /\ IF plan[p] = "reader" /\ step[p] = "data"
       THEN UNCHANGED grip
       ELSE grip' = [grip EXCEPT ![p][step[p]] = ModeOf(plan[p])]
    /\ Advances(p)
    /\ UNCHANGED <<pinned, doomed, guarded>>

\* try_acquire succeeds: admission first, then data; the wait for each lock has
\* its own delays, and the clock of the whole acquisition, which is not read
\* again once both are held.
TryAcquire(p) ==
    /\ Waiting(p) /\ Grants(p, step[p], ModeOf(plan[p]))
    /\ grip' = [grip EXCEPT ![p][step[p]] = ModeOf(plan[p])]
    /\ Advances(p)
    /\ UNCHANGED <<pinned, doomed, guarded>>

Least(a, b) == IF a <= b THEN a ELSE b

Refused(p) == Waiting(p) /\ ~Grants(p, step[p], ModeOf(plan[p]))

\* The lock is another's and the bound has not come: the process sleeps, twice
\* as long as before, and no longer than what is left.
Sleep(p) ==
    /\ Refused(p) /\ elapsed[p] < Patience
    /\ elapsed' = [elapsed EXCEPT ![p] = @ + Least(delay[p], Patience - @)]
    /\ delay' = [delay EXCEPT ![p] = Least(2 * @, RetryMax)]
    /\ UNCHANGED <<turn, grip, pinned, doomed, guarded>>

\* LayerTimedOut: what was acquired is released before the error is returned.
TimeOut(p) ==
    /\ Refused(p) /\ elapsed[p] >= Patience
    /\ Leaves(p) /\ UNCHANGED guarded

\* Another thread trips the token, or the primitive itself fails.
Abandon(p) == Waiting(p) /\ Leaves(p) /\ UNCHANGED guarded

Attempt(p) == TryAcquire(p) \/ Sleep(p) \/ TimeOut(p)

Works(p, k, at) == plan[p] = k /\ step[p] = at

\* A publisher stages the generation it will name.
StageUnderGuard(p, g) ==
    /\ Works(p, "publisher", "begin") /\ g # current
    /\ present' = present \cup {g} /\ exposed' = {g}
    /\ Goes(p, "expose")
    /\ UNCHANGED <<grip, clock, pinned, doomed, current>>

\* It moves the pointer: the publication is complete.
PointUnderGuard(p) ==
    /\ Works(p, "publisher", "expose")
    /\ \E g \in exposed : current' = g
    /\ exposed' = {}
    /\ Goes(p, "done")
    /\ UNCHANGED <<grip, clock, pinned, doomed, present>>

\* The generations plan_gc (and plan) retains.
Protected(pins) == {current} \cup pins

\* Pins of live readers that the collector was told of.
Pins == {pinned[q] : q \in Participants} \ {NoGeneration}

\* plan_gc: only under both guards, and not while a pointer is partly exposed.
PlanGc(p, pins) ==
    /\ Works(p, "collector", "begin")
    /\ grip[p] = [r \in Roles |-> "exclusive"]
    /\ exposed = {}
    /\ doomed' = [doomed EXCEPT ![p] = present \ Protected(pins)]
    /\ Goes(p, "delete")
    /\ UNCHANGED <<grip, clock, pinned, guarded>>

\* GcRefusal: nothing is deleted.
RefuseGc(p) ==
    /\ Works(p, "collector", "begin") /\ exposed # {}
    /\ Goes(p, "done")
    /\ UNCHANGED <<grip, clock, pinned, doomed, guarded>>

\* execute deletes the planned generations one after another.
DeleteOne(p, g) ==
    /\ Works(p, "collector", "delete") /\ g \in doomed[p]
    /\ present' = present \ {g}
    /\ doomed' = [doomed EXCEPT ![p] = @ \ {g}]
    /\ UNCHANGED <<turn, grip, clock, pinned, current, exposed>>

DeletedAll(p) ==
    /\ Works(p, "collector", "delete") /\ doomed[p] = {}
    /\ Goes(p, "done")
    /\ UNCHANGED <<grip, clock, pinned, doomed, guarded>>

\* A reader learns from the pointer which generation it copies.
PinUnderGuard(p) ==
    /\ Works(p, "reader", "begin") /\ pinned[p] = NoGeneration
    /\ pinned' = [pinned EXCEPT ![p] = current]
    /\ UNCHANGED <<turn, grip, clock, doomed, guarded>>

\* release_admission: before the payload, and the data lock stays.
ReleaseAdmission(p) ==
    /\ Works(p, "reader", "begin") /\ pinned[p] # NoGeneration
    /\ grip' = [grip EXCEPT ![p]["admission"] = "none"]
    /\ Goes(p, "copy")
    /\ UNCHANGED <<clock, pinned, doomed, guarded>>

\* The payload is copied and the rest released.
ReleaseReader(p) ==
    /\ Works(p, "reader", "copy")
    /\ Leaves(p) /\ UNCHANGED guarded

\* ExclusiveGuardSet::release: data, then admission.
ReleaseData(p) ==
    /\ step[p] = "done" /\ grip[p]["data"] # "none"
    /\ grip' = [grip EXCEPT ![p]["data"] = "none"]
    /\ UNCHANGED <<turn, clock, pinned, doomed, guarded>>

ReleaseSet(p) ==
    /\ step[p] = "done" /\ grip[p]["data"] = "none"
    /\ Leaves(p) /\ UNCHANGED guarded

\* The process dies with what it holds; the disk stays as it is.
Die(p) == plan[p] # "idle" /\ Leaves(p) /\ UNCHANGED guarded

GuardNext ==
    \E p \in Participants :
        \/ \E k \in Plans : BeginAcquire(p, k)
        \/ Attempt(p) \/ Abandon(p) \/ Die(p)
        \/ \E g \in Releasable : StageUnderGuard(p, g) \/ DeleteOne(p, g)
        \/ PointUnderGuard(p)
        \/ \E pins \in SUBSET Pins : PlanGc(p, pins)
        \/ RefuseGc(p) \/ DeletedAll(p)
        \/ PinUnderGuard(p) \/ ReleaseAdmission(p) \/ ReleaseReader(p)
        \/ ReleaseData(p) \/ ReleaseSet(p)

GuardSpec == GuardInit /\ [][GuardNext]_guardVars

-----------------------------------------------------------------------------
\* The generation of the pointer is there, and the one that a publisher exposes;
\* the generation a reader copies stays there until it lets its guards go,
\* whoever publishes, collects or dies meanwhile (the early release of admission
\* does not give the payload up).  An acquisition sleeps for one bound at most,
\* both locks taken together (GuardTypeOK).
PinnedGenerationStays ==
    /\ GuardTypeOK
    /\ {current} \cup exposed \subseteq present
    /\ \A p \in Participants : pinned[p] # NoGeneration => pinned[p] \in present

\* From the moment a writer has admission, no reader comes in: the readers it
\* waits for only become fewer.
AdmissionClosesTheDoor ==
    [][\A w \in Participants :
         grip[w]["admission"] = "exclusive" /\ grip'[w]["admission"] = "exclusive"
         => {r \in Participants : grip'[r]["data"] = "shared"}
              \subseteq {r \in Participants : grip[r]["data"] = "shared"}]_guardVars
=============================================================================
