------------------------------ MODULE Admission ------------------------------
(***************************************************************************)
(* From a change to verified freshness (crates/graph-queue enqueue.rs,        *)
(* schedule.rs, budget.rs, barrier.rs; crates/graph-watch dirty.rs): pending   *)
(* work intents with their coalescing, the order in which they run, the bound *)
(* on batches in flight, the dirty generations a result is acknowledged       *)
(* against, and the barrier that answers a freshness request.                 *)
(*                                                                           *)
(* These are decision layers over rows that their caller keeps; the caller    *)
(* here records a change, its event sequence, its generation and its intent    *)
(* together, as hint ingestion does, reads the generation before the input     *)
(* and the input after the row was taken, and credits a scope with the target  *)
(* of the row it ran.                                                         *)
(*                                                                           *)
(* Time is relative: a row carries its age and the ticks to its ready time.   *)
(***************************************************************************)
EXTENDS Integers, FiniteSets

CONSTANTS
    NScopes,    \* scopes, one dedup key each, in the order of their job ids
    Class,      \* [1..NScopes -> Nat]: base_priority of the scope's kind of work
    Urgent,     \* the priority of freshness work, PRIORITY_VERIFICATION
    Interval,   \* AGING_INTERVAL_MS, in ticks
    MaxBonus,   \* MAX_AGING_BONUS
    Slots,      \* the limit of InFlightBatches
    Service,    \* ticks a batch may take; it takes at least one
    MaxDelay,   \* latest ready time of a request, in ticks from now
    MaxSeq,     \* bound on the event sequence
    MaxAge      \* ages are told apart up to here

Scopes == 1..NScopes

ASSUME AdmissionAssumption ==
    /\ NScopes \in Nat \ {0} /\ Class \in [Scopes -> Nat] /\ Urgent \in Nat
    /\ Interval \in Nat \ {0} /\ MaxBonus \in Nat /\ Slots \in Nat \ {0} /\ Service \in Nat \ {0}
    /\ MaxDelay \in Nat /\ MaxSeq \in Nat /\ MaxAge \in Nat

VARIABLES
    seq,        \* the event sequence
    latest,     \* [Scopes -> seq]: the last event that changed the scope's input
    dirty,      \* [Scopes -> [desired, indexed]]: DirtyGeneration
    pending,    \* [Scopes -> [on, target, priority, age, due]]: PendingIndex.pending
    work,       \* [Scopes -> [at, target, gen, saw, took]]: PendingIndex.running and its worker
    indexed,    \* [Scopes -> [upto, saw]]: indexed_event_seq and the input it stands for
    barrier     \* [at, scopes, target, want, before]: one freshness request

avars == <<seq, latest, dirty, pending, work, indexed, barrier>>

NoIntent  == [on |-> FALSE, target |-> 0, priority |-> 0, age |-> 0, due |-> 0]
Idle      == [at |-> "idle", target |-> 0, gen |-> 0, saw |-> 0, took |-> 0]
NoBarrier == [at |-> "none", scopes |-> {}, target |-> 0, want |-> [s \in Scopes |-> 0],
              before |-> 0]
Active    == {s \in Scopes : work[s].at # "idle"}

AdmissionTypeOK ==
    /\ seq \in 0..MaxSeq
    /\ latest \in [Scopes -> 0..MaxSeq]
    /\ dirty \in [Scopes -> [desired : 0..MaxSeq, indexed : 0..MaxSeq]]
    /\ pending \in [Scopes -> [on : BOOLEAN, target : 0..MaxSeq, priority : Nat, age : 0..MaxAge,
                               due : -MaxAge..MaxDelay]]
    /\ work \in [Scopes -> [at : {"idle", "started", "read"}, target : 0..MaxSeq, gen : 0..MaxSeq,
                            saw : 0..MaxSeq, took : 0..Service]]
    /\ indexed \in [Scopes -> [upto : 0..MaxSeq, saw : 0..MaxSeq]]
    /\ Cardinality(Active) <= Slots
    /\ barrier \in [at : {"none", "waiting", "window", "verified"}, scopes : SUBSET Scopes,
                    target : 0..MaxSeq, want : [Scopes -> 0..MaxSeq], before : 0..MaxSeq]

AdmissionInit ==
    /\ seq = 0
    /\ latest = [s \in Scopes |-> 0]
    /\ dirty = [s \in Scopes |-> [desired |-> 0, indexed |-> 0]]
    /\ pending = [s \in Scopes |-> NoIntent]
    /\ work = [s \in Scopes |-> Idle]
    /\ indexed = [s \in Scopes |-> [upto |-> 0, saw |-> 0]]
    /\ barrier = NoBarrier

-----------------------------------------------------------------------------
(* Intents. *)

AtLeast(a, b) == IF a >= b THEN a ELSE b
AtMost(a, b)  == IF a <= b THEN a ELSE b

\* coalesce: no target, urgency or ready time is taken back.
Coalesce(row, target, priority, delay) ==
    [row EXCEPT !.target = AtLeast(@, target), !.priority = AtLeast(@, priority),
                !.due = AtMost(@, delay)]

\* Mutant: the row keeps the older target.
EnqueuedLast(row, target, priority, delay) ==
    IF row.on THEN [Coalesce(row, target, priority, delay) EXCEPT !.target = AtMost(row.target, target)]
    ELSE [on |-> TRUE, target |-> target, priority |-> priority, age |-> 0, due |-> delay]

\* enqueue: one pending row per key; a running row is not touched, its
\* successor waits beside it.
Enqueued(row, target, priority, delay) ==
    IF row.on THEN Coalesce(row, target, priority, delay)
    ELSE [on |-> TRUE, target |-> target, priority |-> priority, age |-> 0, due |-> delay]

\* A change: the event, the generation (mark_dirty) and the intent.
Change(s, delay) ==
    /\ seq < MaxSeq
    /\ seq' = seq + 1
    /\ latest' = [latest EXCEPT ![s] = seq + 1]
    /\ dirty' = [dirty EXCEPT ![s].desired = @ + 1]
    /\ pending' = [pending EXCEPT ![s] = Enqueued(@, seq + 1, Class[s], delay)]
    /\ UNCHANGED <<work, indexed, barrier>>

\* Recurring work of the scope's class, such as an inventory or a collection.
Recur(s) ==
    /\ ~pending[s].on
    /\ pending' = [pending EXCEPT ![s] = Enqueued(@, seq, Class[s], 0)]
    /\ UNCHANGED <<seq, latest, dirty, work, indexed, barrier>>

-----------------------------------------------------------------------------
(* The scheduler and the workers. *)

\* Mutant: waiting earns nothing.
AgingNone(age) == 0

\* aging_bonus.
AgingBonus(age) == AtMost(age \div Interval, MaxBonus)

EffectivePriority(s) == pending[s].priority + AgingBonus(pending[s].age)

Ready == {s \in Scopes : pending[s].on /\ pending[s].due <= 0}

\* order: effective priority, ready time, creation time, job id.
RunsBefore(s, t) ==
    LET p == EffectivePriority(s)
        q == EffectivePriority(t)
    IN  \/ p > q
        \/ p = q /\ pending[s].due < pending[t].due
        \/ p = q /\ pending[s].due = pending[t].due /\ pending[s].age > pending[t].age
        \/ p = q /\ pending[s].due = pending[t].due /\ pending[s].age = pending[t].age /\ s < t

\* select_next, a free batch (InFlightBatches::acquire) and mark_started; a
\* scope's successor starts once the scope is free.
CanStart(s) ==
    /\ Cardinality(Active) < Slots
    /\ s \in Ready /\ work[s].at = "idle"
    /\ \A t \in Ready \ {s} : work[t].at = "idle" => RunsBefore(s, t)

Start(s) ==
    /\ CanStart(s)
    /\ pending' = [pending EXCEPT ![s] = NoIntent]
    /\ work' = [work EXCEPT ![s] = [at |-> "started", target |-> pending[s].target,
                                    gen |-> dirty[s].desired, saw |-> 0, took |-> 0]]
    /\ UNCHANGED <<seq, latest, dirty, indexed, barrier>>

ReadInput(s) ==
    /\ work[s].at = "started"
    /\ work' = [work EXCEPT ![s].at = "read", ![s].saw = latest[s]]
    /\ UNCHANGED <<seq, latest, dirty, pending, indexed, barrier>>

\* mark_finished, release and acknowledge: a generation that is no longer the
\* desired one is superseded and the scope stays dirty.
Finish(s) ==
    /\ work[s].at = "read" /\ work[s].took > 0
    /\ dirty' = [dirty EXCEPT ![s].indexed =
                    IF work[s].gen # 0 /\ work[s].gen = dirty[s].desired THEN work[s].gen ELSE @]
    /\ indexed' = [indexed EXCEPT ![s] = [upto |-> AtLeast(@.upto, work[s].target), saw |-> work[s].saw]]
    /\ work' = [work EXCEPT ![s] = Idle]
    /\ UNCHANGED <<seq, latest, pending, barrier>>

\* Time passes: a tick finds no batch at the end of its time and no free batch beside a
\* ready row: the loop starts what it can before it sleeps.
Pass ==
    /\ \A s \in Scopes : work[s].at # "idle" => work[s].took < Service
    /\ ~\E s \in Scopes : CanStart(s)
    /\ \E s \in Scopes : pending[s].on
    /\ pending' = [s \in Scopes |->
                     IF pending[s].on THEN [pending[s] EXCEPT !.age = AtMost(@ + 1, MaxAge),
                                                              !.due = AtLeast(@ - 1, -MaxAge)]
                     ELSE pending[s]]
    /\ work' = [s \in Scopes |-> IF work[s].at = "idle" THEN work[s]
                                 ELSE [work[s] EXCEPT !.took = @ + 1]]
    /\ UNCHANGED <<seq, latest, dirty, indexed, barrier>>

-----------------------------------------------------------------------------
(* The freshness barrier. *)

\* BarrierRequest::new: the present sequence is the target, and every required
\* scope gets an intent of that target.
RequestBarrier(scopes) ==
    /\ barrier.at \in {"none", "verified"} /\ scopes # {}
    /\ barrier' = [NoBarrier EXCEPT !.at = "waiting", !.scopes = scopes, !.target = seq,
                                     !.want = [s \in Scopes |-> IF s \in scopes THEN latest[s] ELSE 0]]
    /\ pending' = [s \in Scopes |-> IF s \in scopes THEN Enqueued(pending[s], seq, Urgent, 0)
                                    ELSE pending[s]]
    /\ UNCHANGED <<seq, latest, dirty, work, indexed>>

\* The fingerprint before the verification window: every change is an event,
\* so the sequence tells two fingerprints apart.
OpenWindow ==
    /\ barrier.at = "waiting"
    /\ barrier' = [barrier EXCEPT !.at = "window", !.before = seq]
    /\ UNCHANGED <<seq, latest, dirty, pending, work, indexed>>

\* Mutant: one indexed scope is enough.
CoversSome == \E s \in barrier.scopes : indexed[s].upto >= barrier.target

\* covers.
Covers == \A s \in barrier.scopes : indexed[s].upto >= barrier.target

\* evaluate at the end of the window: publication is what the caller observes.
Evaluate(published) ==
    /\ barrier.at = "window"
    /\ barrier' = [barrier EXCEPT !.before = 0,
                                   !.at = IF Covers /\ published /\ barrier.before = seq
                                          THEN "verified" ELSE "waiting"]
    /\ UNCHANGED <<seq, latest, dirty, pending, work, indexed>>

\* The bounded wait is over: WORKTREE_BUSY.
GiveUp ==
    /\ barrier.at \in {"waiting", "window"}
    /\ barrier' = NoBarrier
    /\ UNCHANGED <<seq, latest, dirty, pending, work, indexed>>

-----------------------------------------------------------------------------
Engine == \E s \in Scopes : Start(s) \/ ReadInput(s) \/ Finish(s)

AdmissionNext ==
    \/ \E s \in Scopes : \E delay \in 0..MaxDelay : Change(s, delay)
    \/ \E s \in Scopes : Recur(s)
    \/ Engine \/ Pass
    \/ \E scopes \in SUBSET Scopes : RequestBarrier(scopes)
    \/ OpenWindow \/ GiveUp
    \/ \E published \in BOOLEAN : Evaluate(published)

AdmissionSpec == AdmissionInit /\ [][AdmissionNext]_avars

-----------------------------------------------------------------------------
(* Properties. *)

(* The barrier never fakes freshness: when it verifies, each required scope  *)
(* was analysed from input at least as new as every change that came before  *)
(* the request, however intents were coalesced, deferred or reordered        *)
(* (evaluate; "it never receives a fabricated fresh snapshot").               *)
VerifiedIsFresh ==
    barrier.at = "verified" => \A s \in barrier.scopes : indexed[s].saw >= barrier.want[s]

(* A scope that is not dirty is indexed from its present input: an analysis  *)
(* overtaken by a change does not clean it (DirtyGeneration::acknowledge).    *)
CleanIsCurrent ==
    \A s \in Scopes : dirty[s].desired = dirty[s].indexed => indexed[s].saw = latest[s]

(* A dirty scope is never stranded: an intent or a run that reaches its      *)
(* newest event exists (PendingIndex::enqueue, mark_started).                 *)
DirtyIsScheduled ==
    \A s \in Scopes : dirty[s].desired # dirty[s].indexed =>
        \/ pending[s].on /\ pending[s].target >= latest[s]
        \/ work[s].at # "idle" /\ work[s].target >= latest[s]

(* Low-priority work is not starved by work that keeps coming back, as long  *)
(* as a round of the other scopes is shorter than the wait that lifts the     *)
(* lowest class over the highest (aging_bonus, order).                        *)
NoIntentStarves == \A s \in Scopes : []<>(~pending[s].on)

(* Every change is in the index or on its way into it, and no more batches *)
(* run than the slots allow.                                               *)
ChangeIsCovered ==
    /\ AdmissionTypeOK
    /\ CleanIsCurrent
    /\ DirtyIsScheduled
=============================================================================
