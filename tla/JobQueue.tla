------------------------------ MODULE JobQueue ------------------------------
(***************************************************************************)
(* The durable job rows of crates/graph-queue: claims, fences, leases,     *)
(* heartbeats, result commits, failures, cancellation and the reclaim of   *)
(* an abandoned lease, together with the operator commands `queue retry`   *)
(* and `queue cancel` (crates/axiom-graphd/src/commands/queue.rs), which   *)
(* update the same rows.                                                   *)
(*                                                                         *)
(* Instants are kept relative to the clock: `left` is lease_until - now    *)
(* and `wait` is ready_at - now, both 0 once they are past; every guard of *)
(* the code compares an instant with now, never with another instant.      *)
(***************************************************************************)
EXTENDS Naturals

CONSTANTS
    Jobs,            \* job ids
    Workers,         \* lease owner identities (never empty strings)
    NoWorker,        \* lease_owner = None
    MaxFence,        \* i64::MAX of next_fence, small in a model
    MaxLease,        \* MAX_LEASE_MS
    MaxExtension,    \* MAX_HEARTBEAT_EXTENSION_MS
    Requests,        \* the durations callers ask for, also beyond the maxima
    MaxAttempts,     \* MAX_TRANSIENT_ATTEMPTS; larger attempt numbers count the same
    Delays           \* the backoff delays BackoffPolicy can produce

ASSUME QueueAssumption ==
    /\ NoWorker \notin Workers
    /\ MaxFence \in Nat /\ MaxLease \in Nat /\ MaxExtension \in Nat
    /\ MaxAttempts \in Nat \ {0}
    /\ Requests \subseteq Nat /\ Delays \subseteq Nat

VARIABLES
    job,        \* the row of every job
    leases,     \* every Lease ever handed out; a worker may present any of its own at any time
    token,      \* CancelToken of every job: raised or not
    accepted    \* history: the leases whose result commit was accepted, per job

vars == <<job, leases, token, accepted>>

States == {"PENDING", "LEASED", "RUNNING", "RETRY_WAIT", "CANCEL_REQUESTED",
           "SUCCEEDED", "FAILED", "CANCELLED", "SUPERSEDED"}

IsTerminal(s) == s \in {"SUCCEEDED", "FAILED", "CANCELLED", "SUPERSEDED"}

HoldsLease(s) == s \in {"LEASED", "RUNNING"}

AllowedTransitions ==
    {<<"PENDING", "LEASED">>, <<"PENDING", "CANCEL_REQUESTED">>, <<"PENDING", "SUPERSEDED">>,
     <<"LEASED", "RUNNING">>, <<"LEASED", "PENDING">>, <<"LEASED", "CANCEL_REQUESTED">>,
     <<"RUNNING", "SUCCEEDED">>, <<"RUNNING", "FAILED">>, <<"RUNNING", "RETRY_WAIT">>,
     <<"RUNNING", "PENDING">>, <<"RUNNING", "CANCEL_REQUESTED">>, <<"RUNNING", "SUPERSEDED">>,
     <<"RETRY_WAIT", "PENDING">>, <<"RETRY_WAIT", "CANCEL_REQUESTED">>,
     <<"RETRY_WAIT", "SUPERSEDED">>, <<"CANCEL_REQUESTED", "CANCELLED">>}

\* ensure_transition succeeds.
TransitionAllowed(from, to) == ~IsTerminal(from) /\ <<from, to>> \in AllowedTransitions

Clamp(requested, max) == IF requested > max THEN max ELSE requested

Row == [state : States, attempt : 0..MaxAttempts, fence : 0..MaxFence,
        owner : Workers \cup {NoWorker}, left : Nat, wait : Nat]

Lease == [job : Jobs, fence : 0..MaxFence, owner : Workers]

TypeOK ==
    /\ job \in [Jobs -> Row]
    /\ leases \subseteq Lease
    /\ token \in [Jobs -> BOOLEAN]
    /\ accepted \in [Jobs -> SUBSET Lease]

\* JobRecord::new.
NewJob == [state |-> "PENDING", attempt |-> 0, fence |-> 0,
           owner |-> NoWorker, left |-> 0, wait |-> 0]

Init ==
    /\ job = [j \in Jobs |-> NewJob]
    /\ leases = {}
    /\ token = [j \in Jobs |-> FALSE]
    /\ accepted = [j \in Jobs |-> {}]

IsClaimableAt(r) == r.state \in {"PENDING", "RETRY_WAIT"} /\ r.wait = 0

NextAttempt(n) == Clamp(n + 1, MaxAttempts)

\* The row and the lease that an accepted claim produces.
Claimed(r, w, d) ==
    [r EXCEPT !.state = "LEASED", !.fence = r.fence + 1, !.attempt = NextAttempt(r.attempt),
              !.owner = w, !.left = Clamp(d, MaxLease)]

LeaseOf(j, r) == [job |-> j, fence |-> r.fence, owner |-> r.owner]

\* release_lease keeps the fence (F8).
Released(r, s) == [r EXCEPT !.state = s, !.owner = NoWorker, !.left = 0]

Claim(w, j, d) ==
    /\ IsClaimableAt(job[j])
    /\ job[j].fence < MaxFence
    /\ TransitionAllowed(job[j].state, "LEASED")
    /\ job' = [job EXCEPT ![j] = Claimed(job[j], w, d)]
    /\ leases' = leases \cup {LeaseOf(j, Claimed(job[j], w, d))}
    /\ UNCHANGED <<token, accepted>>

\* Mutant: the expiry and the owner are checked, the fence is not.
LiveOwnerAnyFence(l) ==
    LET r == job[l.job] IN
    /\ ~IsTerminal(r.state)
    /\ l.owner = r.owner
    /\ r.left > 0

\* ensure_live_owner accepts lease l.
LiveOwner(l) ==
    LET r == job[l.job] IN
    /\ ~IsTerminal(r.state)
    /\ l.fence = r.fence
    /\ l.owner = r.owner
    /\ r.left > 0

StartRunning(l) ==
    /\ TransitionAllowed(job[l.job].state, "RUNNING")
    /\ LiveOwner(l)
    /\ job' = [job EXCEPT ![l.job].state = "RUNNING"]
    /\ UNCHANGED <<leases, token, accepted>>

Heartbeat(l, e) ==
    /\ HoldsLease(job[l.job].state)
    /\ LiveOwner(l)
    /\ job' = [job EXCEPT ![l.job].left = Clamp(@ + Clamp(e, MaxExtension), MaxLease)]
    /\ UNCHANGED <<leases, token, accepted>>

\* Mutant: a result is accepted in any state that is not terminal.
CommitResultAnyState(l) ==
    /\ LiveOwner(l)
    /\ job' = [job EXCEPT ![l.job] = Released(@, "SUCCEEDED")]
    /\ accepted' = [accepted EXCEPT ![l.job] = @ \cup {l}]
    /\ UNCHANGED <<leases, token>>

\* commit_result, the accepted case; every rejection leaves the row alone (F6).
CommitResult(l) ==
    /\ job[l.job].state = "RUNNING"
    /\ LiveOwner(l)
    /\ job' = [job EXCEPT ![l.job] = Released(@, "SUCCEEDED")]
    /\ accepted' = [accepted EXCEPT ![l.job] = @ \cup {l}]
    /\ UNCHANGED <<leases, token>>

\* retry::decide: a transient failure is retried before attempt MaxAttempts.
DecidesRetry(transient, attempt) ==
    transient /\ attempt # 0 /\ attempt < MaxAttempts

\* The live owner reports a failed attempt and the row follows the decision
\* along the table: RETRY_WAIT for the delay, or FAILED.
FailAttempt(l, transient, delay) ==
    /\ job[l.job].state = "RUNNING"
    /\ LiveOwner(l)
    /\ job' = [job EXCEPT ![l.job] =
                  IF DecidesRetry(transient, @.attempt)
                  THEN [Released(@, "RETRY_WAIT") EXCEPT !.wait = delay]
                  ELSE Released(@, "FAILED")]
    /\ UNCHANGED <<leases, token, accepted>>

\* request_cancel: a leased job keeps its lease and its token is raised; any
\* other one is acknowledged in the same call.
RequestCancel(j) ==
    /\ TransitionAllowed(job[j].state, "CANCEL_REQUESTED")
    /\ IF HoldsLease(job[j].state)
       THEN /\ job' = [job EXCEPT ![j].state = "CANCEL_REQUESTED"]
            /\ token' = [token EXCEPT ![j] = TRUE]
       ELSE /\ job' = [job EXCEPT ![j] = Released(@, "CANCELLED")]
            /\ UNCHANGED token
    /\ UNCHANGED <<leases, accepted>>

AcknowledgeCancel(j) ==
    /\ TransitionAllowed(job[j].state, "CANCELLED")
    /\ job' = [job EXCEPT ![j] = Released(@, "CANCELLED")]
    /\ UNCHANGED <<leases, token, accepted>>

CancelPendingNow(j) ==
    /\ ~HoldsLease(job[j].state)
    /\ TransitionAllowed(job[j].state, "CANCEL_REQUESTED")
    /\ job' = [job EXCEPT ![j] = Released(@, "CANCELLED")]
    /\ UNCHANGED <<leases, token, accepted>>

IsReclaimable(r) == HoldsLease(r.state) /\ r.left = 0

\* reclaim_expired: PENDING and released, then claimed again in the same call;
\* when the fence cannot increase the claim fails and the row stays PENDING.
ReclaimExpired(w, j, d) ==
    LET r == [Released(job[j], "PENDING") EXCEPT !.wait = 0] IN
    /\ IsReclaimable(job[j])
    /\ IF r.fence < MaxFence
       THEN /\ job' = [job EXCEPT ![j] = Claimed(r, w, d)]
            /\ leases' = leases \cup {LeaseOf(j, Claimed(r, w, d))}
       ELSE /\ job' = [job EXCEPT ![j] = r]
            /\ UNCHANGED leases
    /\ UNCHANGED <<token, accepted>>

\* The row an operator's retry leaves: ready now, one more attempt, same fence.
Requeued(r) == [Released(r, "PENDING") EXCEPT !.attempt = NextAttempt(r.attempt), !.wait = 0]

\* `queue retry`: compare-and-set on the state that was read.
QueueRetry(j) ==
    /\ job[j].state \in {"FAILED", "RETRY_WAIT", "CANCELLED"}
    /\ job' = [job EXCEPT ![j] = Requeued(@)]
    /\ UNCHANGED <<leases, token, accepted>>

\* `queue cancel`: the lease columns are cleared, no token is raised.
QueueCancel(j) ==
    /\ TransitionAllowed(job[j].state, "CANCEL_REQUESTED")
    /\ job' = [job EXCEPT ![j] = Released(@, "CANCEL_REQUESTED")]
    /\ UNCHANGED <<leases, token, accepted>>

Sooner(n) == IF n = 0 THEN 0 ELSE n - 1

\* One unit of time passes.
Tick ==
    /\ job' = [j \in Jobs |-> [job[j] EXCEPT !.left = Sooner(job[j].left),
                                             !.wait = Sooner(job[j].wait)]]
    /\ UNCHANGED <<leases, token, accepted>>

Next ==
    \/ \E w \in Workers, j \in Jobs, d \in Requests : Claim(w, j, d) \/ ReclaimExpired(w, j, d)
    \/ \E l \in leases : StartRunning(l) \/ CommitResult(l)
    \/ \E l \in leases, e \in Requests : Heartbeat(l, e)
    \/ \E l \in leases, t \in BOOLEAN, d \in Delays : FailAttempt(l, t, d)
    \/ \E j \in Jobs : \/ RequestCancel(j) \/ AcknowledgeCancel(j) \/ CancelPendingNow(j)
                       \/ QueueRetry(j) \/ QueueCancel(j)
    \/ Tick

Spec == Init /\ [][Next]_vars

-----------------------------------------------------------------------------
(* Of all the leases ever handed out for a job, those of vanished workers   *)
(* included, at most one passes ensure_live_owner (claim.rs): two workers   *)
(* can never both heartbeat, start or commit the same job.                  *)
OneLiveLease ==
    \A l, m \in leases : l.job = m.job /\ LiveOwner(l) /\ LiveOwner(m) => l = m

(* An accepted result belongs to the newest claim of its job, and no later  *)
(* claim follows it: a worker whose job was reclaimed, cancelled or retried *)
(* cannot commit (ack.rs), and finished work is not handed out again.       *)
AcceptedIsNewestClaim ==
    \A j \in Jobs : \A a \in accepted[j] :
        \A l \in leases : l.job = j => l.fence < a.fence \/ l = a

(* However often it is renewed, a lease ends within MAX_LEASE_MS of now, so *)
(* an abandoned job is reclaimable within that time (heartbeat.rs).         *)
LeaseIsBounded == \A j \in Jobs : job[j].left <= MaxLease

(* A recorded cancellation request is never overtaken: the row can only     *)
(* become CANCELLED, whatever the worker that still holds the lease does    *)
(* (cancel.rs, ack.rs).                                                     *)
CancelIsNotOvertaken ==
    [][\A j \in Jobs : job[j].state = "CANCEL_REQUESTED" =>
            job'[j].state \in {"CANCEL_REQUESTED", "CANCELLED"}]_vars

(* lib.rs: is_claimable_at says "the job is eligible to be claimed"; claim  *)
(* documents only the fence limit as its conflict.                          *)
EligibleCanBeClaimed ==
    \A j \in Jobs : IsClaimableAt(job[j]) /\ job[j].fence < MaxFence =>
        TransitionAllowed(job[j].state, "LEASED")

(* Of all leases ever handed out for a job one at most is live, and none   *)
(* outlasts the longest lease (LiveOwner's comparison of fences,           *)
(* heartbeat).                                                             *)
LeasesAreExclusive ==
    /\ TypeOK
    /\ OneLiveLease
    /\ LeaseIsBounded

(* What a job ends with is the newest word on it: a result of its newest   *)
(* claim, or the cancellation that was asked for (commit_result, cancel).  *)
ResultsAreCurrent ==
    /\ []AcceptedIsNewestClaim
    /\ CancelIsNotOvertaken
=============================================================================
