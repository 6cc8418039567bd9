--------------------------- MODULE JobQueueProofs ---------------------------
(***************************************************************************)
(* The lease and fence protocol is safe for every number of jobs and       *)
(* workers and every value of the limits.                                  *)
(***************************************************************************)
EXTENDS JobQueue, TLAPS

\* No lease is ahead of the fence of its row.
LeaseNotAhead == \A l \in leases : l.fence <= job[l.job].fence

\* A fence is handed out once.
FenceHandedOutOnce ==
    \A l, m \in leases : l.job = m.job /\ l.fence = m.fence => l = m

\* An accepted result is the end of its job, at the row's current fence.
AcceptedIsFinal ==
    \A j \in Jobs : \A a \in accepted[j] :
        a \in leases /\ a.job = j /\ a.fence = job[j].fence /\ job[j].state = "SUCCEEDED"

(* The inductive invariant: OneLiveLease and AcceptedIsNewestClaim speak of *)
(* leases only, and hold because a fence is handed out once and only grows. *)
IInv ==
    /\ TypeOK
    /\ LeaseNotAhead
    /\ FenceHandedOutOnce
    /\ AcceptedIsFinal
    /\ LeaseIsBounded

(* A released row is a row without a lease and with the same fence.         *)
LEMMA ReleasedRow ==
  ASSUME NEW r \in Row, NEW s \in States
  PROVE  /\ Released(r, s) \in Row
         /\ Released(r, s).fence = r.fence
         /\ Released(r, s).state = s
         /\ Released(r, s).left = 0
  BY DEF Row, Released

(* A claimed row has the next fence, a bounded lease and the new owner.     *)
LEMMA ClaimedRow ==
  ASSUME NEW r \in Row, NEW w \in Workers, NEW d \in Requests, r.fence < MaxFence
  PROVE  /\ Claimed(r, w, d) \in Row
         /\ Claimed(r, w, d).fence = r.fence + 1
         /\ Claimed(r, w, d).state = "LEASED"
         /\ Claimed(r, w, d).owner = w
         /\ Claimed(r, w, d).left <= MaxLease
  <1>1. NextAttempt(r.attempt) \in 0..MaxAttempts
    BY QueueAssumption DEF NextAttempt, Row, Clamp
  <1>2. Clamp(d, MaxLease) \in 0..MaxLease
    BY QueueAssumption DEF Clamp
  <1>3. r.fence + 1 \in 0..MaxFence /\ Clamp(d, MaxLease) \in Nat
    BY <1>2, QueueAssumption DEF Row
  <1>4. Claimed(r, w, d) \in Row
    BY <1>1, <1>3 DEF Claimed, Row, States
  <1>5. /\ Claimed(r, w, d).fence = r.fence + 1
        /\ Claimed(r, w, d).state = "LEASED"
        /\ Claimed(r, w, d).owner = w
        /\ Claimed(r, w, d).left = Clamp(d, MaxLease)
    BY DEF Claimed, Row
  <1> QED
    BY <1>2, <1>4, <1>5

LEMMA InitInv == Init => IInv
  BY QueueAssumption
  DEF Init, NewJob, IInv, TypeOK, Row, States, LeaseNotAhead, FenceHandedOutOnce,
      AcceptedIsFinal, LeaseIsBounded

(* A step that hands out no lease, accepts nothing, keeps the fences and    *)
(* moves no succeeded job preserves the invariant.                          *)
LEMMA QuietStep ==
  ASSUME IInv, job' \in [Jobs -> Row], token' \in [Jobs -> BOOLEAN],
         UNCHANGED <<leases, accepted>>,
         \A j \in Jobs : /\ job'[j].fence = job[j].fence
                         /\ job'[j].left <= MaxLease
                         /\ job[j].state = "SUCCEEDED" => job'[j].state = "SUCCEEDED"
  PROVE  IInv'
  BY DEF IInv, TypeOK, LeaseNotAhead, FenceHandedOutOnce, AcceptedIsFinal,
         LeaseIsBounded, Lease

(* A step that claims the row r of job j preserves the invariant.           *)
LEMMA ClaimStep ==
  ASSUME IInv, NEW j \in Jobs, NEW r \in Row, NEW w \in Workers, NEW d \in Requests,
         r.fence = job[j].fence, r.fence < MaxFence, job[j].state # "SUCCEEDED",
         job' = [job EXCEPT ![j] = Claimed(r, w, d)],
         leases' = leases \cup {LeaseOf(j, Claimed(r, w, d))},
         UNCHANGED <<token, accepted>>
  PROVE  IInv'
  <1> DEFINE c == Claimed(r, w, d)
             l == LeaseOf(j, c)
  <1>1. /\ c \in Row /\ c.fence = r.fence + 1 /\ c.owner = w /\ c.left <= MaxLease
    BY ClaimedRow
  <1>2. l \in Lease /\ l.job = j /\ l.fence = job[j].fence + 1
    BY <1>1 DEF LeaseOf, Lease, Row, IInv, TypeOK
  <1> HIDE DEF c, l
  <1>3. job' = [job EXCEPT ![j] = c] /\ leases' = leases \cup {l}
    BY DEF c, l
  <1>4. TypeOK'
    BY <1>1, <1>2, <1>3 DEF IInv, TypeOK
  <1>5. \A m \in leases : m.fence \in Nat /\ m.job \in Jobs /\ job[m.job].fence \in Nat
    BY DEF IInv, TypeOK, Lease, Row
  <1>6. LeaseNotAhead'
    <2>1. job'[j] = c /\ \A i \in Jobs : i # j => job'[i] = job[i]
      BY <1>3 DEF IInv, TypeOK
    <2>2. \A m \in leases : m.fence <= job'[m.job].fence
      BY <1>1, <1>5, <2>1 DEF IInv, LeaseNotAhead
    <2>3. l.fence <= job'[l.job].fence
      BY <1>1, <1>2, <2>1 DEF IInv, TypeOK, Row
    <2> QED
      BY <1>3, <2>2, <2>3 DEF LeaseNotAhead
  <1>7. FenceHandedOutOnce'
    BY <1>2, <1>3, <1>5 DEF IInv, LeaseNotAhead, FenceHandedOutOnce
  <1>8. AcceptedIsFinal'
    BY <1>3 DEF IInv, TypeOK, AcceptedIsFinal
  <1>9. LeaseIsBounded'
    BY <1>1, <1>3 DEF IInv, TypeOK, LeaseIsBounded
  <1> QED
    BY <1>4, <1>6, <1>7, <1>8, <1>9 DEF IInv

LEMMA NextInv ==
  ASSUME IInv, [Next]_vars
  PROVE  IInv'
  <1> USE QueueAssumption
  <1>t. /\ job \in [Jobs -> Row] /\ token \in [Jobs -> BOOLEAN]
        /\ \A l \in leases : l \in Lease /\ l.job \in Jobs
        /\ \A j \in Jobs : job[j].left <= MaxLease
    BY DEF IInv, TypeOK, Lease, LeaseIsBounded
  <1>1. ASSUME NEW w \in Workers, NEW j \in Jobs, NEW d \in Requests, Claim(w, j, d)
        PROVE  IInv'
    <2>1. job[j] \in Row /\ job[j].state # "SUCCEEDED"
      BY <1>1, <1>t DEF Claim, IsClaimableAt
    <2> QED
      BY <1>1, <2>1, ClaimStep DEF Claim
  <1>2. ASSUME NEW w \in Workers, NEW j \in Jobs, NEW d \in Requests, ReclaimExpired(w, j, d)
        PROVE  IInv'
    <2> DEFINE r == [Released(job[j], "PENDING") EXCEPT !.wait = 0]
    <2>1. r \in Row /\ r.fence = job[j].fence /\ r.left = 0 /\ job[j].state # "SUCCEEDED"
      BY <1>2, <1>t, ReleasedRow DEF ReclaimExpired, IsReclaimable, HoldsLease, Row, States
    <2> HIDE DEF r
    <2>2. CASE r.fence < MaxFence
      BY <1>2, <2>1, <2>2, ClaimStep DEF ReclaimExpired, r
    <2>3. CASE ~(r.fence < MaxFence)
      <3>1. job' = [job EXCEPT ![j] = r] /\ UNCHANGED <<leases, token, accepted>>
        BY <1>2, <2>3 DEF ReclaimExpired, r
      <3> QED
        BY <1>t, <2>1, <3>1, QuietStep
    <2> QED
      BY <2>2, <2>3
  <1>3. ASSUME NEW l \in leases, StartRunning(l) PROVE IInv'
    <2>1. job' \in [Jobs -> Row]
      BY <1>3, <1>t DEF StartRunning, Row, States
    <2> QED
      BY <1>3, <1>t, <2>1, QuietStep
      DEF StartRunning, Row, TransitionAllowed, IsTerminal
  <1>4. ASSUME NEW l \in leases, NEW e \in Requests, Heartbeat(l, e) PROVE IInv'
    <2> DEFINE n == Clamp(job[l.job].left + Clamp(e, MaxExtension), MaxLease)
    <2>1. n \in 0..MaxLease
      BY <1>t DEF Row, Clamp
    <2> HIDE DEF n
    <2>2. job' = [job EXCEPT ![l.job].left = n] /\ UNCHANGED <<leases, token, accepted>>
      BY <1>4 DEF Heartbeat, n
    <2>3. job' \in [Jobs -> Row]
      BY <1>t, <2>1, <2>2 DEF Row
    <2> QED
      BY <1>t, <2>1, <2>2, <2>3, QuietStep DEF Row
  <1>5. ASSUME NEW l \in leases, CommitResult(l) PROVE IInv'
    <2> DEFINE r == Released(job[l.job], "SUCCEEDED")
    <2>1. /\ r \in Row /\ r.fence = job[l.job].fence
          /\ r.state = "SUCCEEDED" /\ r.left = 0
      BY <1>t, ReleasedRow DEF States
    <2> HIDE DEF r
    <2>2. /\ job' = [job EXCEPT ![l.job] = r]
          /\ accepted' = [accepted EXCEPT ![l.job] = @ \cup {l}]
          /\ UNCHANGED <<leases, token>>
          /\ l.fence = job[l.job].fence
      BY <1>5 DEF CommitResult, LiveOwner, r
    <2>3. TypeOK'
      BY <1>t, <2>1, <2>2 DEF IInv, TypeOK
    <2>4. LeaseNotAhead' /\ FenceHandedOutOnce' /\ LeaseIsBounded'
      BY <1>t, <2>1, <2>2
      DEF IInv, LeaseNotAhead, FenceHandedOutOnce, LeaseIsBounded
    <2>5. AcceptedIsFinal'
      BY <1>t, <2>1, <2>2 DEF IInv, TypeOK, AcceptedIsFinal
    <2> QED
      BY <2>3, <2>4, <2>5 DEF IInv
  <1>6. ASSUME NEW l \in leases, NEW t \in BOOLEAN, NEW d \in Delays, FailAttempt(l, t, d)
        PROVE  IInv'
    <2> DEFINE r == IF DecidesRetry(t, job[l.job].attempt)
                    THEN [Released(job[l.job], "RETRY_WAIT") EXCEPT !.wait = d]
                    ELSE Released(job[l.job], "FAILED")
    <2>1. r \in Row /\ r.fence = job[l.job].fence /\ r.left = 0
      BY <1>t, ReleasedRow DEF Row, States
    <2> HIDE DEF r
    <2>2. /\ job' = [job EXCEPT ![l.job] = r] /\ UNCHANGED <<leases, token, accepted>>
          /\ job[l.job].state # "SUCCEEDED"
      BY <1>6 DEF FailAttempt, r
    <2> QED
      BY <1>t, <2>1, <2>2, QuietStep
  <1>7. ASSUME NEW j \in Jobs, RequestCancel(j) PROVE IInv'
    <2>1. CASE HoldsLease(job[j].state)
      <3>1. job' \in [Jobs -> Row]
        BY <1>7, <1>t, <2>1 DEF RequestCancel, Row, States
      <3>2. token' \in [Jobs -> BOOLEAN]
        BY <1>7, <1>t, <2>1, Zenon DEF RequestCancel
      <3> QED
        BY <1>7, <1>t, <2>1, <3>1, <3>2, QuietStep DEF RequestCancel, HoldsLease, Row
    <2>2. CASE ~HoldsLease(job[j].state)
      <3> DEFINE r == Released(job[j], "CANCELLED")
      <3>1. r \in Row /\ r.fence = job[j].fence /\ r.left = 0
        BY <1>t, ReleasedRow DEF States
      <3> HIDE DEF r
      <3>2. /\ job' = [job EXCEPT ![j] = r] /\ UNCHANGED <<leases, token, accepted>>
            /\ job[j].state # "SUCCEEDED"
        BY <1>7, <2>2 DEF RequestCancel, TransitionAllowed, IsTerminal, r
      <3> QED
        BY <1>t, <3>1, <3>2, QuietStep
    <2> QED
      BY <2>1, <2>2
  <1>8. ASSUME NEW j \in Jobs, NEW s \in {"CANCELLED", "CANCEL_REQUESTED"},
               job[j].state # "SUCCEEDED", job' = [job EXCEPT ![j] = Released(@, s)],
               UNCHANGED <<leases, token, accepted>>
        PROVE  IInv'
    <2> DEFINE r == Released(job[j], s)
    <2>1. r \in Row /\ r.fence = job[j].fence /\ r.left = 0
      BY <1>t, ReleasedRow DEF States
    <2> HIDE DEF r
    <2>2. job' = [job EXCEPT ![j] = r]
      BY <1>8 DEF r
    <2> QED
      BY <1>8, <1>t, <2>1, <2>2, QuietStep
  <1>9. ASSUME NEW j \in Jobs, AcknowledgeCancel(j) \/ CancelPendingNow(j) \/ QueueCancel(j)
        PROVE  IInv'
    BY <1>8, <1>9
    DEF AcknowledgeCancel, CancelPendingNow, QueueCancel, TransitionAllowed, IsTerminal
  <1>10. ASSUME NEW j \in Jobs, QueueRetry(j) PROVE IInv'
    <2> DEFINE r == Requeued(job[j])
    <2>1. NextAttempt(job[j].attempt) \in 0..MaxAttempts
      BY <1>t DEF NextAttempt, Row, Clamp
    <2>2. r \in Row /\ r.fence = job[j].fence /\ r.left = 0
      <3> DEFINE q == Released(job[j], "PENDING")
      <3>1. q \in Row /\ q.fence = job[j].fence /\ q.left = 0
        BY <1>t, ReleasedRow DEF States
      <3>2. r = [q EXCEPT !.attempt = NextAttempt(job[j].attempt), !.wait = 0]
        BY DEF Requeued
      <3> HIDE DEF q, r
      <3> QED
        BY <2>1, <3>1, <3>2 DEF Row
    <2> HIDE DEF r
    <2>3. /\ job' = [job EXCEPT ![j] = r] /\ UNCHANGED <<leases, token, accepted>>
          /\ job[j].state # "SUCCEEDED"
      BY <1>10 DEF QueueRetry, r
    <2> QED
      BY <1>t, <2>2, <2>3, QuietStep
  <1>11. CASE Tick
    <2> DEFINE t(j) == [job[j] EXCEPT !.left = Sooner(job[j].left), !.wait = Sooner(job[j].wait)]
    <2>1. \A n \in Nat : Sooner(n) \in Nat /\ Sooner(n) <= n
      BY DEF Sooner
    <2>2. ASSUME NEW j \in Jobs
          PROVE  /\ t(j) \in Row /\ t(j).fence = job[j].fence
                 /\ t(j).state = job[j].state /\ t(j).left <= MaxLease
      <3>1. job[j] \in Row /\ job[j].left \in Nat /\ job[j].wait \in Nat /\ job[j].left <= MaxLease
        BY <1>t DEF Row
      <3>2. /\ Sooner(job[j].left) \in Nat /\ Sooner(job[j].wait) \in Nat
            /\ Sooner(job[j].left) <= MaxLease
        BY <2>1, <3>1
      <3> QED
        BY <3>1, <3>2 DEF Row
    <2>3. job' = [j \in Jobs |-> t(j)] /\ UNCHANGED <<leases, token, accepted>>
      BY <1>11 DEF Tick
    <2> HIDE DEF t
    <2> QED
      BY <1>t, <2>2, <2>3, QuietStep
  <1>12. CASE UNCHANGED vars
    BY <1>12, <1>t, QuietStep DEF vars
  <1> QED
    BY <1>1, <1>2, <1>3, <1>4, <1>5, <1>6, <1>7, <1>9, <1>10, <1>11, <1>12 DEF Next

LEMMA InvariantHolds == Spec => []IInv
  <1>1. IInv /\ [Next]_vars => IInv'
    BY NextInv
  <1> QED
    BY InitInv, <1>1, PTL DEF Spec

(* Type correctness of the rows, the leases and the history.                *)
THEOREM QueueTypes == Spec => []TypeOK
  <1>1. IInv => TypeOK
    BY DEF IInv
  <1> QED
    BY InvariantHolds, <1>1, PTL

(* Whatever claims, expiries, reclaims, cancellations and operator commands *)
(* happen, at most one lease of a job passes ensure_live_owner.             *)
THEOREM LeaseExclusion == Spec => []OneLiveLease
  <1>1. IInv => OneLiveLease
    BY DEF IInv, FenceHandedOutOnce, OneLiveLease, LiveOwner
  <1> QED
    BY InvariantHolds, <1>1, PTL

(* commit_result accepts only the newest claim of a job, and no claim       *)
(* follows an accepted result.                                              *)
THEOREM NoStaleResult == Spec => []AcceptedIsNewestClaim
  <1>1. IInv => AcceptedIsNewestClaim
    BY QueueAssumption
    DEF IInv, TypeOK, Lease, Row, LeaseNotAhead, FenceHandedOutOnce, AcceptedIsFinal,
        AcceptedIsNewestClaim
  <1> QED
    BY InvariantHolds, <1>1, PTL

(* No sequence of heartbeats makes a lease outlive MAX_LEASE_MS from now.   *)
THEOREM BoundedLease == Spec => []LeaseIsBounded
  <1>1. IInv => LeaseIsBounded
    BY DEF IInv
  <1> QED
    BY InvariantHolds, <1>1, PTL

(* A step on a row in CANCEL_REQUESTED leaves it there or cancels it.       *)
LEMMA CancelStep ==
  ASSUME TypeOK, Next, NEW j \in Jobs, job[j].state = "CANCEL_REQUESTED"
  PROVE  job'[j].state \in {"CANCEL_REQUESTED", "CANCELLED"}
  <1>t. /\ job \in [Jobs -> Row] /\ job[j] \in Row
        /\ \A l \in leases : l.job \in Jobs
    BY DEF TypeOK, Lease
  <1>1. \A i \in Jobs : \A r :
            job' = [job EXCEPT ![i] = r] /\ i # j => job'[j] = job[j]
    BY <1>t
  <1>2. \A i \in Jobs, w \in Workers, d \in Requests :
            Claim(w, i, d) \/ ReclaimExpired(w, i, d) => job'[j] = job[j]
    BY <1>1, <1>t DEF Claim, ReclaimExpired, IsClaimableAt, IsReclaimable, HoldsLease
  <1>3. \A l \in leases : StartRunning(l) \/ CommitResult(l) => job'[j] = job[j]
    BY <1>1, <1>t DEF StartRunning, CommitResult, TransitionAllowed, AllowedTransitions
  <1>4. \A l \in leases, e \in Requests : Heartbeat(l, e) => job'[j] = job[j]
    BY <1>1, <1>t DEF Heartbeat, HoldsLease
  <1>5. \A l \in leases, t \in BOOLEAN, d \in Delays : FailAttempt(l, t, d) => job'[j] = job[j]
    BY <1>1, <1>t DEF FailAttempt
  <1>6. \A i \in Jobs : RequestCancel(i) \/ CancelPendingNow(i) \/ QueueRetry(i) \/ QueueCancel(i)
            => job'[j] = job[j]
    BY <1>1, <1>t DEF RequestCancel, CancelPendingNow, QueueRetry, QueueCancel,
                      TransitionAllowed, AllowedTransitions
  <1>7. \A i \in Jobs : AcknowledgeCancel(i) =>
            job'[j] = job[j] \/ job'[j].state = "CANCELLED"
    BY <1>1, <1>t DEF AcknowledgeCancel, Released, Row
  <1>8. Tick => job'[j].state = job[j].state
    BY <1>t DEF Tick, Row
  <1> QED
    BY <1>2, <1>3, <1>4, <1>5, <1>6, <1>7, <1>8 DEF Next

(* A worker that finishes, fails or renews after the request cannot bring   *)
(* the job back (cancel.rs, ack.rs, heartbeat.rs, recover.rs).              *)
THEOREM CancelSticks == Spec => CancelIsNotOvertaken
  <1> DEFINE Sticks == \A j \in Jobs : job[j].state = "CANCEL_REQUESTED" =>
                           job'[j].state \in {"CANCEL_REQUESTED", "CANCELLED"}
  <1>1. TypeOK /\ [Next]_vars => [Sticks]_vars
    BY CancelStep
  <1> QED
    BY QueueTypes, <1>1, PTL DEF Spec, CancelIsNotOvertaken

(* Leases exclude each other and are bounded, for any jobs, workers and    *)
(* durations (claim, heartbeat, recover).                                  *)
THEOREM LeasesExclude == Spec => []LeasesAreExclusive
  BY QueueTypes, LeaseExclusion, BoundedLease, PTL DEF LeasesAreExclusive

(* No late result and no overtaken cancellation, for any jobs, workers and *)
(* durations (commit_result, cancel, queue retry).                         *)
THEOREM NewestWordCounts == Spec => ResultsAreCurrent
  BY NoStaleResult, CancelSticks, PTL DEF ResultsAreCurrent
=============================================================================
