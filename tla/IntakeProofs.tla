---------------------------- MODULE IntakeProofs ----------------------------
(***************************************************************************)
(* What is promised of a change on its way into the index, for any number  *)
(* of paths, scopes, slots, openers and mutations: the burst of hints      *)
(* (Burst), the intents, their runs and the freshness barrier (Admission), *)
(* the schema ledger and the writer actor of the store (Store), and the    *)
(* watch between the editor and the inventory (Watch).                     *)
(***************************************************************************)
EXTENDS Burst, Admission, Store, Watch, FiniteSetTheorems, WellFoundedInduction, TLAPS

-----------------------------------------------------------------------------
(* The burst of hints. *)

\* The oldest path of the buffer is as old as the clock says, and no other is older.
ClockIsOldest == \A p \in held : age[p] <= first

BurstInv == BurstIsHandled /\ ClockIsOldest

LEMMA BurstStarts == BurstInit => BurstInv
  <1> SUFFICES ASSUME BurstInit PROVE BurstInv
    OBVIOUS
  <1>1. Cardinality(held) = 0 /\ Cardinality(distinct) = 0
    BY FS_EmptySet, Zenon DEF BurstInit
  <1>2. BurstTypeOK
    <2>1. Cardinality(held) <= MaxHeld /\ Cardinality(distinct) < HighWater
      BY <1>1, BurstAssumption
    <2>2. age \in [Files -> 0..MaxWait + 1] /\ first \in 0..MaxWait /\ last \in 0..first
      BY BurstAssumption DEF BurstInit
    <2> QED
      BY <2>1, <2>2 DEF BurstInit, BurstTypeOK
  <1> QED
    BY <1>2 DEF BurstInit, BurstInv, BurstIsHandled, BurstIsAccountedFor, WaitIsBounded, ClockIsOldest

\* A set that gets one more path.
LEMMA OneMore ==
  ASSUME NEW S \in SUBSET Files, NEW p \in Files
  PROVE  /\ Cardinality(S) \in Nat /\ Cardinality(S \cup {p}) \in Nat
         /\ p \in S => Cardinality(S \cup {p}) = Cardinality(S)
         /\ p \notin S => Cardinality(S \cup {p}) = Cardinality(S) + 1
  <1>1. IsFiniteSet(S)
    BY FS_Subset, BurstAssumption
  <1>2. IsFiniteSet(S \cup {p})
    BY <1>1, FS_AddElement
  <1> QED
    BY <1>1, <1>2, FS_CardinalityType, FS_AddElement

LEMMA BurstStep == ASSUME BurstInv, [BurstNext]_bvars PROVE BurstInv'
  <1> USE BurstAssumption
      DEF BurstInv, BurstIsHandled, BurstIsAccountedFor, WaitIsBounded, BurstTypeOK, ClockIsOldest
  <1>0. \A S : S = {} => Cardinality(S) = 0
    BY FS_EmptySet, Zenon
  <1>1. ASSUME NEW p \in Files, NotePath(p) PROVE BurstInv'
    <2>1. CASE p \notin held /\ Cardinality(held) >= MaxHeld
      BY <1>1, <2>1 DEF NotePath
    <2>2. CASE ~(p \notin held /\ Cardinality(held) >= MaxHeld)
      <3>1. Cardinality(held \cup {p}) <= MaxHeld
        BY <2>2, OneMore
      <3>2. Cardinality(held') <= MaxHeld
        <4>1. held' = held \cup {p}
          BY <1>1, <2>2 DEF NotePath
        <4> QED
          BY <3>1, <4>1, Zenon
      <3>3. WaitIsBounded' /\ ClockIsOldest'
        BY <1>1, <2>2, <3>2 DEF NotePath
      <3>4. BurstIsAccountedFor'
        BY <1>1, <2>2 DEF NotePath
      <3> QED
        BY <3>3, <3>4
    <2> QED
      BY <2>1, <2>2
  <1>2. CASE BurstTick
    BY <1>2 DEF BurstTick, Due
  <1>3. ASSUME NEW now \in BOOLEAN, TakeBatch(now) PROVE BurstInv'
    BY <1>0, <1>3 DEF TakeBatch
  <1>4. ASSUME NEW p \in Files, NoteDirty(p) PROVE BurstInv'
    <2>1. Cardinality(distinct \cup {p}) \in Nat
      BY OneMore
    <2>2. Cardinality(distinct') < HighWater
      <3>1. CASE distinct' = distinct
        BY <3>1
      <3>2. CASE distinct' = {}
        BY <1>0, <3>2
      <3>3. CASE distinct' = distinct \cup {p} /\ ~(Cardinality(distinct \cup {p}) >= HighWater)
        <4>1. Cardinality(distinct') = Cardinality(distinct \cup {p})
          BY <3>3, Zenon
        <4> QED
          BY <2>1, <3>3, <4>1
      <3> QED
        BY <1>4, <3>1, <3>2, <3>3 DEF NoteDirty
    <2>3. WaitIsBounded' /\ ClockIsOldest'
      BY <1>4, <2>2 DEF NoteDirty
    <2>4. BurstIsAccountedFor'
      BY <1>4, <2>1 DEF NoteDirty
    <2> QED
      BY <2>3, <2>4
  <1>5. CASE TakeDirty \/ AcknowledgeFullScan \/ RunScan
    <2>1. WaitIsBounded' /\ ClockIsOldest'
      <3>1. Cardinality(distinct') < HighWater
        BY <1>0, <1>5 DEF TakeDirty, AcknowledgeFullScan, RunScan
      <3> QED
        BY <1>5, <3>1 DEF TakeDirty, AcknowledgeFullScan, RunScan
    <2>2. BurstIsAccountedFor'
      BY <1>5 DEF TakeDirty, AcknowledgeFullScan, RunScan
    <2> QED
      BY <2>1, <2>2
  <1>6. CASE UNCHANGED bvars
    BY <1>6 DEF bvars
  <1> QED
    BY <1>1, <1>2, <1>3, <1>4, <1>5, <1>6 DEF BurstNext

(* For every number of paths and every pair of bounds: a path that changed *)
(* is on its way or covered by a scan, none waits longer than the maximum, *)
(* and debouncer and tracker stay within their capacity (Debouncer::note,  *)
(* take and flush_now, DirtyPressure::note, take, acknowledge_full_scan).  *)
THEOREM BurstKept == BurstSpec => []BurstIsHandled
  <1>1. BurstInv /\ [BurstNext]_bvars => BurstInv'
    BY BurstStep
  <1>2. BurstInv => BurstIsHandled
    BY DEF BurstInv
  <1> QED
    BY BurstStarts, <1>1, <1>2, PTL DEF BurstSpec

-----------------------------------------------------------------------------
(* Intents, runs and the freshness barrier. *)

\* Nothing is ahead of the event sequence, and an index is not ahead of its input.
SequenceLeads(s) ==
    /\ latest[s] <= seq /\ indexed[s].upto <= seq /\ pending[s].target <= seq
    /\ work[s].target <= seq /\ indexed[s].saw <= latest[s]
    /\ dirty[s].indexed <= dirty[s].desired /\ dirty[s].desired <= seq
    /\ dirty[s].desired = 0 => latest[s] = 0

\* A run that was overtaken by a change knows less than the scope's generation, and the change
\* has its intent; one that was not overtaken has read the present input.
RunIsTimed(s) ==
    work[s].at # "idle" =>
        /\ work[s].gen # dirty[s].desired =>
              /\ dirty[s].indexed # dirty[s].desired
              /\ pending[s].on /\ pending[s].target >= latest[s]
        /\ work[s].gen <= dirty[s].desired
        /\ work[s].at = "read" =>
              /\ work[s].gen = dirty[s].desired => work[s].saw = latest[s]
              /\ work[s].saw >= indexed[s].saw /\ work[s].saw <= latest[s]

\* A row's target is a promise about the input its run reads: who reaches the newest event of a
\* scope has seen it.
TargetIsSeen(s) ==
    /\ indexed[s].upto >= latest[s] => indexed[s].saw >= latest[s]
    /\ work[s].at = "read" /\ work[s].target >= latest[s] => work[s].saw >= latest[s]

\* The same for the event up to which a barrier asks, of which later changes know nothing.
BarrierIsSeen(s) ==
    s \in barrier.scopes =>
        /\ barrier.want[s] <= latest[s]
        /\ indexed[s].upto >= barrier.target => indexed[s].saw >= barrier.want[s]
        /\ work[s].at = "read" /\ work[s].target >= barrier.target => work[s].saw >= barrier.want[s]
        /\ barrier.at = "verified" => indexed[s].upto >= barrier.target

\* CleanIsCurrent and DirtyIsScheduled, of one scope.
ScopeIsCovered(s) ==
    /\ dirty[s].desired = dirty[s].indexed => indexed[s].saw = latest[s]
    /\ dirty[s].desired # dirty[s].indexed =>
          \/ pending[s].on /\ pending[s].target >= latest[s]
          \/ work[s].at # "idle" /\ work[s].target >= latest[s]

ScopeInv(s) ==
    /\ ScopeIsCovered(s)
    /\ SequenceLeads(s)
    /\ RunIsTimed(s)
    /\ TargetIsSeen(s)
    /\ BarrierIsSeen(s)

AdmissionInv == AdmissionTypeOK /\ \A s \in Scopes : ScopeInv(s)

Seqs == 0..MaxSeq
Rows == [on : BOOLEAN, target : Seqs, priority : Nat, age : 0..MaxAge, due : -MaxAge..MaxDelay]
Runs == [at : {"idle", "started", "read"}, target : Seqs, gen : Seqs, saw : Seqs, took : 0..Service]
Windows == [at : {"none", "waiting", "window", "verified"}, scopes : SUBSET Scopes,
            target : Seqs, want : [Scopes -> Seqs], before : Seqs]

\* The type invariant, by its parts.
AdmissionTypes ==
    /\ seq \in Seqs /\ latest \in [Scopes -> Seqs]
    /\ dirty \in [Scopes -> [desired : Seqs, indexed : Seqs]]
    /\ pending \in [Scopes -> Rows] /\ work \in [Scopes -> Runs]
    /\ indexed \in [Scopes -> [upto : Seqs, saw : Seqs]]
    /\ barrier \in Windows

LEMMA TypesByParts == AdmissionTypeOK <=> AdmissionTypes /\ Cardinality(Active) <= Slots
  BY DEF AdmissionTypeOK, AdmissionTypes, Seqs, Rows, Runs, Windows

\* An intent joins its row: the target becomes no smaller, and reaches what was asked for.
LEMMA EnqueuedRow ==
  ASSUME NEW row \in Rows, NEW target \in Seqs, NEW priority \in Nat, NEW delay \in 0..MaxDelay
  PROVE  /\ Enqueued(row, target, priority, delay) \in Rows
         /\ Enqueued(row, target, priority, delay).on = TRUE
         /\ Enqueued(row, target, priority, delay).target >= target
         /\ row.on => Enqueued(row, target, priority, delay).target >= row.target
         /\ \/ Enqueued(row, target, priority, delay).target = target
            \/ Enqueued(row, target, priority, delay).target = row.target
  <1>1. CASE row.on
    <2> DEFINE t == AtLeast(row.target, target)
               p == AtLeast(row.priority, priority)
               d == AtMost(row.due, delay)
    <2>1. Enqueued(row, target, priority, delay)
            = [row EXCEPT !.target = t, !.priority = p, !.due = d]
      BY <1>1 DEF Enqueued, Coalesce
    <2>2. /\ t \in Seqs /\ t >= target /\ t >= row.target /\ t \in {target, row.target}
          /\ p \in Nat /\ d \in -MaxAge..MaxDelay
      BY AdmissionAssumption DEF AtLeast, AtMost, Rows, Seqs
    <2> HIDE DEF t, p, d
    <2> QED
      BY <1>1, <2>1, <2>2 DEF Rows
  <1>2. CASE ~row.on
    BY <1>2, AdmissionAssumption DEF Enqueued, Rows, Seqs
  <1> QED
    BY <1>1, <1>2

LEMMA AdmissionStarts == AdmissionInit => AdmissionInv
  <1> SUFFICES ASSUME AdmissionInit PROVE AdmissionInv
    OBVIOUS
  <1> USE AdmissionAssumption DEF AdmissionInit, NoIntent, Idle, NoBarrier
  <1>1. Active = {}
    BY DEF Active
  <1>2. Cardinality(Active) <= Slots
    <2>1. Cardinality(Active) = 0
      BY <1>1, FS_EmptySet, Zenon
    <2> QED
      BY <2>1
  <1>3. AdmissionTypeOK
    BY <1>2 DEF AdmissionTypeOK
  <1> QED
    BY <1>3
    DEF AdmissionInv, ScopeInv, ScopeIsCovered, SequenceLeads, RunIsTimed, TargetIsSeen, BarrierIsSeen

\* The batches in flight are counted against the limit before another one starts.
LEMMA SlotsAreKept ==
  ASSUME AdmissionInv, AdmissionNext
  PROVE  Cardinality(Active') <= Slots
  <1> USE AdmissionAssumption DEF AdmissionInv, AdmissionTypeOK
  <1>1. IsFiniteSet(Active) /\ Cardinality(Active) \in Nat
    <2>1. IsFiniteSet(Scopes)
      BY FS_Interval DEF Scopes
    <2>2. Active \subseteq Scopes
      BY DEF Active
    <2> QED
      BY <2>1, <2>2, FS_Subset, FS_CardinalityType
  <1>2. ASSUME NEW s \in Scopes, Start(s) PROVE Cardinality(Active') <= Slots
    <2>1. Active' \subseteq Active \cup {s}
      BY <1>2 DEF Active, Start
    <2>2. IsFiniteSet(Active \cup {s}) /\ Cardinality(Active \cup {s}) <= Cardinality(Active) + 1
      <3>1. Cardinality(Active \cup {s}) = Cardinality(Active)
            \/ Cardinality(Active \cup {s}) = Cardinality(Active) + 1
        BY <1>1, FS_AddElement
      <3>2. IsFiniteSet(Active \cup {s})
        BY <1>1, FS_AddElement
      <3> QED
        BY <1>1, <3>1, <3>2
    <2>3. Cardinality(Active') <= Cardinality(Active \cup {s}) /\ Cardinality(Active') \in Nat
          /\ Cardinality(Active \cup {s}) \in Nat
      BY <2>1, <2>2, FS_Subset, FS_CardinalityType
    <2>4. Cardinality(Active) < Slots
      BY <1>2 DEF Start, CanStart
    <2> QED
      BY <1>1, <2>2, <2>3, <2>4
  <1>3. ASSUME Active' \subseteq Active PROVE Cardinality(Active') <= Slots
    <2>1. Cardinality(Active') <= Cardinality(Active) /\ Cardinality(Active') \in Nat
      BY <1>1, <1>3, FS_Subset, FS_CardinalityType
    <2> QED
      BY <1>1, <2>1
  <1>4. ASSUME NEW s \in Scopes, ReadInput(s) \/ Finish(s) PROVE Active' \subseteq Active
    BY <1>4 DEF Active, ReadInput, Finish, Idle
  <1>5. CASE Pass
    <2>1. Active' \subseteq Active
      BY <1>5 DEF Active, Pass
    <2> QED
      BY <1>3, <2>1
  <1>6. CASE UNCHANGED work
    <2>1. Active' \subseteq Active
      BY <1>6 DEF Active
    <2> QED
      BY <1>3, <2>1
  <1> QED
    BY <1>2, <1>3, <1>4, <1>5, <1>6
    DEF AdmissionNext, Engine, Change, Recur, RequestBarrier, OpenWindow, GiveUp, Evaluate

LEMMA AdmissionStep == ASSUME AdmissionInv, [AdmissionNext]_avars PROVE AdmissionInv'
  <1>0. AdmissionTypes
    BY TypesByParts DEF AdmissionInv
  <1>1. Cardinality(Active') <= Slots
    <2>1. CASE UNCHANGED avars
      BY <2>1 DEF avars, Active, AdmissionInv, AdmissionTypeOK
    <2> QED
      BY <2>1, SlotsAreKept
  <1> SUFFICES AdmissionTypes' /\ \A t \in Scopes : ScopeInv(t)'
    BY <1>1, TypesByParts DEF AdmissionInv, AdmissionTypeOK, AdmissionTypes, Seqs, Rows, Runs, Windows
  <1> USE AdmissionAssumption DEF Seqs
  <1> DEFINE Goal == AdmissionTypes' /\ \A t \in Scopes : ScopeInv(t)'
  <1>2. ASSUME NEW t \in Scopes
        PROVE  /\ ScopeInv(t)
               /\ latest[t] \in Seqs /\ dirty[t].desired \in Seqs /\ dirty[t].indexed \in Seqs
               /\ pending[t] \in Rows /\ pending[t].target \in Seqs
               /\ work[t].target \in Seqs /\ work[t].gen \in Seqs /\ work[t].saw \in Seqs
               /\ work[t].at \in {"idle", "started", "read"}
               /\ indexed[t].upto \in Seqs /\ indexed[t].saw \in Seqs
               /\ barrier.target \in Seqs /\ barrier.want[t] \in Seqs
    BY <1>0 DEF AdmissionInv, AdmissionTypes, Rows, Runs, Windows
  <1>a. 0 \in 0..MaxDelay /\ Urgent \in Nat /\ \A t \in Scopes : Class[t] \in Nat
    OBVIOUS
  <1>3. ASSUME NEW s \in Scopes, NEW delay \in 0..MaxDelay, Change(s, delay) PROVE Goal
    <2> DEFINE new == Enqueued(pending[s], seq + 1, Class[s], delay)
    <2>1. seq + 1 \in Seqs /\ dirty[s].desired + 1 \in Seqs /\ seq \in Nat
      BY <1>0, <1>2, <1>3 DEF Change, AdmissionTypes, ScopeInv, SequenceLeads
    <2>2. new \in Rows /\ new.on = TRUE /\ new.target = seq + 1
      <3>1. pending[s] \in Rows /\ Class[s] \in Nat /\ pending[s].target <= seq
        BY <1>2 DEF ScopeInv, SequenceLeads
      <3>2. /\ new \in Rows /\ new.on = TRUE /\ new.target >= seq + 1
            /\ new.target = seq + 1 \/ new.target = pending[s].target
        <4> HIDE AdmissionAssumption DEF Seqs
        <4> QED
          BY <1>3, <2>1, <3>1, EnqueuedRow
      <3> QED
        BY <2>1, <3>1, <3>2 DEF Rows
    <2>3. pending' = [pending EXCEPT ![s] = new]
      BY <1>3 DEF Change
    <2> HIDE DEF new
    <2>4. AdmissionTypes'
      BY <1>0, <1>3, <2>1, <2>2, <2>3 DEF Change, AdmissionTypes
    <2>5. ASSUME NEW t \in Scopes PROVE ScopeInv(t)'
      <3>1. CASE t = s
        <4>1. /\ latest'[t] = seq + 1 /\ dirty'[t].desired = dirty[t].desired + 1
              /\ dirty'[t].indexed = dirty[t].indexed /\ pending'[t] = new /\ seq' = seq + 1
              /\ work' = work /\ indexed' = indexed /\ barrier' = barrier
          BY <1>0, <1>3, <2>3, <3>1 DEF Change, AdmissionTypes
        <4> QED
          BY <1>2, <2>1, <2>2, <4>1 DEF ScopeInv, ScopeIsCovered, SequenceLeads, RunIsTimed, TargetIsSeen, BarrierIsSeen
      <3>2. CASE t # s
        <4>1. /\ latest'[t] = latest[t] /\ dirty'[t] = dirty[t] /\ pending'[t] = pending[t]
              /\ seq' = seq + 1 /\ work' = work /\ indexed' = indexed /\ barrier' = barrier
          BY <1>0, <1>3, <2>3, <3>2 DEF Change, AdmissionTypes
        <4> QED
          BY <1>2, <2>1, <4>1 DEF ScopeInv, ScopeIsCovered, SequenceLeads, RunIsTimed, TargetIsSeen, BarrierIsSeen
      <3> QED
        BY <3>1, <3>2
    <2> QED
      BY <2>4, <2>5
  <1>4. ASSUME NEW s \in Scopes, Recur(s) PROVE Goal
    <2> DEFINE new == Enqueued(pending[s], seq, Class[s], 0)
    <2>1. new \in Rows /\ new.on = TRUE /\ new.target = seq
      <3>1. /\ pending[s] \in Rows /\ Class[s] \in Nat /\ pending[s].target <= seq /\ seq \in Seqs
            /\ pending[s].target \in Seqs
        BY <1>0, <1>2 DEF ScopeInv, SequenceLeads, AdmissionTypes
      <3>2. /\ new \in Rows /\ new.on = TRUE /\ new.target >= seq
            /\ new.target = seq \/ new.target = pending[s].target
        <4> HIDE AdmissionAssumption DEF Seqs
        <4> QED
          BY <3>1, <1>a, EnqueuedRow
      <3> QED
        BY <3>1, <3>2
    <2>2. pending' = [pending EXCEPT ![s] = new]
      BY <1>4 DEF Recur
    <2> HIDE DEF new
    <2>3. AdmissionTypes'
      BY <1>0, <1>4, <2>1, <2>2 DEF Recur, AdmissionTypes
    <2>4. ASSUME NEW t \in Scopes PROVE ScopeInv(t)'
      <3>1. /\ pending'[t] = pending[t] \/ (pending'[t].on = TRUE /\ pending'[t].target = seq)
            /\ UNCHANGED <<seq, latest, dirty, work, indexed, barrier>>
        BY <1>0, <1>4, <2>1, <2>2 DEF Recur, AdmissionTypes
      <3> QED
        BY <1>0, <1>2, <3>1 DEF ScopeInv, ScopeIsCovered, SequenceLeads, RunIsTimed, TargetIsSeen, BarrierIsSeen, AdmissionTypes
    <2> QED
      BY <2>3, <2>4
  <1>5. ASSUME NEW s \in Scopes, Start(s) PROVE Goal
    <2>1. NoIntent \in Rows /\ work[s].at = "idle" /\ pending[s].on
      BY <1>5 DEF NoIntent, Rows, Start, CanStart, Ready
    <2> DEFINE run == [at |-> "started", target |-> pending[s].target, gen |-> dirty[s].desired,
                       saw |-> 0, took |-> 0]
    <2>2. run \in Runs
      BY <1>2 DEF Runs
    <2>3. AdmissionTypes'
      BY <1>0, <1>5, <2>1, <2>2 DEF Start, AdmissionTypes
    <2>4. ASSUME NEW t \in Scopes PROVE ScopeInv(t)'
      <3>1. CASE t = s
        <4>1. /\ pending'[t] = NoIntent /\ work'[t] = run
              /\ UNCHANGED <<seq, latest, dirty, indexed, barrier>>
          BY <1>0, <1>5, <3>1 DEF Start, AdmissionTypes
        <4> QED
          BY <1>0, <1>2, <2>1, <3>1, <4>1 DEF ScopeInv, ScopeIsCovered, SequenceLeads, RunIsTimed, TargetIsSeen, BarrierIsSeen, NoIntent, AdmissionTypes
      <3>2. CASE t # s
        <4>1. pending'[t] = pending[t] /\ work'[t] = work[t] /\ UNCHANGED <<seq, latest, dirty, indexed, barrier>>
          BY <1>0, <1>5, <3>2 DEF Start, AdmissionTypes
        <4> QED
          BY <1>2, <4>1 DEF ScopeInv, ScopeIsCovered, SequenceLeads, RunIsTimed, TargetIsSeen, BarrierIsSeen
      <3> QED
        BY <3>1, <3>2
    <2> QED
      BY <2>3, <2>4
  <1>6. ASSUME NEW s \in Scopes, ReadInput(s) PROVE Goal
    <2>1. AdmissionTypes'
      <3>1. work[s] \in Runs /\ latest[s] \in Seqs
        BY <1>0 DEF AdmissionTypes
      <3>2. [work[s] EXCEPT !.at = "read", !.saw = latest[s]] \in Runs
        BY <3>1 DEF Runs
      <3>3. work' = [work EXCEPT ![s] = [work[s] EXCEPT !.at = "read", !.saw = latest[s]]]
        BY <1>0, <1>6 DEF ReadInput, AdmissionTypes, Runs
      <3> QED
        BY <1>0, <1>6, <3>2, <3>3 DEF ReadInput, AdmissionTypes
    <2>2. ASSUME NEW t \in Scopes PROVE ScopeInv(t)'
      <3>1. CASE t = s
        <4>1. /\ work'[t].at = "read" /\ work'[t].saw = latest[t] /\ work'[t].gen = work[t].gen
              /\ work'[t].target = work[t].target /\ work[t].at = "started"
              /\ UNCHANGED <<seq, latest, dirty, pending, indexed, barrier>>
          BY <1>0, <1>6, <3>1 DEF ReadInput, AdmissionTypes, Runs
        <4> QED
          BY <1>2, <4>1 DEF ScopeInv, ScopeIsCovered, SequenceLeads, RunIsTimed, TargetIsSeen, BarrierIsSeen
      <3>2. CASE t # s
        <4>1. work'[t] = work[t] /\ UNCHANGED <<seq, latest, dirty, pending, indexed, barrier>>
          BY <1>0, <1>6, <3>2 DEF ReadInput, AdmissionTypes
        <4> QED
          BY <1>2, <4>1 DEF ScopeInv, ScopeIsCovered, SequenceLeads, RunIsTimed, TargetIsSeen, BarrierIsSeen
      <3> QED
        BY <3>1, <3>2
    <2> QED
      BY <2>1, <2>2
  <1>7. ASSUME NEW s \in Scopes, Finish(s) PROVE Goal
    <2> DEFINE upto == AtLeast(indexed[s].upto, work[s].target)
               done == IF work[s].gen # 0 /\ work[s].gen = dirty[s].desired THEN work[s].gen
                       ELSE dirty[s].indexed
    <2>1. /\ upto \in Seqs /\ upto >= indexed[s].upto /\ upto >= work[s].target
          /\ upto \in {indexed[s].upto, work[s].target} /\ done \in Seqs /\ Idle \in Runs
      BY <1>2 DEF AtLeast, Idle, Runs
    <2>2. /\ dirty' = [dirty EXCEPT ![s].indexed = done] /\ work' = [work EXCEPT ![s] = Idle]
          /\ indexed' = [indexed EXCEPT ![s] = [upto |-> upto, saw |-> work[s].saw]]
          /\ work[s].at = "read" /\ UNCHANGED <<seq, latest, pending, barrier>>
      BY <1>0, <1>7 DEF Finish, AdmissionTypes
    <2>3. AdmissionTypes'
      <3> HIDE DEF upto, done
      <3> QED
        BY <1>0, <1>2, <2>1, <2>2 DEF AdmissionTypes
    <2>4. ASSUME NEW t \in Scopes PROVE ScopeInv(t)'
      <3>1. CASE t = s
        <4>1. /\ dirty'[t].desired = dirty[t].desired /\ dirty'[t].indexed = done
              /\ work'[t].at = "idle" /\ work'[t].target = 0 /\ indexed'[t].upto = upto
              /\ indexed'[t].saw = work[t].saw
          BY <1>0, <2>2, <3>1 DEF AdmissionTypes, Idle
        <4>2. ScopeIsCovered(t)'
          BY <1>2, <2>2, <3>1, <4>1 DEF ScopeInv, ScopeIsCovered, SequenceLeads, RunIsTimed
        <4>3. SequenceLeads(t)' /\ RunIsTimed(t)' /\ TargetIsSeen(t)' /\ BarrierIsSeen(t)'
          <5> HIDE DEF upto
          <5> QED
            BY <1>0, <1>2, <2>1, <2>2, <3>1, <4>1 DEF ScopeInv, ScopeIsCovered, SequenceLeads, RunIsTimed, TargetIsSeen, BarrierIsSeen, AdmissionTypes
        <4> QED
          BY <4>2, <4>3 DEF ScopeInv
      <3>2. CASE t # s
        <4>1. work'[t] = work[t] /\ dirty'[t] = dirty[t] /\ indexed'[t] = indexed[t]
          BY <1>0, <2>2, <3>2 DEF AdmissionTypes
        <4> QED
          BY <1>2, <2>2, <4>1 DEF ScopeInv, ScopeIsCovered, SequenceLeads, RunIsTimed, TargetIsSeen, BarrierIsSeen
      <3> QED
        BY <3>1, <3>2
    <2> QED
      BY <2>3, <2>4
  <1>8. CASE Pass
    <2>1. ASSUME NEW t \in Scopes
          PROVE  /\ pending'[t] \in Rows /\ work'[t] \in Runs
                 /\ pending'[t].on = pending[t].on /\ pending'[t].target = pending[t].target
                 /\ work'[t].at = work[t].at /\ work'[t].target = work[t].target
                 /\ work'[t].gen = work[t].gen /\ work'[t].saw = work[t].saw
      <3>1. pending[t] \in Rows /\ work[t] \in Runs
        BY <1>0 DEF AdmissionTypes
      <3> DEFINE old == AtMost(pending[t].age + 1, MaxAge)
                 due == AtLeast(pending[t].due - 1, -MaxAge)
      <3>2. old \in 0..MaxAge /\ due \in -MaxAge..MaxDelay
        BY <3>1 DEF AtMost, AtLeast, Rows
      <3>3. pending'[t] = IF pending[t].on THEN [pending[t] EXCEPT !.age = old, !.due = due]
                          ELSE pending[t]
        BY <1>8 DEF Pass
      <3>4. work'[t] = IF work[t].at = "idle" THEN work[t]
                       ELSE [work[t] EXCEPT !.took = work[t].took + 1]
        BY <1>8 DEF Pass
      <3>5. work[t].at # "idle" => work[t].took + 1 \in 0..Service
        <4>1. work[t].at # "idle" => work[t].took < Service
          BY <1>8 DEF Pass
        <4> QED
          BY <3>1, <4>1 DEF Runs
      <3> HIDE DEF old, due
      <3>6. /\ pending'[t] \in Rows
            /\ pending'[t].on = pending[t].on /\ pending'[t].target = pending[t].target
        BY <3>1, <3>2, <3>3 DEF Rows
      <3>7. /\ work'[t] \in Runs
            /\ work'[t].at = work[t].at /\ work'[t].target = work[t].target
            /\ work'[t].gen = work[t].gen /\ work'[t].saw = work[t].saw
        BY <3>1, <3>4, <3>5 DEF Runs
      <3> QED
        BY <3>6, <3>7
    <2>2. AdmissionTypes'
      BY <1>0, <1>8, <2>1 DEF Pass, AdmissionTypes
    <2>3. UNCHANGED <<seq, latest, dirty, indexed, barrier>>
      BY <1>8 DEF Pass
    <2>4. ASSUME NEW t \in Scopes PROVE ScopeInv(t)'
      BY <1>2, <2>1, <2>3 DEF ScopeInv, ScopeIsCovered, SequenceLeads, RunIsTimed, TargetIsSeen, BarrierIsSeen
    <2> QED
      BY <2>2, <2>4
  <1>9. ASSUME NEW scopes \in SUBSET Scopes, RequestBarrier(scopes) PROVE Goal
    <2>1. ASSUME NEW t \in Scopes
          PROVE  /\ pending'[t] \in Rows /\ pending'[t].target <= seq
                 /\ pending[t].on => pending'[t].on = TRUE /\ pending'[t].target >= pending[t].target
      <3>1. /\ pending[t] \in Rows /\ pending[t].target <= seq /\ seq \in Seqs
            /\ pending[t].target \in Seqs
        BY <1>0, <1>2 DEF ScopeInv, SequenceLeads, AdmissionTypes
      <3>2. CASE t \notin scopes
        BY <1>9, <3>1, <3>2 DEF RequestBarrier, Rows
      <3>3. CASE t \in scopes
        <4> DEFINE new == Enqueued(pending[t], seq, Urgent, 0)
        <4>1. /\ new \in Rows /\ new.on = TRUE /\ new.target >= seq
              /\ pending[t].on => new.target >= pending[t].target
              /\ new.target = seq \/ new.target = pending[t].target
          <5> HIDE AdmissionAssumption DEF Seqs
          <5> QED
            BY <3>1, <1>a, EnqueuedRow
        <4>2. pending'[t] = new
          BY <1>9, <3>3 DEF RequestBarrier
        <4> HIDE DEF new
        <4> QED
          BY <3>1, <4>1, <4>2
      <3> QED
        BY <3>2, <3>3
    <2>2. /\ barrier'.at = "waiting" /\ barrier'.scopes = scopes /\ barrier'.target = seq
          /\ \A t \in scopes : barrier'.want[t] = latest[t]
          /\ barrier' \in Windows
      <3> DEFINE want == [t \in Scopes |-> IF t \in scopes THEN latest[t] ELSE 0]
      <3>1. want \in [Scopes -> Seqs] /\ seq \in Seqs /\ 0 \in Seqs
        BY <1>0 DEF AdmissionTypes
      <3>2. barrier' = [at |-> "waiting", scopes |-> scopes, target |-> seq, want |-> want,
                        before |-> 0]
        BY <1>9 DEF RequestBarrier, NoBarrier
      <3>3. barrier' \in Windows
        <4> HIDE DEF want
        <4> QED
          BY <3>1, <3>2 DEF Windows
      <3> QED
        BY <3>2, <3>3
    <2>3. AdmissionTypes'
      BY <1>0, <1>9, <2>1, <2>2 DEF RequestBarrier, AdmissionTypes
    <2>4. UNCHANGED <<seq, latest, dirty, work, indexed>> /\ seq \in Seqs
      BY <1>0, <1>9 DEF RequestBarrier, AdmissionTypes
    <2>5. ASSUME NEW t \in Scopes PROVE ScopeInv(t)'
      <3>1. BarrierIsSeen(t)'
        BY <1>2, <2>2, <2>4 DEF ScopeInv, SequenceLeads, TargetIsSeen, BarrierIsSeen
      <3>2. pending'[t].target \in Seqs /\ pending'[t].on \in BOOLEAN
        BY <2>1 DEF Rows
      <3>a. pending[t].on => pending'[t].on
        BY <2>1, Zenon
      <3>b. pending[t].on => pending'[t].target >= pending[t].target
        BY <2>1, Zenon
      <3>3. SequenceLeads(t)' /\ TargetIsSeen(t)'
        BY <1>2, <2>1, <2>4, <3>2 DEF ScopeInv, SequenceLeads, TargetIsSeen
      <3>4. ScopeIsCovered(t)'
        BY <1>2, <2>4, <3>2, <3>a, <3>b DEF ScopeInv, ScopeIsCovered
      <3>5. RunIsTimed(t)'
        BY <1>2, <2>4, <3>2, <3>a, <3>b DEF ScopeInv, RunIsTimed
      <3> QED
        BY <3>1, <3>3, <3>4, <3>5 DEF ScopeInv
    <2> QED
      BY <2>3, <2>5
  <1>10. ASSUME NEW published \in BOOLEAN, OpenWindow \/ GiveUp \/ Evaluate(published) PROVE Goal
    <2>1. UNCHANGED <<seq, latest, dirty, pending, work, indexed>>
      BY <1>10 DEF OpenWindow, GiveUp, Evaluate
    <2>a. barrier \in Windows /\ seq \in Seqs /\ NoBarrier \in Windows /\ NoBarrier.scopes = {}
      BY <1>0 DEF AdmissionTypes, NoBarrier, Windows
    <2> DEFINE Keeps == /\ barrier' \in Windows
                        /\ barrier'.scopes = barrier.scopes /\ barrier'.target = barrier.target
                        /\ barrier'.want = barrier.want /\ (barrier'.at = "verified" => Covers)
    <2>b. ASSUME OpenWindow PROVE Keeps
      BY <2>a, <2>b DEF OpenWindow, Windows
    <2>c. ASSUME Evaluate(published) PROVE Keeps
      <3> DEFINE at == IF Covers /\ published /\ barrier.before = seq THEN "verified" ELSE "waiting"
      <3>1. at \in {"waiting", "verified"} /\ (at = "verified" => Covers)
        OBVIOUS
      <3>2. barrier' = [barrier EXCEPT !.before = 0, !.at = at]
        BY <2>c DEF Evaluate
      <3>3. 0 \in Seqs
        OBVIOUS
      <3> HIDE AdmissionAssumption DEF at, Seqs
      <3> QED
        BY <2>a, <3>1, <3>2, <3>3 DEF Windows
    <2>2. barrier' \in Windows
      BY <1>10, <2>a, <2>b, <2>c DEF GiveUp
    <2>3. barrier'.scopes = {} \/ Keeps
      BY <1>10, <2>a, <2>b, <2>c DEF GiveUp
    <2>4. ASSUME NEW t \in Scopes PROVE ScopeInv(t)'
      BY <1>2, <2>1, <2>3 DEF Covers, ScopeInv, ScopeIsCovered, SequenceLeads, RunIsTimed, TargetIsSeen, BarrierIsSeen
    <2> QED
      BY <1>0, <2>1, <2>2, <2>4 DEF AdmissionTypes
  <1>11. CASE UNCHANGED avars
    BY <1>0, <1>2, <1>11 DEF avars, AdmissionTypes, ScopeInv, ScopeIsCovered, SequenceLeads, RunIsTimed, TargetIsSeen, BarrierIsSeen
  <1> QED
    BY <1>3, <1>4, <1>5, <1>6, <1>7, <1>8, <1>9, <1>10, <1>11 DEF AdmissionNext, Engine

LEMMA AdmissionInvariant == AdmissionSpec => []AdmissionInv
  <1>1. AdmissionInv /\ [AdmissionNext]_avars => AdmissionInv'
    BY AdmissionStep
  <1> QED
    BY AdmissionStarts, <1>1, PTL DEF AdmissionSpec

(* For every number of scopes and slots: a scope that is not dirty is      *)
(* indexed from its present input, a dirty one has an intent or a run that *)
(* reaches its newest event, and no more batches run than the slots allow  *)
(* (enqueue, coalesce, mark_started, acknowledge, InFlightBatches).        *)
THEOREM ChangesAreCovered == AdmissionSpec => []ChangeIsCovered
  <1>1. AdmissionInv => ChangeIsCovered
    BY DEF AdmissionInv, ScopeInv, ScopeIsCovered, ChangeIsCovered, CleanIsCurrent, DirtyIsScheduled
  <1> QED
    BY AdmissionInvariant, <1>1, PTL

(* A barrier that verifies is not fooled by coalesced, deferred or         *)
(* overtaken runs: every required scope was analysed from input as new as  *)
(* the request (BarrierRequest::new, covers, evaluate).                    *)
THEOREM BarrierIsHonest == AdmissionSpec => []VerifiedIsFresh
  <1>1. AdmissionInv => VerifiedIsFresh
    BY DEF AdmissionInv, AdmissionTypeOK, ScopeInv, BarrierIsSeen, VerifiedIsFresh
  <1> QED
    BY AdmissionInvariant, <1>1, PTL

-----------------------------------------------------------------------------
(* The schema ledger. *)

Openings == [at : {"idle", "rows", "version", "apply", "opened", "refused", "failed"},
             release : Releases \cup {NoRelease}, read : Nat, moved : BOOLEAN]

\* What an opener has read is still in the ledger and is what it ships; as long as nobody has
\* migrated since it began, it is all of the ledger.
OpeningIsSound(p) ==
    /\ (opener[p].release = NoRelease) = (opener[p].at = "idle")
    /\ opener[p].at \in {"version", "apply", "opened"} =>
          /\ opener[p].read <= Len(ledger) /\ opener[p].read <= Len(Ships(p))
          /\ \A n \in 1..opener[p].read : ledger[n] = Ships(p)[n]
    /\ opener[p].at = "version" /\ ~opener[p].moved => opener[p].read = Len(ledger)
    /\ opener[p].at = "apply" => opener[p].read < Len(Ships(p))
    /\ opener[p].at = "opened" => opener[p].read = Len(Ships(p))
    /\ opener[p].at = "refused" => opener[p].moved \/ ~Reconciles(ledger, Ships(p))

\* The writer actor.
ActorTypes ==
    /\ handed \in Seq(Mutations) /\ mailbox \in Seq(Mutations) /\ Len(mailbox) <= Capacity
    /\ durable \in Seq(Mutations) /\ open \in Mutations \cup {NoMutation}
    /\ draining \in BOOLEAN /\ poisoned \in BOOLEAN
    /\ outcome \in [Mutations -> {"none", "waiting", "applied", "failed"}]
    /\ mishaps \in 0..MaxMishaps

LedgerInv ==
    /\ ledger \in Seq(STRING) /\ userVersion \in Nat /\ LedgerIsOneLineage
    /\ opener \in [Openers -> Openings]
    /\ \A p \in Openers : OpeningIsSound(p)

StoreInv == LedgerInv /\ ActorTypes

LEMMA SoundByParts == StoreInv => LedgerIsSound
  <1> SUFFICES ASSUME StoreInv PROVE LedgerIsSound
    OBVIOUS
  <1>1. StoreTypeOK
    BY DEF StoreInv, LedgerInv, ActorTypes, StoreTypeOK, Openings, OpeningIsSound
  <1>2. OpenedIsMigrated
    BY DEF StoreInv, LedgerInv, OpenedIsMigrated, OpeningIsSound, Reconciles
  <1>3. RefusalHasCause
    BY DEF StoreInv, LedgerInv, RefusalHasCause, OpeningIsSound
  <1> QED
    BY <1>1, <1>2, <1>3 DEF LedgerIsSound, StoreInv, LedgerInv

LEMMA StoreStarts == StoreInit => StoreInv
  <1> SUFFICES ASSUME StoreInit PROVE StoreInv
    OBVIOUS
  <1> USE StoreAssumption DEF StoreInit
  <1>1. ActorTypes
    <2>1. <<>> \in Seq(Mutations) /\ Len(mailbox) = 0
      OBVIOUS
    <2>2. outcome \in [Mutations -> {"none", "waiting", "applied", "failed"}] /\ mishaps \in 0..MaxMishaps
      OBVIOUS
    <2>3. draining \in BOOLEAN /\ poisoned \in BOOLEAN
      BY Zenon
    <2>4. Len(mailbox) <= Capacity
      BY <2>1
    <2> QED
      BY <2>1, <2>2, <2>3, <2>4 DEF ActorTypes
  <1>2. opener \in [Openers -> Openings]
    BY DEF Openings, Closed
  <1>3. ASSUME NEW p \in Openers PROVE OpeningIsSound(p)
    BY DEF OpeningIsSound, Closed
  <1>4. LedgerIsOneLineage
    BY DEF LedgerIsOneLineage, Reconciles
  <1> QED
    BY <1>1, <1>2, <1>3, <1>4 DEF StoreInv, LedgerInv

\* One more row, and every older one as it was.
LEMMA OneMoreRow ==
  ASSUME NEW S, NEW rows \in Seq(S), NEW sql \in S
  PROVE  /\ Append(rows, sql) \in Seq(S) /\ Len(rows) \in Nat
         /\ Len(Append(rows, sql)) = Len(rows) + 1
         /\ \A n \in 1..Len(rows) : Append(rows, sql)[n] = rows[n]
         /\ Append(rows, sql)[Len(rows) + 1] = sql
  OBVIOUS

\* The actor's steps leave the schema alone.
LEMMA ActorStep == ASSUME StoreInv, ActorNext PROVE StoreInv'
  <1> USE StoreAssumption
  <1>1. UNCHANGED schema
    BY DEF ActorNext, Submit, BeginDrain, DrainOne, EndDrain, DrainPanics, NewActor, DrainFails, Takes
  <1>2. LedgerInv'
    BY <1>1
    DEF StoreInv, LedgerInv, schema, LedgerIsOneLineage, OpeningIsSound, Ships, Reconciles
  <1> USE DEF StoreInv, ActorTypes
  <1>3. mailbox # <<>> => Head(mailbox) \in Mutations /\ Tail(mailbox) \in Seq(Mutations)
                          /\ Len(Tail(mailbox)) <= Capacity
    OBVIOUS
  <1>4. ActorTypes'
    <2>1. ASSUME NEW m \in Mutations, Submit(m) PROVE ActorTypes'
      BY <2>1 DEF Submit
    <2>2. CASE BeginDrain \/ EndDrain
      BY <2>2 DEF BeginDrain, EndDrain
    <2>3. CASE DrainOne
      <3>1. durable' \in Seq(Mutations)
        <4>1. mailbox # <<>> => Append(durable, Head(mailbox)) \in Seq(Mutations)
          BY <1>3
        <4>2. mailbox # <<>> /\ (durable' = durable \/ durable' = Append(durable, Head(mailbox)))
          BY <2>3 DEF DrainOne, Takes
        <4> QED
          BY <4>1, <4>2
      <3>2. outcome' \in [Mutations -> {"none", "waiting", "applied", "failed"}]
        BY <1>3, <2>3 DEF DrainOne, Takes, Counted
      <3> QED
        BY <1>3, <2>3, <3>1, <3>2 DEF DrainOne, Takes
    <2>4. ASSUME NEW commit \in BOOLEAN, DrainFails(commit) PROVE ActorTypes'
      BY <1>3, <2>4 DEF DrainFails, Takes, Counted
    <2>5. CASE DrainPanics
      <3>1. draining' \in BOOLEAN /\ poisoned' \in BOOLEAN
        BY <2>5, Zenon DEF DrainPanics
      <3>2. mishaps' \in 0..MaxMishaps
        BY <2>5 DEF DrainPanics
      <3> QED
        BY <1>3, <2>5, <3>1, <3>2 DEF DrainPanics
    <2>6. CASE NewActor
      <3>1. <<>> \in Seq(Mutations) /\ Len(mailbox') = 0
        BY <2>6 DEF NewActor
      <3>2. outcome' \in [Mutations -> {"none", "waiting", "applied", "failed"}]
        BY <2>6 DEF NewActor
      <3>3. draining' \in BOOLEAN /\ poisoned' \in BOOLEAN
        BY <2>6, Zenon DEF NewActor
      <3>4. mishaps' \in 0..MaxMishaps /\ Len(mailbox') <= Capacity
        BY <2>6, <3>1 DEF NewActor
      <3> QED
        BY <2>6, <3>1, <3>2, <3>3, <3>4 DEF NewActor
    <2> QED
      BY <2>1, <2>2, <2>3, <2>4, <2>5, <2>6 DEF ActorNext
  <1> QED
    BY <1>2, <1>4

\* A step that writes no row leaves every other opener as sound as it was.
LEMMA ReadingKeeps ==
  ASSUME LedgerInv, NEW p \in Openers, NEW new \in Openings,
         opener' = [opener EXCEPT ![p] = new], UNCHANGED <<ledger, userVersion>>, OpeningIsSound(p)'
  PROVE  LedgerInv'
  <1>1. ASSUME NEW q \in Openers PROVE OpeningIsSound(q)'
    <2>1. CASE q # p
      <3>1. opener'[q] = opener[q] /\ ledger' = ledger /\ OpeningIsSound(q)
        BY <2>1 DEF LedgerInv
      <3> QED
        BY <3>1, Zenon DEF OpeningIsSound, Ships, Reconciles
    <2> QED
      BY <2>1
  <1>2. LedgerIsOneLineage'
    BY DEF LedgerInv, LedgerIsOneLineage, Reconciles
  <1>3. opener' \in [Openers -> Openings]
    BY DEF LedgerInv
  <1> QED
    BY <1>1, <1>2, <1>3 DEF LedgerInv

\* A migration is committed on top of exactly what its opener has read.
LEMMA CommitKeeps ==
  ASSUME LedgerInv, NEW p \in Openers, opener[p].at = "apply",
         Len(ledger) = opener[p].read, Commits(p, opener[p].read + 1),
         userVersion' = opener[p].read + 1
  PROVE  LedgerInv'
  <1> DEFINE next == opener[p].read + 1
  <1>1. /\ ledger \in Seq(STRING) /\ opener \in [Openers -> Openings] /\ opener[p].read \in Nat
        /\ opener[p].release \in Releases /\ Ships(p) \in Seq(STRING) /\ Len(Ships(p)) \in Nat
        /\ OpeningIsSound(p) /\ next <= Len(Ships(p)) /\ next \in 1..Len(Ships(p))
    <2>1. /\ ledger \in Seq(STRING) /\ opener \in [Openers -> Openings] /\ OpeningIsSound(p)
          /\ opener[p] \in Openings
      BY DEF LedgerInv
    <2>2. opener[p].release \in Releases /\ opener[p].read \in Nat
      BY <2>1 DEF Openings, OpeningIsSound
    <2>3. Ships(p) \in Seq(STRING) /\ Len(Ships(p)) \in Nat
      BY <2>2, StoreAssumption DEF Ships
    <2>4. opener[p].read < Len(Ships(p))
      BY <2>1 DEF OpeningIsSound
    <2> QED
      BY <2>1, <2>2, <2>3, <2>4
  <1>2. Ships(p)[next] \in STRING
    BY <1>1
  <1>3. /\ ledger' \in Seq(STRING) /\ Len(ledger) \in Nat /\ Len(ledger') = Len(ledger) + 1
        /\ \A n \in 1..Len(ledger) : ledger'[n] = ledger[n]
        /\ ledger'[Len(ledger) + 1] = Ships(p)[next]
    BY <1>1, <1>2, OneMoreRow DEF Commits
  <1>4. ASSUME NEW n \in 1..next PROVE ledger'[n] = Ships(p)[n]
    <2>1. CASE n = next
      BY <1>1, <1>3, <2>1
    <2>2. CASE n # next
      <3>1. n \in 1..opener[p].read /\ n \in 1..Len(ledger)
        BY <1>1, <2>2
      <3>2. ledger[n] = Ships(p)[n]
        BY <1>1, <3>1 DEF OpeningIsSound
      <3> QED
        BY <1>3, <3>1, <3>2
    <2> QED
      BY <2>1, <2>2
  <1>5. LedgerIsOneLineage'
    BY <1>1, <1>3, <1>4 DEF LedgerIsOneLineage, Reconciles, Ships
  <1>6. opener' \in [Openers -> Openings]
    <2>1. ASSUME NEW q \in Openers PROVE opener'[q] \in Openings
      <3>1. opener[q] \in Openings
        BY <1>1
      <3>2. CASE q = p
        <4> DEFINE at == IF next = Len(Ships(p)) THEN "opened" ELSE "apply"
        <4>1. at \in {"apply", "opened"} /\ next \in Nat
          BY <1>1
        <4>2. opener'[q] = [opener[p] EXCEPT !.read = next, !.at = at]
          BY <3>2 DEF Commits
        <4> HIDE DEF next, at
        <4> QED
          BY <3>1, <3>2, <4>1, <4>2 DEF Openings
      <3>3. CASE q # p
        BY <3>1, <3>3 DEF Commits, Openings
      <3> QED
        BY <3>2, <3>3
    <2>2. opener' = [q \in Openers |-> opener'[q]]
      BY DEF Commits
    <2> QED
      BY <2>1, <2>2
  <1>7. ASSUME NEW q \in Openers PROVE OpeningIsSound(q)'
    <2>1. CASE q = p
      <3>1. /\ opener'[q].read = next /\ opener'[q].release = opener[p].release
            /\ opener'[q].at = IF next = Len(Ships(p)) THEN "opened" ELSE "apply"
        BY <1>1, <2>1 DEF Commits, Openings
      <3>2. Ships(q)' = Ships(p)
        BY <3>1 DEF Ships
      <3>3. opener'[q].release # NoRelease
        BY <1>1, <3>1, StoreAssumption
      <3> QED
        BY <1>1, <1>3, <1>4, <3>1, <3>2, <3>3 DEF OpeningIsSound
    <2>2. CASE q # p
      <3>1. opener[q] \in Openings /\ OpeningIsSound(q)
        BY DEF LedgerInv
      <3>2. /\ opener'[q].at = opener[q].at /\ opener'[q].read = opener[q].read
            /\ opener'[q].release = opener[q].release
            /\ opener[q].moved => opener'[q].moved
            /\ opener[q].at = "version" => opener'[q].moved
        BY <2>2, <3>1 DEF Commits, Openings
      <3>3. Ships(q)' = Ships(q)
        BY <3>2 DEF Ships
      <3>4. Reconciles(ledger, Ships(q))' => Reconciles(ledger, Ships(q))
        <4>1. ASSUME Len(ledger') <= Len(Ships(q)), Len(Ships(q)) \in Nat PROVE Len(ledger) <= Len(Ships(q))
          BY <1>3, <4>1
        <4> QED
          BY <1>3, <3>3, <4>1 DEF Reconciles
      <3> QED
        BY <1>3, <3>1, <3>2, <3>3, <3>4 DEF OpeningIsSound, Openings
    <2> QED
      BY <2>1, <2>2
  <1> QED
    BY <1>1, <1>3, <1>5, <1>6, <1>7 DEF LedgerInv

LEMMA LedgerStep == ASSUME StoreInv, LedgerNext PROVE StoreInv'
  <1> USE StoreAssumption
  <1>1. LedgerInv /\ ActorTypes
    BY DEF StoreInv
  <1>2. ActorTypes'
    <2>1. UNCHANGED actor /\ (mishaps' = mishaps \/ (mishaps < MaxMishaps /\ mishaps' = mishaps + 1))
      BY DEF LedgerNext, BeginOpen, ReadRows, ReadVersion, ApplyOne, StatementFails, CloseStore
    <2>2. mishaps' \in 0..MaxMishaps
      BY <1>1, <2>1 DEF ActorTypes
    <2> QED
      BY <1>1, <2>1, <2>2 DEF actor, ActorTypes
  <1>3. ASSUME NEW p \in Openers
        PROVE  /\ opener[p] \in Openings /\ OpeningIsSound(p) /\ opener \in [Openers -> Openings]
               /\ ledger \in Seq(STRING) /\ Len(ledger) \in Nat /\ userVersion = Len(ledger)
               /\ opener[p].at # "idle" => opener[p].release \in Releases
               /\ opener[p].at # "idle" => Ships(p) \in Seq(STRING) /\ Len(Ships(p)) \in Nat
    <2>1. opener[p] \in Openings /\ OpeningIsSound(p) /\ opener \in [Openers -> Openings]
      BY <1>1 DEF LedgerInv
    <2>2. opener[p].at # "idle" => opener[p].release \in Releases
      BY <2>1 DEF Openings, OpeningIsSound
    <2>3. opener[p].at # "idle" => Ships(p) \in Seq(STRING) /\ Len(Ships(p)) \in Nat
      BY <2>2 DEF Ships
    <2> QED
      BY <1>1, <2>1, <2>2, <2>3 DEF LedgerInv, LedgerIsOneLineage
  <1>4. ASSUME NEW p \in Openers, NEW r \in Releases, BeginOpen(p, r) PROVE LedgerInv'
    <2> DEFINE new == [Closed EXCEPT !.at = "rows", !.release = r]
    <2>1. new.at = "rows" /\ new.release = r /\ new \in Openings
      <3>1. Closed \in Openings
        BY DEF Closed, Openings
      <3> QED
        BY <3>1 DEF Openings
    <2>2. opener' = [opener EXCEPT ![p] = new] /\ UNCHANGED <<ledger, userVersion>>
      BY <1>4 DEF BeginOpen
    <2>3. OpeningIsSound(p)'
      <3> HIDE DEF new
      <3>1. opener'[p] = new
        BY <1>3, <2>2
      <3> QED
        BY <2>1, <3>1 DEF OpeningIsSound
    <2> QED
      BY <1>1, <2>1, <2>2, <2>3, ReadingKeeps
  <1>5. ASSUME NEW p \in Openers, CloseStore(p) PROVE LedgerInv'
    <2>1. Closed \in Openings
      BY DEF Closed, Openings
    <2>2. opener' = [opener EXCEPT ![p] = Closed] /\ UNCHANGED <<ledger, userVersion>>
      BY <1>5 DEF CloseStore
    <2>3. OpeningIsSound(p)'
      BY <1>3, <2>2 DEF OpeningIsSound, Closed
    <2> QED
      BY <1>1, <2>1, <2>2, <2>3, ReadingKeeps
  <1>6. ASSUME NEW p \in Openers, NEW at \in {"opened", "apply", "refused", "failed"}, Becomes(p, at),
               UNCHANGED <<ledger, userVersion>>, opener[p].at # "idle",
               at = "opened" => opener[p].at = "version" /\ opener[p].read = Len(Ships(p)),
               at = "apply" => opener[p].at = "version" /\ opener[p].read < Len(Ships(p)),
               at = "refused" => opener[p].moved \/ ~Reconciles(ledger, Ships(p))
        PROVE  LedgerInv'
    <2> DEFINE new == [opener[p] EXCEPT !.at = at]
    <2>1. /\ new \in Openings /\ new.at = at /\ new.read = opener[p].read
          /\ new.release = opener[p].release /\ new.moved = opener[p].moved
      BY <1>3 DEF Openings
    <2>2. opener' = [opener EXCEPT ![p] = new]
      BY <1>3, <1>6 DEF Becomes
    <2> HIDE DEF new
    <2>3. opener'[p] = new
      BY <1>3, <2>2
    <2>4. Ships(p)' = Ships(p)
      BY <2>1, <2>3 DEF Ships
    <2>5. OpeningIsSound(p)'
      BY <1>3, <1>6, <2>1, <2>3, <2>4 DEF OpeningIsSound, Reconciles
    <2> QED
      BY <1>1, <1>6, <2>1, <2>2, <2>5, ReadingKeeps
  <1>7. ASSUME NEW p \in Openers, ReadRows(p) PROVE LedgerInv'
    <2>1. CASE ~Reconciles(ledger, Ships(p))
      BY <1>6, <1>7, <2>1 DEF ReadRows
    <2>2. CASE Reconciles(ledger, Ships(p))
      <3> DEFINE new == [opener[p] EXCEPT !.at = "version", !.read = Len(ledger)]
      <3>1. /\ new \in Openings /\ new.at = "version" /\ new.read = Len(ledger)
            /\ new.release = opener[p].release
        BY <1>3 DEF Openings
      <3>2. opener' = [opener EXCEPT ![p] = new] /\ UNCHANGED <<ledger, userVersion>> /\ opener[p].at = "rows"
        BY <1>3, <1>7, <2>2 DEF ReadRows
      <3> HIDE DEF new
      <3>3. opener'[p] = new
        BY <1>3, <3>2
      <3>4. Ships(p)' = Ships(p)
        BY <3>1, <3>3 DEF Ships
      <3>5. OpeningIsSound(p)'
        BY <1>3, <2>2, <3>1, <3>2, <3>3, <3>4 DEF OpeningIsSound, Reconciles
      <3> QED
        BY <1>1, <3>1, <3>2, <3>5, ReadingKeeps
    <2> QED
      BY <2>1, <2>2
  <1>8. ASSUME NEW p \in Openers, ReadVersion(p) PROVE LedgerInv'
    <2>1. CASE userVersion > Len(Ships(p)) \/ userVersion # opener[p].read
      <3>1. Becomes(p, "refused") /\ UNCHANGED <<ledger, userVersion>> /\ opener[p].at = "version"
        BY <1>8, <2>1 DEF ReadVersion
      <3>2. opener[p].moved
        BY <1>3, <2>1, <3>1 DEF OpeningIsSound
      <3> QED
        BY <1>6, <3>1, <3>2
    <2>2. CASE ~(userVersion > Len(Ships(p)) \/ userVersion # opener[p].read)
      <3>1. CASE opener[p].read = Len(Ships(p))
        BY <1>6, <1>8, <2>2, <3>1 DEF ReadVersion
      <3>2. CASE opener[p].read # Len(Ships(p))
        <4>1. Becomes(p, "apply") /\ UNCHANGED <<ledger, userVersion>> /\ opener[p].at = "version"
          BY <1>8, <2>2, <3>2 DEF ReadVersion
        <4>2. opener[p].read < Len(Ships(p))
          BY <1>3, <2>2, <3>2, <4>1
        <4> QED
          BY <1>6, <4>1, <4>2
      <3> QED
        BY <3>1, <3>2
    <2> QED
      BY <2>1, <2>2
  <1>9. ASSUME NEW p \in Openers, ApplyOne(p) PROVE LedgerInv'
    <2>1. CASE Len(ledger) >= opener[p].read + 1
      BY <1>6, <1>9, <2>1 DEF ApplyOne
    <2>2. CASE ~(Len(ledger) >= opener[p].read + 1)
      <3>1. opener[p].at = "apply" /\ Commits(p, opener[p].read + 1) /\ userVersion' = opener[p].read + 1
        BY <1>9, <2>2 DEF ApplyOne
      <3>2. Len(ledger) = opener[p].read
        BY <1>3, <2>2, <3>1 DEF OpeningIsSound, Openings
      <3> QED
        BY <1>1, <3>1, <3>2, CommitKeeps
    <2> QED
      BY <2>1, <2>2
  <1>10. ASSUME NEW p \in Openers, StatementFails(p) PROVE LedgerInv'
    BY <1>6, <1>10 DEF StatementFails
  <1> QED
    BY <1>2, <1>4, <1>5, <1>7, <1>8, <1>9, <1>10 DEF LedgerNext, StoreInv

LEMMA StoreIsKept == StoreInv /\ [StoreNext]_svars => StoreInv'
  <1> SUFFICES ASSUME StoreInv, [StoreNext]_svars PROVE StoreInv'
    OBVIOUS
  <1>1. CASE UNCHANGED svars
    BY <1>1
    DEF svars, StoreInv, LedgerInv, ActorTypes, LedgerIsOneLineage, OpeningIsSound, Ships, Reconciles
  <1> QED
    BY <1>1, LedgerStep, ActorStep DEF StoreNext

(* For any number of openers of any releases: the ledger is what one       *)
(* release ships, whoever is let in finds all it ships, and a refusal has  *)
(* a cause; the actor's queue keeps its bound (verify, reconcile, plan and *)
(* apply_one of migrations.rs, submit of writer.rs).                       *)
THEOREM LedgerStaysSound == StoreSpec => []LedgerIsSound
  BY StoreStarts, SoundByParts, StoreIsKept, PTL DEF StoreSpec
-----------------------------------------------------------------------------
(* The writer actor. *)

Applied == {k \in 1..Len(handed) : outcome[handed[k]] = "applied"}

Follows(at) ==
    /\ at \in [1..Len(durable) -> 1..Len(handed)]
    /\ {at[n] : n \in 1..Len(durable)} = Applied
    /\ \A n, k \in 1..Len(durable) : n < k => at[n] < at[k]
    /\ \A n \in 1..Len(durable) : durable[n] = handed[at[n]]

(* A mutation is handed over once; the mailbox is the end of what was      *)
(* handed over, and nothing of it has been counted yet.                     *)
MailIsTheRest ==
    /\ \A k, n \in 1..Len(handed) : handed[k] = handed[n] => k = n
    /\ \A m \in Mutations : outcome[m] = "none" => \A k \in 1..Len(handed) : handed[k] # m
    /\ Len(mailbox) <= Len(handed)
    /\ \A n \in 1..Len(mailbox) :
          /\ mailbox[n] = handed[Len(handed) - Len(mailbox) + n]
          /\ outcome[mailbox[n]] = "waiting"

WriterInv == ActorTypes /\ MailIsTheRest /\ \E at : Follows(at)

\* What is counted is the first of the mailbox, which is where the rest begins.
LEMMA HeadOfMail ==
  ASSUME ActorTypes, MailIsTheRest, mailbox # <<>>
  PROVE  LET k == Len(handed) - Len(mailbox) + 1
         IN  /\ k \in 1..Len(handed) /\ handed[k] = Head(mailbox) /\ Head(mailbox) \in Mutations
             /\ outcome[handed[k]] = "waiting"
             /\ \A n \in 1..Len(handed) : handed[n] = Head(mailbox) => n = k
             /\ \A n \in Applied : n < k
  <1> DEFINE k == Len(handed) - Len(mailbox) + 1
  <1>1. Len(mailbox) \in Nat \ {0} /\ Len(handed) \in Nat /\ Len(mailbox) <= Len(handed)
    BY DEF ActorTypes, MailIsTheRest
  <1>2. k \in 1..Len(handed) /\ handed[k] = mailbox[1] /\ mailbox[1] = Head(mailbox)
    BY <1>1 DEF MailIsTheRest, ActorTypes
  <1>3. outcome[handed[k]] = "waiting" /\ Head(mailbox) \in Mutations
    BY <1>1, <1>2 DEF MailIsTheRest, ActorTypes
  <1>4. \A n \in 1..Len(handed) : handed[n] = Head(mailbox) => n = k
    BY <1>2 DEF MailIsTheRest
  <1>5. ASSUME NEW n \in Applied, n >= k PROVE FALSE
    <2>1. n \in 1..Len(handed) /\ outcome[handed[n]] = "applied"
      BY DEF Applied
    <2>2. n - (Len(handed) - Len(mailbox)) \in 1..Len(mailbox)
      BY <1>1, <1>5, <2>1
    <2>3. mailbox[n - (Len(handed) - Len(mailbox))] = handed[n]
      BY <1>1, <2>1, <2>2 DEF MailIsTheRest
    <2> QED
      BY <2>1, <2>2, <2>3 DEF MailIsTheRest
  <1>6. \A n \in Applied : n < k
    BY <1>1, <1>5 DEF Applied
  <1> QED
    BY <1>2, <1>3, <1>4, <1>6

\* What stays in the mailbox when its first is counted or lost.
LEMMA MailGoesOn ==
  ASSUME ActorTypes, MailIsTheRest, mailbox # <<>>, mailbox' = Tail(mailbox), handed' = handed,
         NEW as \in {"waiting", "applied", "failed"},
         outcome' = [outcome EXCEPT ![Head(mailbox)] = as]
  PROVE  MailIsTheRest'
  <1>1. /\ Len(mailbox) \in Nat \ {0} /\ Len(handed) \in Nat
        /\ Len(Tail(mailbox)) = Len(mailbox) - 1
        /\ \A n \in 1..Len(Tail(mailbox)) : Tail(mailbox)[n] = mailbox[n + 1]
    BY DEF ActorTypes
  <1>2. \A k \in 1..Len(handed) : handed[k] \in Mutations
    BY DEF ActorTypes
  <1>3. ASSUME NEW m \in Mutations, outcome'[m] = "none"
        PROVE  \A k \in 1..Len(handed) : handed[k] # m
    <2>1. outcome[m] = "none"
      BY <1>3 DEF ActorTypes
    <2> QED
      BY <2>1 DEF MailIsTheRest
  <1>4. ASSUME NEW n \in 1..Len(mailbox')
        PROVE  /\ mailbox'[n] = handed'[Len(handed') - Len(mailbox') + n]
               /\ outcome'[mailbox'[n]] = "waiting"
    <2>1. n \in Nat /\ n + 1 \in 1..Len(mailbox) /\ mailbox'[n] = mailbox[n + 1]
      BY <1>1
    <2>2. mailbox[n + 1] = handed[Len(handed) - Len(mailbox) + (n + 1)]
          /\ outcome[mailbox[n + 1]] = "waiting"
      BY <2>1 DEF MailIsTheRest
    <2>3. Len(handed) - Len(mailbox) + (n + 1) = Len(handed') - Len(mailbox') + n
      BY <1>1, <2>1
    <2>4. Len(handed) - Len(mailbox) + (n + 1) \in 1..Len(handed)
      BY <1>1, <2>1 DEF MailIsTheRest
    <2>5. mailbox[n + 1] # Head(mailbox) /\ mailbox[n + 1] \in Mutations
      BY <1>1, <1>2, <2>1, <2>2, <2>4, HeadOfMail
    <2>6. outcome'[mailbox[n + 1]] = outcome[mailbox[n + 1]]
      BY <2>5 DEF ActorTypes
    <2> QED
      BY <2>1, <2>2, <2>3, <2>6
  <1>5. Len(mailbox') <= Len(handed')
    BY <1>1 DEF MailIsTheRest
  <1> QED
    BY <1>3, <1>4, <1>5 DEF MailIsTheRest

\* As long as neither the durable mutations nor the applied ones change.
LEMMA FollowsOn ==
  ASSUME WriterInv, durable' = durable, Applied' = Applied, Len(handed) <= Len(handed'),
         handed' \in Seq(Mutations),
         \A k \in 1..Len(handed) : handed'[k] = handed[k]
  PROVE  \E at : Follows(at)'
  <1>1. PICK at : Follows(at)
    BY DEF WriterInv
  <1>2. Len(handed) \in Nat /\ Len(handed') \in Nat
    BY DEF WriterInv, ActorTypes
  <1>3. at \in [1..Len(durable') -> 1..Len(handed')]
    BY <1>1, <1>2 DEF Follows
  <1>4. \A n \in 1..Len(durable') : durable'[n] = handed'[at[n]]
    BY <1>1 DEF Follows
  <1>5. Follows(at)'
    BY <1>1, <1>3, <1>4 DEF Follows
  <1> QED
    BY <1>5

LEMMA WriterStep ==
  ASSUME WriterInv, ActorTypes', ActorNext
  PROVE  WriterInv'
  <1>0. ActorTypes /\ MailIsTheRest /\ (\E at : Follows(at)) /\ Len(handed) \in Nat /\ Len(mailbox) \in Nat
    BY DEF WriterInv, ActorTypes
  <1>1. ASSUME NEW m \in Mutations, Submit(m) PROVE WriterInv'
    <2>1. /\ outcome[m] = "none" /\ mailbox' = Append(mailbox, m) /\ handed' = Append(handed, m)
          /\ outcome' = [outcome EXCEPT ![m] = "waiting"] /\ durable' = durable
      BY <1>1 DEF Submit
    <2>2. /\ Len(handed') = Len(handed) + 1 /\ handed'[Len(handed) + 1] = m
          /\ \A k \in 1..Len(handed) : handed'[k] = handed[k] /\ handed[k] # m
      BY <1>0, <2>1 DEF ActorTypes, MailIsTheRest
    <2>3. /\ Len(mailbox') = Len(mailbox) + 1 /\ mailbox'[Len(mailbox) + 1] = m
          /\ \A n \in 1..Len(mailbox) : mailbox'[n] = mailbox[n]
      BY <1>0, <2>1 DEF ActorTypes
    <2>4. \A k \in 1..Len(handed) : handed[k] \in Mutations /\ outcome'[handed[k]] = outcome[handed[k]]
      BY <1>0, <2>1, <2>2 DEF ActorTypes
    <2>5. outcome'[m] = "waiting"
      BY <1>0, <2>1 DEF ActorTypes
    <2>6. Applied' = Applied
      <3>1. ASSUME NEW k PROVE k \in Applied' <=> k \in Applied
        <4>1. CASE k \in 1..Len(handed)
          BY <1>0, <2>2, <2>4, <4>1 DEF Applied
        <4>2. CASE k = Len(handed) + 1
          BY <1>0, <2>2, <2>5, <4>2 DEF Applied
        <4>3. CASE k \notin 1..(Len(handed) + 1)
          BY <1>0, <2>2, <4>3 DEF Applied
        <4> QED
          BY <1>0, <4>1, <4>2, <4>3
      <3> QED
        BY <3>1
    <2>7. handed' \in Seq(Mutations) /\ Len(handed) <= Len(handed')
      BY <1>0, <2>2 DEF ActorTypes
    <2>8. MailIsTheRest'
      <3>1. \A k, n \in 1..Len(handed') : handed'[k] = handed'[n] => k = n
        BY <1>0, <2>2 DEF MailIsTheRest
      <3>2. ASSUME NEW x \in Mutations, outcome'[x] = "none"
            PROVE  \A k \in 1..Len(handed') : handed'[k] # x
        <4>1. x # m /\ outcome[x] = "none"
          BY <1>0, <2>1, <2>5, <3>2 DEF ActorTypes
        <4> QED
          BY <1>0, <2>2, <4>1 DEF MailIsTheRest
      <3>3. ASSUME NEW n \in 1..Len(mailbox')
            PROVE  /\ mailbox'[n] = handed'[Len(handed') - Len(mailbox') + n]
                   /\ outcome'[mailbox'[n]] = "waiting"
        <4>1. CASE n = Len(mailbox) + 1
          <5>1. Len(handed') - Len(mailbox') + n = Len(handed) + 1
            BY <1>0, <2>2, <2>3, <4>1
          <5> QED
            BY <2>2, <2>3, <2>5, <4>1, <5>1
        <4>2. CASE n \in 1..Len(mailbox)
          <5>1. /\ Len(handed') - Len(mailbox') + n = Len(handed) - Len(mailbox) + n
                /\ Len(handed) - Len(mailbox) + n \in 1..Len(handed)
            BY <1>0, <2>2, <2>3, <4>2 DEF MailIsTheRest
          <5>2. mailbox[n] = handed[Len(handed) - Len(mailbox) + n] /\ outcome[mailbox[n]] = "waiting"
            BY <1>0, <4>2 DEF MailIsTheRest
          <5> QED
            BY <2>2, <2>3, <2>4, <4>2, <5>1, <5>2
        <4> QED
          BY <1>0, <2>3, <4>1, <4>2
      <3>4. Len(mailbox') <= Len(handed')
        BY <1>0, <2>2, <2>3 DEF MailIsTheRest
      <3> QED
        BY <3>1, <3>2, <3>3, <3>4 DEF MailIsTheRest
    <2> QED
      BY <2>1, <2>2, <2>6, <2>7, <2>8, FollowsOn DEF WriterInv
  <1>2. CASE BeginDrain \/ EndDrain
    <2>1. UNCHANGED <<handed, mailbox, durable, outcome>>
      BY <1>2 DEF BeginDrain, EndDrain
    <2> QED
      BY <1>0, <2>1 DEF WriterInv, MailIsTheRest, Follows, Applied
  <1>3. ASSUME mailbox # <<>>, mailbox' = Tail(mailbox), UNCHANGED <<handed, durable>>,
               NEW as \in {"waiting", "failed"}, outcome' = [outcome EXCEPT ![Head(mailbox)] = as]
        PROVE  WriterInv'
    <2>1. MailIsTheRest'
      BY <1>0, <1>3, MailGoesOn
    <2>2. \A k \in 1..Len(handed) : handed[k] \in Mutations
      BY <1>0 DEF ActorTypes
    <2>3. Applied' = Applied
      <3>1. ASSUME NEW k \in 1..Len(handed)
            PROVE  outcome'[handed[k]] = "applied" <=> outcome[handed[k]] = "applied"
        <4>1. CASE handed[k] = Head(mailbox)
          BY <1>0, <1>3, <2>2, <4>1, HeadOfMail DEF ActorTypes
        <4>2. CASE handed[k] # Head(mailbox)
          BY <1>0, <1>3, <2>2, <4>2 DEF ActorTypes
        <4> QED
          BY <4>1, <4>2
      <3> QED
        BY <1>3, <3>1 DEF Applied
    <2>4. handed' \in Seq(Mutations) /\ Len(handed) <= Len(handed')
      BY <1>0, <1>3 DEF ActorTypes
    <2> QED
      BY <1>3, <2>1, <2>3, <2>4, FollowsOn DEF WriterInv
  <1>4. CASE DrainOne
    <2>1. mailbox # <<>> /\ mailbox' = Tail(mailbox) /\ handed' = handed
      BY <1>4 DEF DrainOne, Takes
    <2>2. CASE open # NoMutation
      BY <1>3, <1>4, <2>1, <2>2 DEF DrainOne, Counted
    <2>3. CASE open = NoMutation
      <3>1. /\ outcome' = [outcome EXCEPT ![Head(mailbox)] = "applied"]
            /\ durable' = Append(durable, Head(mailbox))
        BY <1>4, <2>3 DEF DrainOne, Counted
      <3>2. MailIsTheRest'
        BY <1>0, <2>1, <3>1, MailGoesOn
      <3> DEFINE taken == Len(handed) - Len(mailbox) + 1
                 L == Len(durable)
      <3>3. /\ taken \in 1..Len(handed) /\ handed[taken] = Head(mailbox) /\ Head(mailbox) \in Mutations
            /\ \A n \in 1..Len(handed) : handed[n] = Head(mailbox) => n = taken
            /\ \A n \in Applied : n < taken
        BY <1>0, <2>1, HeadOfMail
      <3>4. Applied' = Applied \cup {taken}
        <4>1. ASSUME NEW k \in 1..Len(handed)
              PROVE  outcome'[handed[k]] = "applied" <=> outcome[handed[k]] = "applied" \/ k = taken
          <5>1. handed[k] \in Mutations
            BY <1>0 DEF ActorTypes
          <5>2. CASE k = taken
            BY <1>0, <3>1, <3>3, <5>2 DEF ActorTypes
          <5>3. CASE k # taken
            <6>1. handed[k] # Head(mailbox)
              BY <3>3, <5>3
            <6> QED
              BY <1>0, <3>1, <5>1, <5>3, <6>1 DEF ActorTypes
          <5> QED
            BY <5>2, <5>3
        <4> HIDE DEF taken
        <4> QED
          BY <2>1, <3>3, <4>1 DEF Applied
      <3>5. PICK at : Follows(at)
        BY <1>0
      <3> HIDE DEF taken
      <3>6. /\ L \in Nat /\ Len(durable') = L + 1 /\ durable'[L + 1] = Head(mailbox)
            /\ \A n \in 1..L : durable'[n] = durable[n]
        BY <1>0, <3>1, <3>3 DEF ActorTypes
      <3> DEFINE new == [n \in 1..(L + 1) |-> IF n = L + 1 THEN taken ELSE at[n]]
      <3>7. at \in [1..L -> 1..Len(handed)]
        BY <3>5 DEF Follows
      <3>8. \A n \in 1..L : new[n] = at[n] /\ at[n] \in Applied /\ at[n] < taken
        BY <3>3, <3>5, <3>6 DEF Follows
      <3>9. new[L + 1] = taken
        BY <3>6
      <3>10. 1..(L + 1) = 1..L \cup {L + 1}
        BY <3>6
      <3>11. new \in [1..(L + 1) -> 1..Len(handed)]
        BY <3>3, <3>6, <3>7
      <3> HIDE DEF new
      <3>12. {new[n] : n \in 1..(L + 1)} = Applied \cup {taken}
        <4>1. {at[n] : n \in 1..L} = Applied
          BY <3>5 DEF Follows
        <4>2. {new[n] : n \in 1..(L + 1)} = {new[n] : n \in 1..L} \cup {new[L + 1]}
          BY <3>10
        <4>3. {new[n] : n \in 1..L} = {at[n] : n \in 1..L}
          BY <3>8
        <4> QED
          BY <3>9, <4>1, <4>2, <4>3
      <3>13. \A n, k \in 1..(L + 1) : n < k => new[n] < new[k]
        <4> SUFFICES ASSUME NEW n \in 1..(L + 1), NEW k \in 1..(L + 1), n < k PROVE new[n] < new[k]
          OBVIOUS
        <4>1. n \in 1..L
          BY <3>6
        <4>2. CASE k = L + 1
          BY <3>8, <3>9, <4>1, <4>2
        <4>3. CASE k # L + 1
          BY <3>5, <3>6, <3>8, <4>1, <4>3 DEF Follows
        <4> QED
          BY <4>2, <4>3
      <3>14. \A n \in 1..(L + 1) : durable'[n] = handed[new[n]]
        <4>1. \A n \in 1..L : durable'[n] = handed[new[n]]
          BY <3>5, <3>6, <3>8 DEF Follows
        <4> QED
          BY <3>3, <3>6, <3>9, <3>10, <4>1
      <3>15. PICK to : to = new
        OBVIOUS
      <3>16. Follows(to)'
        <4>1. 1..Len(durable') = 1..(L + 1)
          BY <3>6
        <4>2. to \in [1..Len(durable') -> 1..Len(handed')]
          BY <2>1, <3>11, <3>15, <4>1
        <4>3. {to[n] : n \in 1..Len(durable')} = Applied'
          BY <3>4, <3>12, <3>15, <4>1
        <4>4. \A n \in 1..Len(durable') : durable'[n] = handed'[to[n]]
          BY <2>1, <3>14, <3>15, <4>1
        <4> QED
          BY <3>13, <3>15, <4>1, <4>2, <4>3, <4>4 DEF Follows
      <3> QED
        BY <3>2, <3>16 DEF WriterInv
    <2> QED
      BY <2>2, <2>3
  <1>5. ASSUME NEW commit \in BOOLEAN, DrainFails(commit) PROVE WriterInv'
    BY <1>3, <1>5 DEF DrainFails, Takes, Counted
  <1>6. CASE DrainPanics
    <2>1. mailbox # <<>> /\ mailbox' = Tail(mailbox) /\ UNCHANGED <<handed, durable, outcome>>
      BY <1>6 DEF DrainPanics
    <2>2. outcome[Head(mailbox)] = "waiting"
      BY <1>0, <2>1, HeadOfMail
    <2>3. outcome' = [outcome EXCEPT ![Head(mailbox)] = "waiting"]
      BY <1>0, <2>1, <2>2 DEF ActorTypes
    <2> QED
      BY <1>3, <2>1, <2>3
  <1>7. CASE NewActor
    <2>1. /\ handed' = <<>> /\ mailbox' = <<>> /\ durable' = <<>>
          /\ Len(handed') = 0 /\ Len(mailbox') = 0 /\ Len(durable') = 0
      BY <1>7 DEF NewActor
    <2>2. MailIsTheRest'
      BY <2>1 DEF MailIsTheRest
    <2>3. Follows(<<>>)'
      <3>1. 1..0 = {}
        OBVIOUS
      <3>2. Applied' = {}
        BY <2>1, <3>1 DEF Applied
      <3> QED
        BY <2>1, <3>1, <3>2 DEF Follows
    <2> QED
      BY <2>2, <2>3 DEF WriterInv
  <1> QED
    BY <1>1, <1>2, <1>4, <1>5, <1>6, <1>7 DEF ActorNext

(* For any capacity of the queue and any mutations: the database holds the *)
(* mutations counted as applied and no other, in the order in which they    *)
(* were handed over, although a failing COMMIT leaves a transaction open    *)
(* and a panic leaves a mutation that nobody counts (drain, apply_one).     *)
THEOREM AppliedIsDurable == StoreSpec => []CountedAsAppliedIsDurable
  <1>1. StoreInit => WriterInv
    <2> SUFFICES ASSUME StoreInit PROVE WriterInv
      OBVIOUS
    <2>1. ActorTypes
      BY StoreStarts DEF StoreInv
    <2>2. /\ handed = <<>> /\ mailbox = <<>> /\ durable = <<>>
          /\ Len(handed) = 0 /\ Len(mailbox) = 0 /\ Len(durable) = 0
      BY DEF StoreInit
    <2>3. MailIsTheRest
      BY <2>2 DEF MailIsTheRest
    <2>4. Follows(<<>>)
      <3>1. 1..0 = {}
        OBVIOUS
      <3>2. Applied = {}
        BY <2>2, <3>1 DEF Applied
      <3> QED
        BY <2>2, <3>1, <3>2 DEF Follows
    <2> QED
      BY <2>1, <2>3, <2>4 DEF WriterInv
  <1>2. StoreInv /\ WriterInv /\ [StoreNext]_svars => StoreInv' /\ WriterInv'
    <2> SUFFICES ASSUME StoreInv, WriterInv, [StoreNext]_svars PROVE StoreInv' /\ WriterInv'
      OBVIOUS
    <2>1. StoreInv'
      BY StoreIsKept
    <2>2. ActorTypes'
      BY <2>1 DEF StoreInv
    <2>3. CASE LedgerNext \/ UNCHANGED svars
      <3>1. UNCHANGED <<handed, mailbox, durable, outcome>>
        BY <2>3 DEF LedgerNext, BeginOpen, ReadRows, ReadVersion, ApplyOne, StatementFails, CloseStore,
                    actor, svars
      <3>2. MailIsTheRest' /\ Applied' = Applied
        BY <3>1 DEF WriterInv, MailIsTheRest, Applied
      <3>3. /\ handed' \in Seq(Mutations) /\ Len(handed) <= Len(handed') /\ durable' = durable
            /\ \A k \in 1..Len(handed) : handed'[k] = handed[k]
        BY <3>1 DEF WriterInv, ActorTypes
      <3>4. \E at : Follows(at)'
        BY <3>2, <3>3, FollowsOn
      <3> QED
        BY <2>1, <2>2, <3>2, <3>4 DEF WriterInv
    <2> QED
      BY <2>1, <2>2, <2>3, WriterStep DEF StoreNext
  <1>3. WriterInv => CountedAsAppliedIsDurable
    BY DEF WriterInv, Follows, Applied, CountedAsAppliedIsDurable
  <1> QED
    BY <1>1, <1>2, <1>3, StoreStarts, PTL DEF StoreSpec
-----------------------------------------------------------------------------
(* Data of the watch: what a flush joins and what a poll enumerates.  Both  *)
(* are recursive or chosen, so their facts are found from a least           *)
(* counterexample.                                                          *)

LEMMA LeastExists ==
  ASSUME NEW T \in SUBSET Nat, T # {}
  PROVE  \E x \in T : \A y \in T : x <= y
  <1>1. PICK x \in T : \A y \in T : ~(<<y, x>> \in OpToRel(<, Nat))
    BY NatLessThanWellFounded, WFMin, Zenon
  <1>2. \A y \in T : y \in Nat /\ x \in Nat
    OBVIOUS
  <1>3. \A y \in T : <<y, x>> \in Nat \X Nat /\ <<y, x>>[1] = y /\ <<y, x>>[2] = x
    BY <1>2
  <1>4. \A y \in T : y < x => <<y, x>> \in OpToRel(<, Nat)
    BY <1>3, Zenon DEF OpToRel
  <1>5. \A y \in T : ~(y < x)
    BY <1>1, <1>4, Zenon
  <1> QED
    BY <1>2, <1>5

\* f joins the first n sequences of s, one after the other.
Joins(f, s, n) ==
    f = [i \in 1..n |-> IF i = 1 THEN s[i] ELSE f[i - 1] \o s[i]]

LEMMA JoinExists ==
  ASSUME NEW s, NEW n \in Nat \ {0}
  PROVE  \E f : Joins(f, s, n)
  <1> DEFINE T == {k \in Nat \ {0} : ~\E f : Joins(f, s, k)}
  <1> SUFFICES ASSUME T # {} PROVE FALSE
    OBVIOUS
  <1>1. PICK k \in T : \A j \in T : k <= j
    <2>1. T \in SUBSET Nat
      OBVIOUS
    <2> HIDE DEF T
    <2> QED
      BY <2>1, LeastExists
  <1>2. k # 1
    <2>1. Joins([i \in 1..1 |-> s[1]], s, 1)
      BY DEF Joins
    <2> QED
      BY <2>1
  <1>3. PICK f : Joins(f, s, k - 1)
    <2>1. k - 1 \in Nat \ {0} /\ ~(k <= k - 1)
      BY <1>2
    <2> QED
      BY <1>1, <2>1
  <1>4. k \in Nat /\ k > 1
    BY <1>2
  <1>a. PICK e : e = f[k - 1] \o s[k]
    OBVIOUS
  <1> DEFINE g == [i \in 1..k |-> IF i = k THEN e ELSE f[i]]
  <1>5. ASSUME NEW i \in 1..k
        PROVE  g[i] = IF i = 1 THEN s[i] ELSE g[i - 1] \o s[i]
    <2>1. CASE i = k
      <3>1. k - 1 \in 1..k /\ k - 1 # k
        BY <1>4
      <3>2. g[i] = e /\ g[i - 1] = f[k - 1]
        BY <2>1, <3>1
      <3> HIDE DEF g
      <3>3. i # 1
        BY <1>4, <2>1
      <3>4. g[i] = g[i - 1] \o s[i]
        BY <1>a, <2>1, <3>2, Zenon
      <3> QED
        BY <3>3, <3>4, Zenon
    <2>2. CASE i # k
      <3>1. i \in 1..(k - 1) /\ g[i] = f[i]
        BY <1>4, <2>2
      <3>2. f[i] = IF i = 1 THEN s[i] ELSE f[i - 1] \o s[i]
        BY <1>3, <3>1 DEF Joins
      <3>3. i # 1 => g[i - 1] = f[i - 1]
        BY <1>4, <2>2
      <3> QED
        BY <3>1, <3>2, <3>3
    <2> QED
      BY <2>1, <2>2
  <1>6. PICK h : h = g
    OBVIOUS
  <1>7. h = [i \in 1..k |-> h[i]]
    BY <1>6
  <1>8. \A i \in 1..k : h[i] = IF i = 1 THEN s[i] ELSE h[i - 1] \o s[i]
    BY <1>5, <1>6
  <1> HIDE DEF g
  <1>9. Joins(h, s, k)
    BY <1>7, <1>8 DEF Joins
  <1> QED
    BY <1>9

\* The members of two sequences in a row.
LEMMA JoinedMembers ==
  ASSUME NEW S, NEW s \in Seq(S), NEW t \in Seq(S)
  PROVE  /\ s \o t \in Seq(S)
         /\ \A x : x \in ToSet(s \o t) <=> x \in ToSet(s) \/ x \in ToSet(t)
  <1>1. /\ Len(s) \in Nat /\ Len(t) \in Nat /\ s \o t \in Seq(S) /\ Len(s \o t) = Len(s) + Len(t)
        /\ DOMAIN s = 1..Len(s) /\ DOMAIN t = 1..Len(t) /\ DOMAIN (s \o t) = 1..(Len(s) + Len(t))
        /\ \A i \in 1..Len(s) : (s \o t)[i] = s[i]
        /\ \A i \in 1..Len(t) : (s \o t)[Len(s) + i] = t[i]
    OBVIOUS
  <1>2. ASSUME NEW i \in 1..(Len(s) + Len(t))
        PROVE  (s \o t)[i] \in ToSet(s) \/ (s \o t)[i] \in ToSet(t)
    <2>1. CASE i \in 1..Len(s)
      BY <1>1, <2>1 DEF ToSet
    <2>2. CASE i \notin 1..Len(s)
      <3>1. i - Len(s) \in 1..Len(t) /\ i = Len(s) + (i - Len(s))
        BY <1>1, <2>2
      <3> QED
        BY <1>1, <3>1 DEF ToSet
    <2> QED
      BY <2>1, <2>2
  <1>3. \A i \in 1..Len(s) : s[i] \in ToSet(s \o t)
    <2>1. \A i \in 1..Len(s) : i \in 1..(Len(s) + Len(t))
      BY <1>1
    <2> QED
      BY <1>1, <2>1 DEF ToSet
  <1>4. \A i \in 1..Len(t) : t[i] \in ToSet(s \o t)
    <2>1. \A i \in 1..Len(t) : Len(s) + i \in 1..(Len(s) + Len(t))
      BY <1>1
    <2> QED
      BY <1>1, <2>1 DEF ToSet
  <1> QED
    BY <1>1, <1>2, <1>3, <1>4 DEF ToSet

\* What a flush holds is what its events hold.
LEMMA FlattenedMembers ==
  ASSUME NEW S, NEW s \in Seq(Seq(S))
  PROVE  /\ FlattenSeq(s) \in Seq(S)
         /\ \A x : x \in ToSet(FlattenSeq(s)) <=> \E i \in 1..Len(s) : x \in ToSet(s[i])
  <1>0. Len(s) \in Nat /\ \A i \in 1..Len(s) : s[i] \in Seq(S)
    OBVIOUS
  <1>1. CASE Len(s) = 0
    <2>1. s = <<>> /\ FlattenSeq(s) = <<>>
      BY <1>1 DEF FlattenSeq
    <2>2. ToSet(<<>>) = {} /\ 1..0 = {} /\ <<>> \in Seq(S)
      BY DEF ToSet
    <2> QED
      BY <1>1, <2>1, <2>2
  <1>2. CASE Len(s) # 0
    <2> DEFINE f == CHOOSE g : Joins(g, s, Len(s))
    <2>1. FlattenSeq(s) = f[Len(s)]
      BY <1>2 DEF FlattenSeq, Joins
    <2>2. Joins(f, s, Len(s))
      BY <1>0, <1>2, JoinExists
    <2> HIDE DEF f
    <2> DEFINE Fits(i) == /\ f[i] \in Seq(S)
                          /\ \A x : x \in ToSet(f[i]) <=> \E k \in 1..i : x \in ToSet(s[k])
               T == {i \in 1..Len(s) : ~Fits(i)}
    <2>3. T = {}
      <3> SUFFICES ASSUME T # {} PROVE FALSE
        OBVIOUS
      <3>1. PICK i \in T : \A j \in T : i <= j
        <4>1. T \in SUBSET Nat
          BY <1>0
        <4> HIDE DEF T
        <4> QED
          BY <4>1, LeastExists
      <3>2. f[i] = IF i = 1 THEN s[i] ELSE f[i - 1] \o s[i]
        BY <2>2 DEF Joins
      <3>3. CASE i = 1
        BY <1>0, <3>2, <3>3
      <3>4. CASE i # 1
        <4>1. i - 1 \in 1..Len(s) /\ ~(i <= i - 1) /\ i \in 1..Len(s)
          BY <1>0, <3>4
        <4>2. Fits(i - 1)
          BY <3>1, <4>1
        <4>3. f[i] = f[i - 1] \o s[i] /\ s[i] \in Seq(S) /\ f[i - 1] \in Seq(S)
          BY <1>0, <3>2, <3>4, <4>1, <4>2
        <4>4. \A x : x \in ToSet(f[i]) <=> x \in ToSet(f[i - 1]) \/ x \in ToSet(s[i])
          BY <4>3, JoinedMembers
        <4>5. \A x : (\E k \in 1..i : x \in ToSet(s[k]))
                       <=> (\E k \in 1..(i - 1) : x \in ToSet(s[k])) \/ x \in ToSet(s[i])
          <5>1. 1..i = 1..(i - 1) \cup {i}
            BY <4>1
          <5> QED
            BY <5>1
        <4>6. Fits(i)
          BY <4>2, <4>3, <4>4, <4>5
        <4> QED
          BY <4>6
      <3> QED
        BY <3>3, <3>4
    <2>4. Len(s) \in 1..Len(s) /\ Len(s) \notin T
      <3>1. Len(s) \in 1..Len(s)
        BY <1>0, <1>2
      <3> HIDE DEF T
      <3> QED
        BY <2>3, <3>1
    <2>5. Fits(Len(s))
      BY <2>4
    <2> QED
      BY <2>1, <2>5
  <1> QED
    BY <1>1, <1>2
\* A finite set, enumerated.
LEMMA EnumeratedSet ==
  ASSUME NEW S, IsFiniteSet(S)
  PROVE  /\ Cardinality(S) \in Nat
         /\ SetToSeq(S) \in [1..Cardinality(S) -> S]
         /\ \A x \in S : \E i \in 1..Cardinality(S) : SetToSeq(S)[i] = x
  <1>1. Cardinality(S) \in Nat /\ ExistsBijection(1..Cardinality(S), S)
    BY FS_CardinalityType
  <1>2. \E f \in [1..Cardinality(S) -> S] : IsInjective(f)
    BY <1>1 DEF ExistsBijection, Bijection, Injection
  <1>3. SetToSeq(S) \in [1..Cardinality(S) -> S] /\ IsInjective(SetToSeq(S))
    BY <1>2 DEF SetToSeq
  <1>4. Cardinality(1..Cardinality(S)) = Cardinality(S)
    BY <1>1, FS_Interval
  <1>5. SetToSeq(S) \in Surjection(1..Cardinality(S), S)
    BY <1>3, <1>4, FS_Injection DEF Injection
  <1> QED
    BY <1>1, <1>3, <1>5 DEF Surjection

-----------------------------------------------------------------------------
(* No change is lost on its way from the worktree to the inventory.         *)

Hints == [kind : Kinds, path : Paths]

WatchTypes ==
    /\ tree \in [Paths -> Content] /\ known \in [Paths -> 0..MaxVersion]
    /\ backend \in {"none", "native", "polling"}
    /\ channel \in Seq(Seq(Hints))
    /\ previous = NoSnapshot \/ previous \in [Paths -> Content]
    /\ recovery \in Reasons \cup {"none"}
    /\ batch \in [hints : Seq(Hints), over : BOOLEAN, first : BOOLEAN, again : BOOLEAN]
    /\ \A h \in ToSet(batch.hints) : h.kind # "Error"
    /\ queue \subseteq Paths
    /\ step \in {"idle", "batch", "confirm", "apply", "scan"}
    /\ ahead \subseteq Plain
    /\ touches \in 0..MaxTouches

Speaks(h, p) == h.path = p /\ h.kind # "Other"

Told(p) == \E i \in 1..Len(channel) : \E h \in ToSet(channel[i]) : Speaks(h, p)

InBatch(p) ==
    step \in {"batch", "confirm"} /\ (batch.over \/ batch.first \/ \E h \in ToSet(batch.hints) : Speaks(h, p))

\* What will lead to p whatever is polled next.  A requirement that the running scan will
\* acknowledge is not among it.
Kept(p) ==
    \/ backend = "none"
    \/ recovery # "none" /\ step # "scan"
    \/ Told(p) \/ InBatch(p) \/ p \in queue \/ p \in ahead
    \/ backend = "polling" /\ previous = NoSnapshot

\* A path of which a poll would say nothing is known as the last poll saw it.
PathIsKept(p) ==
    /\ Owed(p) => Kept(p) \/ (backend = "polling" /\ previous[p] # tree[p])
    /\ backend = "polling" /\ previous # NoSnapshot =>
          known[p] = previous[p] \/ previous[p] = Link \/ Kept(p)

WatchInv ==
    /\ WatchTypes
    /\ step \in {"idle", "batch"} => queue = {}
    /\ backend = "none" => recovery = "none" /\ step = "idle"
    /\ \A p \in Plain : PathIsKept(p)

LEMMA WatchStarts == WatchInit => WatchInv
  <1> SUFFICES ASSUME WatchInit PROVE WatchInv
    OBVIOUS
  <1> USE WatchAssumption DEF WatchInit
  <1>1. WatchTypes
    <2>1. <<>> \in Seq(Hints) /\ <<>> \in Seq(Seq(Hints)) /\ ToSet(<<>>) = {}
      BY DEF ToSet
    <2>2. batch \in [hints : Seq(Hints), over : BOOLEAN, first : BOOLEAN, again : BOOLEAN]
      BY <2>1 DEF NoBatch
    <2>3. \A h \in ToSet(batch.hints) : h.kind # "Error"
      BY <2>1 DEF NoBatch
    <2>4. tree \in [Paths -> Content] /\ known \in [Paths -> 0..MaxVersion]
      BY DEF Content, Link
    <2> QED
      BY <2>1, <2>2, <2>3, <2>4 DEF WatchTypes
  <1>2. \A p \in Plain : PathIsKept(p)
    BY DEF PathIsKept, Kept
  <1> QED
    BY <1>1, <1>2 DEF WatchInv

LEMMA CoveredByParts == WatchInv => NothingIsLost
  <1> SUFFICES ASSUME WatchInv PROVE NothingIsLost
    OBVIOUS
  <1>1. /\ DOMAIN channel = 1..Len(channel)
        /\ \A i \in 1..Len(channel) : \A h \in ToSet(channel[i]) : h \in Hints
        /\ \A h \in ToSet(batch.hints) : h \in Hints /\ h.kind # "Error"
    <2>1. channel \in Seq(Seq(Hints)) /\ batch.hints \in Seq(Hints)
      BY DEF WatchInv, WatchTypes
    <2>2. ASSUME NEW s \in Seq(Hints) PROVE \A h \in ToSet(s) : h \in Hints
      BY DEF ToSet
    <2>3. \A i \in 1..Len(channel) : channel[i] \in Seq(Hints)
      BY <2>1
    <2> QED
      BY <2>1, <2>2, <2>3 DEF WatchInv, WatchTypes
  <1>2. WatchTypeOK
    BY <1>1 DEF WatchInv, WatchTypes, WatchTypeOK, Hints
  <1>3. ASSUME NEW p \in Plain, Owed(p) PROVE Covered(p) \/ p \in ahead
    <2>1. Kept(p) \/ (backend = "polling" /\ previous[p] # tree[p])
      BY <1>3 DEF WatchInv, PathIsKept
    <2> QED
      BY <1>1, <2>1 DEF Kept, Told, InBatch, Speaks, Covered
  <1> QED
    BY <1>2, <1>3 DEF NothingIsLost

\* A requirement that no scan is about to acknowledge keeps every path.
LEMMA RequiredKeepsAll ==
  ASSUME recovery' # "none", step' # "scan"
  PROVE  \A p \in Plain : PathIsKept(p)'
  BY DEF PathIsKept, Kept

\* What is sent is told, and what was told stays.
LEMMA SentIsTold ==
  ASSUME WatchTypes, NEW events \in Seq(Seq(Hints)), Sends(events)
  PROVE  /\ channel' \in Seq(Seq(Hints))
         /\ \A p \in Plain : Told(p) => Told(p)'
         /\ backend = "native" =>
              \A i \in 1..Len(events) : \A h \in ToSet(events[i]) : \A p \in Plain :
                  Speaks(h, p) => Told(p)'
  <1>1. CASE backend # "native"
    BY <1>1 DEF Sends, WatchTypes, Told
  <1>2. CASE backend = "native"
    <2>1. channel' = channel \o events /\ channel \in Seq(Seq(Hints))
      BY <1>2 DEF Sends, WatchTypes
    <2>2. /\ Len(channel) \in Nat /\ Len(events) \in Nat /\ channel' \in Seq(Seq(Hints))
          /\ Len(channel') = Len(channel) + Len(events)
          /\ \A i \in 1..Len(channel) : channel'[i] = channel[i]
          /\ \A i \in 1..Len(events) : channel'[Len(channel) + i] = events[i]
      BY <2>1
    <2>3. /\ \A i \in 1..Len(channel) : i \in 1..Len(channel')
          /\ \A i \in 1..Len(events) : Len(channel) + i \in 1..Len(channel')
      BY <2>2
    <2>4. \A p \in Plain : Told(p) => Told(p)'
      BY <2>2, <2>3 DEF Told
    <2>5. ASSUME NEW i \in 1..Len(events), NEW h \in ToSet(events[i]), NEW p \in Plain, Speaks(h, p)
          PROVE  Told(p)'
      BY <2>2, <2>3, <2>5 DEF Told, Speaks
    <2> QED
      BY <2>2, <2>4, <2>5
  <1> QED
    BY <1>1, <1>2

\* An edit of the worktree: a path it changes is told of, or will be found by a poll.
LEMMA EditKeeps ==
  ASSUME WatchInv, Worktree, NEW p \in Plain, Told(p) => Told(p)',
         tree'[p] = tree[p] \/ (backend = "native" => Told(p)')
  PROVE  PathIsKept(p)'
  <1>1. PathIsKept(p) /\ UNCHANGED <<known, backend, previous, recovery, batch, queue, step, ahead>>
    BY DEF WatchInv, Worktree
  <1>2. InBatch(p) => InBatch(p)'
    BY <1>1 DEF InBatch
  <1>3. Kept(p) => Kept(p)'
    BY <1>1, <1>2 DEF Kept
  <1>4. CASE tree'[p] = tree[p]
    BY <1>1, <1>3, <1>4 DEF PathIsKept, Owed
  <1>5. CASE backend = "native" => Told(p)'
    <2>1. CASE backend = "native"
      BY <1>1, <1>5, <2>1 DEF PathIsKept, Kept
    <2>2. CASE backend # "native"
      <3>1. backend = "none" \/ backend = "polling"
        BY <2>2 DEF WatchInv, WatchTypes
      <3>2. CASE backend = "none"
        BY <1>1, <3>2 DEF PathIsKept, Kept
      <3>3. CASE backend = "polling"
        <4>1. CASE previous = NoSnapshot
          BY <1>1, <3>3, <4>1 DEF PathIsKept, Kept
        <4>2. CASE previous # NoSnapshot
          BY <1>1, <1>3, <3>3, <4>2 DEF PathIsKept, Owed
        <4> QED
          BY <4>1, <4>2
      <3> QED
        BY <3>1, <3>2, <3>3
    <2> QED
      BY <2>1, <2>2
  <1> QED
    BY <1>4, <1>5
\* The worktree changes, or the backend makes a noise.
LEMMA EditStep ==
  ASSUME WatchInv,
         \/ \E p \in Plain, v \in Content : Touch(p, v)
         \/ \E p \in Ignored \cup Secret, v \in {0, 1} : Touch(p, v)
         \/ \E p, q \in Plain, both \in BOOLEAN : Rename(p, q, both)
         \/ \E k \in {"Other", "Error"} : Noise(k)
  PROVE  WatchInv'
  <1> USE WatchAssumption
  <1>0. WatchTypes
    BY DEF WatchInv
  <1>a. ASSUME NEW h \in Hints
        PROVE  /\ <<h>> \in Seq(Hints) /\ << <<h>> >> \in Seq(Seq(Hints))
               /\ Len(<< <<h>> >>) = 1 /\ ToSet(<< <<h>> >>[1]) = {h}
    BY DEF ToSet
  \* What every one of these steps leaves to be shown.
  <1>b. ASSUME Worktree, touches' \in 0..MaxTouches, tree' \in [Paths -> Content],
               NEW events \in Seq(Seq(Hints)), Sends(events),
               \A p \in Plain : tree'[p] # tree[p] =>
                   \E i \in 1..Len(events) : \E h \in ToSet(events[i]) : Speaks(h, p)
        PROVE  WatchInv'
    <2>1. channel' \in Seq(Seq(Hints))
      BY <1>0, <1>b, SentIsTold
    <2>2. ASSUME NEW p \in Plain PROVE PathIsKept(p)'
      <3>1. Told(p) => Told(p)'
        BY <1>0, <1>b, SentIsTold
      <3>2. tree'[p] = tree[p] \/ (backend = "native" => Told(p)')
        BY <1>0, <1>b, SentIsTold
      <3> QED
        BY <1>b, <3>1, <3>2, EditKeeps
    <2>3. WatchTypes'
      BY <1>0, <1>b, <2>1 DEF WatchTypes, Worktree
    <2> QED
      BY <1>b, <2>2, <2>3 DEF WatchInv, Worktree
  <1>1. ASSUME NEW p \in Paths, NEW v \in Content, Touch(p, v) PROVE WatchInv'
    <2> DEFINE hint == Hint(IF tree[p] = 0 THEN "Created" ELSE IF v = 0 THEN "Removed" ELSE "Modified", p)
    <2>1. hint \in Hints /\ Speaks(hint, p)
      BY DEF Hint, Hints, Kinds, Speaks
    <2>2. Worktree /\ touches' \in 0..MaxTouches /\ tree' = [tree EXCEPT ![p] = v] /\ Sends(<< <<hint>> >>)
      BY <1>0, <1>1 DEF Touch, Happens, WatchTypes
    <2> HIDE DEF hint
    <2>3. tree' \in [Paths -> Content]
      BY <1>0, <2>2 DEF WatchTypes
    <2>4. \A q \in Plain : tree'[q] # tree[q] => q = p
      BY <1>0, <2>2 DEF WatchTypes, Paths
    <2>5. \A q \in Plain : tree'[q] # tree[q] =>
             \E i \in 1..Len(<< <<hint>> >>) : \E h \in ToSet(<< <<hint>> >>[i]) : Speaks(h, q)
      <3>1. 1 \in 1..Len(<< <<hint>> >>) /\ hint \in ToSet(<< <<hint>> >>[1])
        BY <1>a, <2>1
      <3> QED
        BY <2>1, <2>4, <3>1
    <2>6. << <<hint>> >> \in Seq(Seq(Hints))
      BY <1>a, <2>1
    <2> QED
      BY <1>b, <2>2, <2>3, <2>5, <2>6
  <1>2. ASSUME NEW p \in Plain, NEW q \in Plain, NEW both \in BOOLEAN, Rename(p, q, both) PROVE WatchInv'
    <2> DEFINE from == Hint("RenamedFrom", p)
               to == Hint("RenamedTo", q)
               events == IF both THEN << <<from, to>> >> ELSE << <<from>>, <<to>> >>
    <2>1. from \in Hints /\ to \in Hints /\ Speaks(from, p) /\ Speaks(to, q)
      BY DEF Hint, Hints, Kinds, Speaks, Paths
    <2>2. /\ Worktree /\ touches' \in 0..MaxTouches
          /\ tree' = [tree EXCEPT ![p] = 0, ![q] = tree[p]] /\ Sends(events)
      BY <1>0, <1>2 DEF Rename, Happens, WatchTypes
    <2> HIDE DEF from, to
    <2>3. tree' \in [Paths -> Content]
      <3>1. p \in Paths /\ q \in Paths /\ 0 \in Content /\ tree \in [Paths -> Content]
        BY <1>0 DEF WatchTypes, Paths, Content, Link
      <3> QED
        BY <2>2, <3>1
    <2>4. \A x \in Plain : tree'[x] # tree[x] => x \in {p, q}
      BY <1>0, <2>2 DEF WatchTypes, Paths
    <2>5. /\ events \in Seq(Seq(Hints))
          /\ \E i \in 1..Len(events) : from \in ToSet(events[i])
          /\ \E i \in 1..Len(events) : to \in ToSet(events[i])
      <3>1. CASE both
        <4>1. events = << <<from, to>> >>
          BY <3>1
        <4>2. <<from, to>> \in Seq(Hints) /\ from \in ToSet(<<from, to>>) /\ to \in ToSet(<<from, to>>)
          <5>1. /\ <<from, to>> \in Seq(Hints) /\ DOMAIN <<from, to>> = 1..2
                /\ <<from, to>>[1] = from /\ <<from, to>>[2] = to
            BY <2>1
          <5> QED
            BY <5>1 DEF ToSet
        <4> HIDE DEF events
        <4> QED
          BY <4>1, <4>2
      <3>2. CASE ~both
        <4>1. events = << <<from>>, <<to>> >>
          BY <3>2
        <4>2. /\ <<from>> \in Seq(Hints) /\ <<to>> \in Seq(Hints)
              /\ from \in ToSet(<<from>>) /\ to \in ToSet(<<to>>)
          BY <2>1 DEF ToSet
        <4> HIDE DEF events
        <4>3. Len(events) = 2 /\ events[1] = <<from>> /\ events[2] = <<to>>
          BY <4>1
        <4>4. 1 \in 1..2 /\ 2 \in 1..2
          OBVIOUS
        <4>5. events \in Seq(Seq(Hints))
          BY <4>1, <4>2
        <4> QED
          BY <4>2, <4>3, <4>4, <4>5
      <3> QED
        BY <3>1, <3>2
    <2> HIDE DEF events
    <2>6. \A x \in Plain : tree'[x] # tree[x] =>
             \E i \in 1..Len(events) : \E h \in ToSet(events[i]) : Speaks(h, x)
      BY <2>1, <2>4, <2>5
    <2> QED
      BY <1>b, <2>2, <2>3, <2>5, <2>6
  <1>3. ASSUME NEW k \in {"Other", "Error"}, Noise(k) PROVE WatchInv'
    <2> DEFINE hint == Hint(k, CHOOSE p \in Plain : TRUE)
    <2>1. hint \in Hints
      BY DEF Hint, Hints, Kinds, Paths
    <2>2. /\ Worktree /\ touches' \in 0..MaxTouches /\ tree' = tree /\ Sends(<< <<hint>> >>)
      BY <1>0, <1>3 DEF Noise, Happens, WatchTypes
    <2> HIDE DEF hint
    <2>3. << <<hint>> >> \in Seq(Seq(Hints)) /\ tree' \in [Paths -> Content]
      BY <1>0, <1>a, <2>1, <2>2 DEF WatchTypes
    <2> QED
      BY <1>b, <2>2, <2>3
  <1> QED
    BY <1>1, <1>2, <1>3 DEF Paths, Content, Link

\* A backend is bound, or a signal is absorbed: both require a scan.
LEMMA SignalStep ==
  ASSUME WatchInv,
         \/ \E kind \in {"native", "polling"} : BindBackend(kind)
         \/ \E reason \in {"Reconnect", "BranchChange"} : Absorb(reason)
  PROVE  WatchInv'
  <1> USE WatchAssumption
  <1>0. WatchTypes
    BY DEF WatchInv
  <1>1. /\ step = "idle" /\ step' = "idle" /\ queue' = queue /\ backend' # "none"
        /\ recovery' # "none" /\ recovery' \in Reasons /\ backend' \in {"native", "polling"}
        /\ channel' \in Seq(Seq(Hints)) /\ (previous' = previous \/ previous' = NoSnapshot)
        /\ UNCHANGED <<tree, known, batch, ahead>> /\ touches' \in 0..MaxTouches
    <2>1. <<>> \in Seq(Seq(Hints))
      OBVIOUS
    <2>2. CASE \E kind \in {"native", "polling"} : BindBackend(kind)
      BY <1>0, <2>1, <2>2 DEF BindBackend, RequireFullScan, WatchTypes, Reasons, Happens
    <2>3. CASE \E reason \in {"Reconnect", "BranchChange"} : Absorb(reason)
      BY <1>0, <2>1, <2>3 DEF Absorb, RequireFullScan, WatchTypes, Reasons, Happens
    <2> QED
      BY <2>2, <2>3
  <1>2. WatchTypes'
    BY <1>0, <1>1 DEF WatchTypes
  <1>3. \A p \in Plain : PathIsKept(p)'
    BY <1>1, RequiredKeepsAll
  <1> QED
    BY <1>1, <1>2, <1>3 DEF WatchInv

\* A drain that neither meets an error nor fills up has every hint of the channel.
LEMMA DrainStep ==
  ASSUME WatchInv, Drain
  PROVE  WatchInv'
  <1>0. WatchTypes /\ queue = {}
    BY DEF WatchInv, Drain
  <1> DEFINE HintsOf(k) == FlattenSeq(SubSeq(channel, 1, k))
             full == {k \in 1..Len(channel) : Len(HintsOf(k)) >= MaxDrain}
             n == IF full = {} THEN Len(channel) ELSE CHOOSE k \in full : \A j \in full : k <= j
             over == n < Len(channel)
  <1>1. /\ step = "idle" /\ backend = "native"
        /\ channel' = SubSeq(channel, IF over THEN n + 2 ELSE n + 1, Len(channel))
        /\ IF \E h \in ToSet(HintsOf(n)) : h.kind = "Error"
           THEN RequireFullScan("Reconnect") /\ UNCHANGED <<batch, step>>
           ELSE /\ batch' = [NoBatch EXCEPT !.hints = HintsOf(n), !.over = over]
                /\ step' = "batch"
                /\ UNCHANGED recovery
        /\ UNCHANGED <<tree, known, backend, previous, queue, ahead, touches>>
    BY DEF Drain
  <1>2. channel \in Seq(Seq(Hints)) /\ Len(channel) \in Nat
    BY <1>0 DEF WatchTypes
  <1>3. n \in 0..Len(channel)
    <2>1. CASE full = {}
      BY <1>2, <2>1
    <2>2. CASE full # {}
      <3>1. full \in SUBSET Nat /\ full \subseteq 1..Len(channel)
        BY <1>2
      <3>2. n = CHOOSE k \in full : \A j \in full : k <= j
        BY <2>2
      <3> HIDE DEF full, n
      <3>3. n \in full
        BY <2>2, <3>1, <3>2, LeastExists
      <3> QED
        BY <1>2, <3>1, <3>3
    <2> QED
      BY <2>1, <2>2
  <1> HIDE DEF n, full
  <1>4. SubSeq(channel, 1, n) \in Seq(Seq(Hints)) /\ channel' \in Seq(Seq(Hints))
    BY <1>1, <1>2, <1>3
  <1>5. HintsOf(n) \in Seq(Hints)
    BY <1>4, FlattenedMembers
  <1>6. CASE \E h \in ToSet(HintsOf(n)) : h.kind = "Error"
    <2>1. recovery' # "none" /\ recovery' \in Reasons /\ UNCHANGED <<batch, step>>
      BY <1>0, <1>1, <1>6 DEF RequireFullScan, Reasons, WatchTypes
    <2>2. \A p \in Plain : PathIsKept(p)'
      BY <1>1, <2>1, RequiredKeepsAll
    <2>3. WatchTypes'
      BY <1>0, <1>1, <1>4, <2>1 DEF WatchTypes
    <2> QED
      BY <1>0, <1>1, <2>2, <2>3 DEF WatchInv
  <1>7. CASE ~\E h \in ToSet(HintsOf(n)) : h.kind = "Error"
    <2>1. /\ batch'.hints = HintsOf(n) /\ batch'.over = over /\ batch'.first = FALSE
          /\ batch' \in [hints : Seq(Hints), over : BOOLEAN, first : BOOLEAN, again : BOOLEAN]
          /\ step' = "batch" /\ recovery' = recovery
      <3>1. /\ batch' = [NoBatch EXCEPT !.hints = HintsOf(n), !.over = over]
            /\ step' = "batch" /\ recovery' = recovery
        BY <1>1, <1>7, Zenon
      <3>2. over \in BOOLEAN
        <4>1. over = TRUE \/ over = FALSE
          OBVIOUS
        <4> QED
          BY <4>1
      <3> HIDE DEF HintsOf, over
      <3> QED
        BY <1>5, <3>1, <3>2 DEF NoBatch
    <2>2. WatchTypes'
      BY <1>0, <1>1, <1>4, <1>7, <2>1 DEF WatchTypes
    <2>3. ASSUME NEW p \in Plain PROVE PathIsKept(p)'
      <3>1. CASE over
        BY <1>1, <2>1, <3>1 DEF PathIsKept, Kept, InBatch
      <3>2. CASE ~over
        <4>1. n = Len(channel)
          BY <1>2, <1>3, <3>2
        <4>2. /\ Len(SubSeq(channel, 1, n)) = Len(channel)
              /\ \A i \in 1..Len(channel) : SubSeq(channel, 1, n)[i] = channel[i]
          BY <1>2, <4>1
        <4>3. \A h : h \in ToSet(HintsOf(n)) <=> \E i \in 1..Len(channel) : h \in ToSet(channel[i])
          BY <1>4, <4>2, FlattenedMembers
        <4>4. Told(p) => InBatch(p)'
          BY <2>1, <4>3 DEF Told, InBatch, Speaks
        <4>5. ~InBatch(p)
          BY <1>1 DEF InBatch
        <4>6. Kept(p) => Kept(p)'
          BY <1>1, <2>1, <4>4, <4>5 DEF Kept
        <4>7. PathIsKept(p)
          BY DEF WatchInv
        <4> QED
          BY <1>1, <4>6, <4>7 DEF PathIsKept, Owed
      <3> QED
        BY <3>1, <3>2
    <2> QED
      BY <1>0, <1>1, <2>1, <2>2, <2>3 DEF WatchInv
  <1> QED
    BY <1>6, <1>7
\* The difference of two polls has a hint for every path of it.
LEMMA PollStep ==
  ASSUME WatchInv, Poll
  PROVE  WatchInv'
  <1> USE WatchAssumption
  <1>0. WatchTypes /\ queue = {}
    BY DEF WatchInv, Poll
  <1> DEFINE changed == IF previous = NoSnapshot THEN {} ELSE {p \in Paths : previous[p] # tree[p]}
             HintOf(p) == Hint(IF tree[p] = 0 THEN "Removed"
                               ELSE IF previous[p] = 0 THEN "Created" ELSE "Modified", p)
             hints == [i \in 1..Cardinality(changed) |-> HintOf(SetToSeq(changed)[i])]
  <1>1. /\ step = "idle" /\ backend = "polling" /\ previous' = tree /\ step' = "batch"
        /\ batch' = [NoBatch EXCEPT !.hints = hints, !.first = previous = NoSnapshot]
        /\ UNCHANGED <<tree, known, backend, channel, recovery, queue, ahead, touches>>
    BY DEF Poll
  <1>2. changed \in SUBSET Paths
    OBVIOUS
  <1>3. /\ Cardinality(changed) \in Nat
        /\ SetToSeq(changed) \in [1..Cardinality(changed) -> changed]
        /\ \A x \in changed : \E i \in 1..Cardinality(changed) : SetToSeq(changed)[i] = x
    <2>1. IsFiniteSet(changed)
      BY <1>2, FS_Subset
    <2> HIDE DEF changed
    <2> QED
      BY <2>1, EnumeratedSet
  <1>4. ASSUME NEW p \in Paths
        PROVE  HintOf(p) \in Hints /\ HintOf(p).kind # "Error" /\ Speaks(HintOf(p), p)
    BY DEF Hint, Hints, Kinds, Speaks
  <1> HIDE DEF HintOf
  <1>5. /\ hints \in Seq(Hints)
        /\ \A h \in ToSet(hints) : h.kind # "Error"
        /\ \A p \in changed : \E h \in ToSet(hints) : Speaks(h, p)
    <2> HIDE DEF changed
    <2>1. \A i \in 1..Cardinality(changed) : SetToSeq(changed)[i] \in Paths
      BY <1>2, <1>3
    <2>2. hints \in Seq(Hints) /\ DOMAIN hints = 1..Cardinality(changed)
      BY <1>3, <1>4, <2>1
    <2>3. \A h \in ToSet(hints) : h.kind # "Error"
      BY <1>4, <2>1, <2>2 DEF ToSet
    <2>4. ASSUME NEW p \in changed PROVE \E h \in ToSet(hints) : Speaks(h, p)
      <3>1. PICK i \in 1..Cardinality(changed) : SetToSeq(changed)[i] = p
        BY <1>3
      <3>2. hints[i] = HintOf(p) /\ hints[i] \in ToSet(hints)
        BY <2>2, <3>1 DEF ToSet
      <3> QED
        BY <1>2, <1>4, <3>2
    <2> QED
      BY <2>2, <2>3, <2>4
  <1> HIDE DEF hints
  <1>6. /\ batch'.hints = hints /\ batch'.over = FALSE /\ batch'.first = (previous = NoSnapshot)
        /\ batch' \in [hints : Seq(Hints), over : BOOLEAN, first : BOOLEAN, again : BOOLEAN]
    <2>1. PICK unseen \in BOOLEAN : unseen = (previous = NoSnapshot)
      OBVIOUS
    <2> QED
      BY <1>1, <1>5, <2>1 DEF NoBatch
  <1>7. WatchTypes'
    BY <1>0, <1>1, <1>5, <1>6 DEF WatchTypes
  <1>8. ASSUME NEW p \in Plain PROVE PathIsKept(p)'
    <2>1. CASE previous = NoSnapshot
      BY <1>1, <1>6, <2>1 DEF PathIsKept, Kept, InBatch
    <2>2. CASE previous # NoSnapshot /\ previous[p] # tree[p]
      <3>1. p \in changed
        BY <2>2 DEF Paths
      <3>2. InBatch(p)'
        BY <1>1, <1>5, <1>6, <3>1 DEF InBatch, Speaks
      <3> QED
        BY <3>2 DEF PathIsKept, Kept
    <2>3. CASE previous # NoSnapshot /\ previous[p] = tree[p]
      <3>1. ~InBatch(p) /\ PathIsKept(p)
        BY <1>1 DEF InBatch, WatchInv
      <3>2. Told(p) => Told(p)'
        BY <1>1 DEF Told
      <3>3. Kept(p) => Kept(p)'
        BY <1>1, <2>3, <3>1, <3>2 DEF Kept
      <3> QED
        BY <1>1, <2>3, <3>1, <3>3 DEF PathIsKept, Owed
    <2> QED
      BY <2>1, <2>2, <2>3
  <1> QED
    BY <1>0, <1>1, <1>7, <1>8 DEF WatchInv

\* A scan is required and everything else put away, whatever the caller held.
LEMMA ScanStep ==
  ASSUME WatchInv, NEW reason \in Reasons, FullScan(reason),
         UNCHANGED <<tree, known, backend, channel, previous, touches>>, backend # "none"
  PROVE  WatchInv'
  <1>0. WatchTypes
    BY DEF WatchInv
  <1>1. NoBatch \in [hints : Seq(Hints), over : BOOLEAN, first : BOOLEAN, again : BOOLEAN] /\ ToSet(NoBatch.hints) = {}
    BY DEF NoBatch, ToSet
  <1>2. /\ recovery' # "none" /\ recovery' \in Reasons /\ queue' = {} /\ step' = "idle"
        /\ ahead' = ahead /\ batch' = NoBatch
    BY <1>0 DEF FullScan, RequireFullScan, Reasons, WatchTypes
  <1>3. WatchTypes'
    BY <1>0, <1>1, <1>2 DEF WatchTypes
  <1>4. \A p \in Plain : PathIsKept(p)'
    BY <1>2, RequiredKeepsAll
  <1> QED
    BY <1>2, <1>3, <1>4 DEF WatchInv

\* A batch that no confirmation settles is given up for a scan.
LEMMA GiveUpStep ==
  ASSUME WatchInv, RequireScan
  PROVE  WatchInv'
  BY ScanStep DEF RequireScan, Reasons, WatchInv

\* What one batch may do: every path it speaks of is re-read, a refused link or held by the
\* batch, or all are scanned.
LEMMA ReconcileStep ==
  ASSUME WatchInv, Reconcile
  PROVE  WatchInv'
  <1> USE WatchAssumption
  <1>0. WatchTypes /\ queue = {} /\ step = "batch" /\ backend # "none"
    BY DEF WatchInv, Reconcile
  <1>1. UNCHANGED <<tree, known, backend, channel, previous, touches>>
    BY DEF Reconcile
  <1>2. ASSUME NEW reason \in Reasons, FullScan(reason) PROVE WatchInv'
    BY <1>0, <1>1, <1>2, ScanStep
  <1> DEFINE Applies == ~batch.first /\ ~batch.over /\ recovery = "none" /\ Decided /\ UNCHANGED recovery
  <1>3. (\E reason \in Reasons : FullScan(reason)) \/ Applies
    <2>1. "BackendSwitch" \in Reasons /\ "Overflow" \in Reasons /\ "BufferOverflow" \in Reasons
          /\ (recovery # "none" => recovery \in Reasons)
      BY <1>0 DEF Reasons, WatchTypes
    <2>0. batch.hints \in Seq(Hints) /\ Len(batch.hints) \in Nat /\ MaxDrain \in Nat
      BY <1>0 DEF WatchTypes, WatchAssumption
    <2>2. CASE batch.first \/ batch.over \/ Len(batch.hints) > MaxDrain \/ recovery # "none"
      <3>1. CASE batch.first
        <4>1. FullScan("BackendSwitch")
          BY <3>1 DEF Reconcile
        <4> QED
          BY <2>1, <4>1
      <3>2. CASE ~batch.first /\ batch.over
        <4>1. FullScan("Overflow")
          BY <3>2 DEF Reconcile
        <4> QED
          BY <2>1, <4>1
      <3>3. CASE ~batch.first /\ ~batch.over /\ Len(batch.hints) > MaxDrain
        <4>1. ~(Len(batch.hints) <= MaxDrain)
          BY <2>0, <3>3
        <4>2. FullScan("BufferOverflow")
          BY <3>3, <4>1 DEF Reconcile
        <4> QED
          BY <2>1, <4>2
      <3>4. CASE ~batch.first /\ ~batch.over /\ ~(Len(batch.hints) > MaxDrain) /\ recovery # "none"
        <4>1. Len(batch.hints) <= MaxDrain
          BY <2>0, <3>4
        <4>2. FullScan(recovery)
          BY <3>4, <4>1 DEF Reconcile
        <4> QED
          BY <2>1, <3>4, <4>2
      <3> QED
        BY <2>2, <3>1, <3>2, <3>3, <3>4
    <2>3. CASE ~(batch.first \/ batch.over \/ Len(batch.hints) > MaxDrain \/ recovery # "none")
      <3>1. batch.hints \in Seq(Hints) /\ Len(batch.hints) \in Nat
        BY <1>0 DEF WatchTypes
      <3>2. Len(batch.hints) <= MaxDrain
        BY <2>3, <3>1
      <3> QED
        BY <2>1, <2>3, <3>2 DEF Reconcile
    <2> QED
      BY <2>2, <2>3
  <1>4. CASE Applies
    <2>1. \A i \in DOMAIN batch.hints : batch.hints[i] \in Hints /\ batch.hints[i].kind # "Error"
      BY <1>0 DEF WatchTypes, ToSet
    <2> DEFINE upserts == Named(batch.hints, {"Created", "Modified", "RenamedTo"})
               hinted  == upserts \cup Named(batch.hints, {"Removed", "RenamedFrom"})
               tracked == {p \in hinted : ~IsIgnored(p)}
               refused == {p \in tracked : IsRefused(p)}
               apply   == tracked \ refused
               doubtful == (Pairing(batch.hints).cased \cap apply) \cup (refused \ Secret)
                            \cup {p \in upserts \cap apply : known[p] = 0}
               paths   == IF apply = {} THEN {} ELSE IF doubtful # {} THEN doubtful ELSE apply
    <2>2. hinted \subseteq Paths
      BY <2>1 DEF Named, Hints
    <2>3. /\ Decision.bounded = (apply # {} /\ doubtful # {}) /\ Decision.paths = paths
          /\ Decision.boundary = refused \ Secret
      BY DEF Decision
    <2>4. /\ queue' = paths /\ UNCHANGED recovery
          /\ IF apply # {} /\ doubtful # {} THEN step' = "confirm" /\ UNCHANGED batch
                                          ELSE step' = "apply" /\ batch' = NoBatch
          /\ ahead' = IF paths = {} THEN ahead \cup {p \in refused \ Secret : Outruns(p)} ELSE ahead
      BY <1>4, <2>3 DEF Decided
    <2>5. ASSUME NEW p \in Plain, InBatch(p) PROVE p \in apply \/ p \in refused \ Secret
      <3>1. PICK i \in DOMAIN batch.hints : Speaks(batch.hints[i], p)
        BY <1>4, <2>5 DEF InBatch, ToSet
      <3>2. batch.hints[i].kind \in {"Created", "Modified", "RenamedTo"} \cup {"Removed", "RenamedFrom"}
            /\ batch.hints[i].path = p
        BY <2>1, <3>1 DEF Speaks, Hints, Kinds
      <3>3. p \in hinted
        BY <3>2 DEF Named
      <3>4. ~IsIgnored(p) /\ p \notin Secret
        BY DEF IsIgnored
      <3> QED
        BY <3>3, <3>4
    <2>6. (refused \ Secret) \subseteq doubtful /\ apply \subseteq hinted /\ doubtful \subseteq hinted
          /\ \A p \in Plain : p \in refused \ Secret => tree[p] = Link
      BY DEF IsRefused
    <2> HIDE DEF upserts, hinted, tracked, refused, apply, doubtful
    <2>7. WatchTypes'
      <3>1. NoBatch \in [hints : Seq(Hints), over : BOOLEAN, first : BOOLEAN, again : BOOLEAN] /\ ToSet(NoBatch.hints) = {}
        BY DEF NoBatch, ToSet
      <3>2. batch' \in [hints : Seq(Hints), over : BOOLEAN, first : BOOLEAN, again : BOOLEAN]
            /\ \A h \in ToSet(batch'.hints) : h.kind # "Error"
        BY <1>0, <2>4, <3>1 DEF WatchTypes
      <3>3. ahead' \subseteq Plain /\ queue' \subseteq Paths /\ step' \in {"confirm", "apply"}
        BY <1>0, <2>2, <2>4, <2>6 DEF WatchTypes, Outruns
      <3> QED
        BY <1>0, <1>1, <2>4, <3>2, <3>3 DEF WatchTypes
    <2>8. ASSUME NEW p \in Plain PROVE PathIsKept(p)'
      <3>1. PathIsKept(p)
        BY DEF WatchInv
      <3>2. (Told(p) => Told(p)') /\ (p \in ahead => p \in ahead')
        BY <1>1, <2>4 DEF Told
      \* A batch that has yet to be confirmed stays with the caller.
      <3>3. CASE apply # {} /\ doubtful # {}
        <4>1. InBatch(p) => InBatch(p)'
          BY <1>0, <2>4, <3>3 DEF InBatch
        <4>2. Kept(p) => Kept(p)'
          BY <1>0, <1>1, <2>4, <3>2, <4>1 DEF Kept
        <4> QED
          BY <1>1, <3>1, <4>2 DEF PathIsKept, Owed
      <3>4. CASE ~(apply # {} /\ doubtful # {})
        <4>1. CASE InBatch(p) /\ apply # {}
          <5>1. p \in queue'
            BY <2>4, <2>5, <2>6, <3>4, <4>1
          <5> QED
            BY <5>1 DEF PathIsKept, Kept
        \* With nothing to apply only a link is left, of which no row is owed.
        <4>2. CASE InBatch(p) /\ apply = {}
          <5>1. p \in refused \ Secret /\ tree[p] = Link
            BY <2>5, <2>6, <4>2
          <5>2. Outruns(p) => p \in ahead'
            BY <2>4, <4>2, <5>1
          <5>3. Outruns(p) \/ backend # "polling" \/ previous = NoSnapshot \/ previous[p] = Link
            BY <5>1 DEF Outruns
          <5> QED
            BY <1>1, <5>1, <5>2, <5>3 DEF PathIsKept, Owed, Kept
        <4>3. CASE ~InBatch(p)
          <5>1. Kept(p) => Kept(p)'
            BY <1>0, <1>1, <2>4, <3>2, <4>3 DEF Kept
          <5> QED
            BY <1>1, <3>1, <5>1 DEF PathIsKept, Owed
        <4> QED
          BY <4>1, <4>2, <4>3
      <3> QED
        BY <3>3, <3>4
    <2> QED
      BY <1>0, <1>1, <2>4, <2>7, <2>8 DEF WatchInv
  <1> QED
    BY <1>2, <1>3, <1>4

\* A path is re-read for a batch or for the scan.
LEMMA ReadStep ==
  ASSUME WatchInv, ApplyPath \/ ScanPath
  PROVE  WatchInv'
  <1> USE WatchAssumption
  <1>0. WatchTypes
    BY DEF WatchInv
  <1>1. PICK r : r = NextPath
    OBVIOUS
  <1>2. /\ r \in queue /\ r \in Paths /\ step \in {"apply", "confirm", "scan"}
        /\ Reread(r) /\ queue' = queue \ {r}
        /\ ahead' = IF Outruns(r) THEN ahead \cup {r} ELSE ahead \ {r}
        /\ UNCHANGED <<tree, backend, channel, previous, recovery, batch, step, touches>>
    <2>1. r \in queue
      BY <1>1 DEF ApplyPath, ScanPath, NextPath
    <2> QED
      BY <1>0, <1>1, <2>1 DEF ApplyPath, ScanPath, Reread, WatchTypes
  <1>3. WatchTypes'
    <2>1. known' \in [Paths -> 0..MaxVersion]
      BY <1>0, <1>2 DEF Reread, WatchTypes, Content, Link
    <2>2. ahead' \subseteq Plain
      BY <1>0, <1>2 DEF WatchTypes, Outruns
    <2> QED
      BY <1>0, <1>2, <2>1, <2>2 DEF WatchTypes
  <1>4. ASSUME NEW p \in Plain PROVE PathIsKept(p)'
    <2>0. p \in Paths /\ PathIsKept(p)
      BY DEF Paths, WatchInv
    <2>1. CASE p = r
      <3>1. known'[p] = tree[p] \/ tree[p] = Link
        BY <1>0, <1>2, <2>0, <2>1 DEF Reread, WatchTypes
      <3>2. ~Owed(p)'
        BY <1>2, <3>1 DEF Owed
      <3>3. CASE Outruns(p)
        BY <1>2, <2>1, <3>3 DEF PathIsKept, Kept
      <3>4. CASE ~Outruns(p)
        BY <1>2, <3>1, <3>2, <3>4 DEF PathIsKept, Outruns
      <3> QED
        BY <3>3, <3>4
    <2>2. CASE p # r
      <3>1. known'[p] = known[p]
        BY <1>0, <1>2, <2>0, <2>2 DEF Reread, WatchTypes
      <3>2. /\ p \in queue => p \in queue'
            /\ p \in ahead => p \in ahead'
            /\ Told(p) => Told(p)'
            /\ InBatch(p) => InBatch(p)'
        BY <1>2, <2>2 DEF Told, InBatch
      <3>3. Kept(p) => Kept(p)'
        BY <1>2, <3>2 DEF Kept
      <3> QED
        BY <1>2, <2>0, <3>1, <3>3 DEF PathIsKept, Owed
    <2> QED
      BY <2>1, <2>2
  <1> QED
    BY <1>2, <1>3, <1>4 DEF WatchInv

\* A confirmed batch is submitted again.
LEMMA ResubmitStep ==
  ASSUME WatchInv, Resubmit
  PROVE  WatchInv'
  <1>0. WatchTypes
    BY DEF WatchInv
  <1>1. /\ step = "confirm" /\ queue = {} /\ step' = "batch" /\ batch' = [batch EXCEPT !.again = TRUE]
        /\ UNCHANGED <<tree, known, backend, channel, previous, recovery, queue, ahead, touches>>
    BY DEF Resubmit
  <1>2. /\ batch' \in [hints : Seq(Hints), over : BOOLEAN, first : BOOLEAN, again : BOOLEAN]
        /\ batch'.hints = batch.hints /\ batch'.over = batch.over /\ batch'.first = batch.first
    BY <1>0, <1>1 DEF WatchTypes
  <1>3. WatchTypes'
    BY <1>0, <1>1, <1>2 DEF WatchTypes
  <1>4. ASSUME NEW p \in Plain PROVE PathIsKept(p)'
    <2>1. (InBatch(p) => InBatch(p)') /\ (Told(p) => Told(p)')
      BY <1>1, <1>2 DEF InBatch, Told
    <2>2. Kept(p) => Kept(p)'
      BY <1>1, <2>1 DEF Kept
    <2> QED
      BY <1>1, <2>2 DEF WatchInv, PathIsKept, Owed
  <1> QED
    BY <1>1, <1>3, <1>4 DEF WatchInv

\* The caller is through with a batch, or begins or ends a scan.
LEMMA TurnStep ==
  ASSUME WatchInv, BatchDone \/ StartScan \/ AcknowledgeScan
  PROVE  WatchInv'
  <1>0. WatchTypes /\ UNCHANGED <<tree, known, backend, channel, previous, batch, ahead, touches>>
    BY DEF WatchInv, BatchDone, StartScan, AcknowledgeScan
  <1>1. ASSUME NEW p \in Plain PROVE PathIsKept(p) /\ (Told(p) => Told(p)') /\ ~InBatch(p)
    BY <1>0 DEF WatchInv, Told, InBatch, BatchDone, StartScan, AcknowledgeScan
  <1>2. CASE BatchDone
    <2>1. step' = "idle" /\ queue = {} /\ queue' = queue /\ recovery' = recovery /\ step = "apply"
      BY <1>2 DEF BatchDone
    <2>2. ASSUME NEW p \in Plain PROVE PathIsKept(p)'
      <3>1. Kept(p) => Kept(p)'
        BY <1>0, <1>1, <2>1 DEF Kept
      <3> QED
        BY <1>0, <1>1, <3>1 DEF PathIsKept, Owed
    <2> QED
      BY <1>0, <2>1, <2>2 DEF WatchInv, WatchTypes
  <1>3. CASE StartScan
    <2>1. step' = "scan" /\ queue' = Plain /\ recovery' = recovery /\ backend # "none"
      BY <1>3 DEF StartScan, WatchInv
    <2>2. \A p \in Plain : PathIsKept(p)'
      BY <2>1 DEF PathIsKept, Kept
    <2> QED
      BY <1>0, <2>1, <2>2 DEF WatchInv, WatchTypes, Paths
  <1>4. CASE AcknowledgeScan
    <2>1. step' = "idle" /\ queue = {} /\ queue' = queue /\ recovery' = "none" /\ step = "scan"
          /\ backend # "none"
      BY <1>4 DEF AcknowledgeScan, WatchInv
    <2>2. ASSUME NEW p \in Plain PROVE PathIsKept(p)'
      <3>1. Kept(p) => Kept(p)'
        BY <1>0, <1>1, <2>1 DEF Kept
      <3> QED
        BY <1>0, <1>1, <3>1 DEF PathIsKept, Owed
    <2> QED
      BY <1>0, <2>1, <2>2 DEF WatchInv, WatchTypes
  <1> QED
    BY <1>2, <1>3, <1>4

(* For any paths, policies, contents and bounds of a flush: a path whose   *)
(* row is not what the worktree holds has a hint in the channel or in the   *)
(* batch the caller holds, is about to be re-read, differs from the last    *)
(* poll, or is covered by a required scan.  With native events that is all; *)
(* with polling a path that was looked at between two polls which find it   *)
(* as it was is excepted (NativeWatcher::drain, poll, RecoveryState,        *)
(* Reconciler::reconcile, plan_inventory).                                  *)
THEOREM ChangesAreNotLost == WatchSpec => []NothingIsLost
  <1>1. WatchInv /\ [WatchNext]_wvars => WatchInv'
    <2> SUFFICES ASSUME WatchInv, [WatchNext]_wvars PROVE WatchInv'
      OBVIOUS
    <2>1. CASE WaitForHints \/ UNCHANGED wvars
      <3>1. UNCHANGED wvars
        BY <2>1 DEF WaitForHints
      <3>2. WatchTypes'
        BY <3>1 DEF wvars, WatchInv, WatchTypes
      <3>3. ASSUME NEW p \in Plain PROVE PathIsKept(p)'
        BY <3>1 DEF wvars, WatchInv, PathIsKept, Owed, Kept, Told, InBatch
      <3> QED
        BY <3>1, <3>2, <3>3 DEF wvars, WatchInv
    <2>2. CASE WatchCaller
      BY <2>2, DrainStep, PollStep, ReconcileStep, ReadStep, ResubmitStep, GiveUpStep, TurnStep DEF WatchCaller
    <2>3. CASE WatchEnvironment
      BY <2>3, EditStep, SignalStep DEF WatchEnvironment
    <2> QED
      BY <2>1, <2>2, <2>3 DEF WatchNext
  <1> QED
    BY WatchStarts, CoveredByParts, <1>1, PTL DEF WatchSpec
=============================================================================
