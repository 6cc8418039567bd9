------------------------- MODULE InstanceLockProofs -------------------------
(***************************************************************************)
(* The instance lock is mutually exclusive for any number of processes     *)
(* where an abandoned claim is never taken over (Windows and the hosts     *)
(* without /proc) and, on Linux, when starts are serialised.               *)
(*                                                                         *)
(* After it, what runs under that lock.  The migration command leaves one  *)
(* graph, whole, and touches nothing but its own; the daemon keeps the     *)
(* hints it accepted, publishes catalogs that are cuts of the lanes, and   *)
(* its loop is ended only by a lasting error.                              *)
(***************************************************************************)
EXTENDS InstanceLock, Import, Daemon, FiniteSetTheorems, WellFoundedInduction, TLAPS

\* The environment under which the lock is claimed to exclude.
SafeEnvironment == Platform # "linux" \/ SerialStarts

\* The process that created the file, from open_exclusive to the end of Drop.
Claiming == {"opened", "truncated", "held", "dropping"}

ClaimIsOwn == \A p \in Procs : pc[p] \in Claiming => lock = p

RecordFollowsOwner ==
    \A p \in Procs : /\ pc[p] = "held" => record = p
                     /\ pc[p] = "dropping" => record = NoProc

OneStarter ==
    SerialStarts => \A p, q \in Procs :
                        pc[p] \in Acquiring /\ pc[q] \in Acquiring => p = q

SeenIsOwner ==
    SerialStarts => \A p, q \in Procs :
                        pc[q] = "check" /\ pc[p] \in Owning => seen[q] = p

TakeoverIsAlone ==
    \A q \in Procs : pc[q] \in {"unlink", "reopen"} =>
        /\ Platform = "linux"
        /\ \A p \in Procs : pc[p] \notin Claiming

(* The strengthening that makes SingleOwner inductive: a recovery reaches   *)
(* the unlink only when nobody holds the claim.                             *)
IInv ==
    /\ TypeOK
    /\ ClaimIsOwn
    /\ RecordFollowsOwner
    /\ OneStarter
    /\ SeenIsOwner
    /\ TakeoverIsAlone

LEMMA InitInv == Init => IInv
  BY ProcAssumption
  DEF Init, IInv, TypeOK, ClaimIsOwn, RecordFollowsOwner, OneStarter, SeenIsOwner,
      TakeoverIsAlone, Claiming, Owning, Acquiring, Locations

LEMMA NextInv ==
  ASSUME SafeEnvironment, IInv, [Next]_vars
  PROVE  IInv'
  <1> USE ProcAssumption, PlatformAssumption, SerialAssumption
      DEF IInv, TypeOK, ClaimIsOwn, RecordFollowsOwner, OneStarter, SeenIsOwner,
          TakeoverIsAlone, Claiming, Owning, Acquiring, Locations, SafeEnvironment, Goto
  <1>1. ASSUME NEW p \in Procs, Start(p) PROVE IInv'
    BY <1>1 DEF Start
  <1>2. ASSUME NEW p \in Procs, OpenExclusive(p) PROVE IInv'
    BY <1>2 DEF OpenExclusive
  <1>3. ASSUME NEW p \in Procs, OpenRefused(p) PROVE IInv'
    BY <1>3 DEF OpenRefused
  <1>4. ASSUME NEW p \in Procs, ReadOwnerRecord(p) PROVE IInv'
    BY <1>4 DEF ReadOwnerRecord
  <1>5. ASSUME NEW p \in Procs, CheckOwner(p) PROVE IInv'
    BY <1>5 DEF CheckOwner, OwnerIsDead, Running
  <1>6. ASSUME NEW p \in Procs, RemoveLockFile(p) PROVE IInv'
    BY <1>6 DEF RemoveLockFile
  <1>7. ASSUME NEW p \in Procs, TruncateOwnerRecord(p) PROVE IInv'
    BY <1>7 DEF TruncateOwnerRecord
  <1>8. ASSUME NEW p \in Procs, WriteOwnerRecord(p) PROVE IInv'
    BY <1>8 DEF WriteOwnerRecord
  <1>9. ASSUME NEW p \in Procs, WriteFails(p) PROVE IInv'
    BY <1>9 DEF WriteFails
  <1>10. ASSUME NEW p \in Procs, DropRecord(p) PROVE IInv'
    BY <1>10 DEF DropRecord
  <1>11. ASSUME NEW p \in Procs, DropLock(p) PROVE IInv'
    BY <1>11 DEF DropLock
  <1>12. ASSUME NEW p \in Procs, Crash(p) PROVE IInv'
    BY <1>12 DEF Crash, Running
  <1>13. CASE UNCHANGED vars
    BY <1>13 DEF vars
  <1> QED
    BY <1>1, <1>2, <1>3, <1>4, <1>5, <1>6, <1>7, <1>8, <1>9, <1>10, <1>11, <1>12,
       <1>13 DEF Next

LEMMA InvariantHolds == ASSUME SafeEnvironment PROVE Spec => []IInv
  <1>1. IInv /\ [Next]_vars => IInv'
    BY NextInv
  <1> QED
    BY InitInv, <1>1, PTL DEF Spec

(* Type correctness of the lock protocol.                                   *)
THEOREM LockTypes == ASSUME SafeEnvironment PROVE Spec => []TypeOK
  <1>1. IInv => TypeOK
    BY DEF IInv
  <1> QED
    BY InvariantHolds, <1>1, PTL

(* For every number of daemons that start, crash and stop: at most one owns *)
(* the home (DaemonLock::acquire and its Drop), on every platform without   *)
(* takeover and, with serialised starts, on Linux.                          *)
THEOREM MutualExclusion == ASSUME SafeEnvironment PROVE Spec => []SingleOwner
  <1>1. IInv => SingleOwner
    BY DEF IInv, ClaimIsOwn, SingleOwner, Claiming, Owning
  <1> QED
    BY InvariantHolds, <1>1, PTL

(* In the same environments an owner's lock file is never removed or        *)
(* replaced by another process (recover_stale_claim, Drop).                 *)
THEOREM ClaimIsKept == ASSUME SafeEnvironment PROVE Spec => []OwnerKeepsClaim
  <1>1. IInv => OwnerKeepsClaim
    BY DEF IInv, ClaimIsOwn, OwnerKeepsClaim, Claiming, Owning
  <1> QED
    BY InvariantHolds, <1>1, PTL

(* One owner with its own lock file, in every safe environment             *)
(* (DaemonLock::acquire, recover_stale_claim, Drop).                       *)
THEOREM HomeHasOneOwner == ASSUME SafeEnvironment PROVE Spec => []HomeIsOwnedOnce
  BY LockTypes, MutualExclusion, ClaimIsKept, PTL DEF HomeIsOwnedOnce
-----------------------------------------------------------------------------
(* The migration command.                                                  *)

Runs == [op : {"none", "apply", "rollback"}, n : 0..MaxPlans,
         at : {"idle", "fence", "prepare", "enter", "generation", "noted", "pointer", "close", "last"},
         cut : SUBSET PlanFiles, blocked : BOOLEAN]

\* The plan of a run was made; what it imports is a legacy graph.
ImportTypes ==
    /\ ImportTypeOK
    /\ import \in Runs
    /\ import.op # "none" => import.n \in 1..Len(plans)
    /\ import.at \in PlanFiles \cup {"noted", "last"} => plans[import.n].needed
    /\ halfUndone \subseteq 1..Len(plans)
    /\ \A n \in 1..Len(plans) : plans[n].needed => Snapshot(n) \in Snapshots

\* While an import runs, the target holds what it imports, or nothing.
TargetIsOwn ==
    LET s == Snapshot(import.n) IN
    import.op = "apply" /\ plans[import.n].needed => bodies \subseteq {s} /\ front \in {s, NoSnapshot}

\* The generation comes before its pointer.
PlacedInOrder ==
    LET s == Snapshot(import.n) IN
    import.op = "apply" /\ plans[import.n].needed /\ ~cleared =>
        /\ import.at \in {"noted", "pointer", "last", "close"} => s \in bodies
        /\ import.at \in {"last", "close"} => front = s

\* A pointer without its generation was left by a rollback, which is at work or died.
DanglingIsHalfUndone ==
    ~cleared /\ ~Valid =>
        \/ \E k \in halfUndone : front = Snapshot(k)
        \/ import.op = "rollback" /\ import.at = "pointer" /\ front = Snapshot(import.n)

\* A rollback that is about to end has taken its pointer away.
RollbackTookPointer ==
    import.op = "rollback" /\ import.at = "close" /\ plans[import.n].needed => front # Snapshot(import.n)

ImportInv ==
    /\ ImportTypes
    /\ TargetIsOwn /\ PlacedInOrder /\ DanglingIsHalfUndone /\ RollbackTookPointer
    /\ \A s, t \in bodies \ {Live} : s = t
    /\ import.op # "none" => ~ready

LEMMA PlansAreTyped ==
    ASSUME ImportTypeOK
    PROVE  /\ plans \in Seq(PlanDocuments) /\ Len(plans) \in Nat /\ DOMAIN plans = 1..Len(plans)
           /\ \A n \in 1..Len(plans) : plans[n] \in PlanDocuments /\ plans[n].needed \in BOOLEAN
<1>1. plans \in Seq(PlanDocuments)
  BY DEF ImportTypeOK
<1>2. \A n \in 1..Len(plans) : plans[n] \in PlanDocuments
  BY <1>1
<1> QED BY <1>1, <1>2 DEF PlanDocuments

LEMMA ImportStepTypes ==
    ASSUME ImportTypes, ImportNext
    PROVE  ImportTypes'
<1> USE ImportAssumption
<1>a. import \in Runs /\ ImportTypeOK
  BY DEF ImportTypes
<1>b. /\ Len(plans) \in Nat /\ \A n \in 1..Len(plans) : plans[n] \in PlanDocuments
      /\ 1..Len(plans) \subseteq 1..MaxPlans
  BY <1>a, PlansAreTyped DEF ImportTypeOK
\* The plans stay: what remains is the typing of what moves.
<1>c. ASSUME UNCHANGED plans, import' \in Runs,
             (import.op = "none") = (import.at = "idle") => (import'.op = "none") = (import'.at = "idle"),
             import'.op # "none" => import'.n \in 1..Len(plans), import'.n \in 0..Len(plans),
             import'.at \in PlanFiles \cup {"noted", "last"} => plans[import'.n].needed,
             halfUndone' \subseteq 1..Len(plans), legacy' \in [Places -> Contents],
             bodies' \subseteq Snapshots \cup {Live}, front' \in Contents \cup {Live},
             expired' \subseteq 1..Len(plans), note' \in [1..MaxPlans -> Notes], staged' \subseteq 1..MaxPlans,
             cleared' \in BOOLEAN, ready' \in BOOLEAN, writes' \in 0..MaxWrites, deaths' \in 0..MaxDeaths
      PROVE  ImportTypes'
  <2>1. \A n \in 1..Len(plans) : Snapshot(n)' = Snapshot(n)
    BY <1>c DEF Snapshot
  <2>2. import'.op \in {"none", "apply", "rollback"} /\ import'.cut \subseteq PlanFiles /\ import'.blocked \in BOOLEAN
        /\ import'.at \in {"idle", "fence", "prepare", "enter", "generation", "noted", "pointer", "close", "last"}
    BY <1>c DEF Runs
  <2>3. halfUndone' \subseteq 1..MaxPlans
    BY <1>b, <1>c
  <2>4. ImportTypeOK'
    BY <1>a, <1>c, <2>2, <2>3 DEF ImportTypeOK
  <2> QED BY <1>c, <2>1, <2>4 DEF ImportTypes
<1>d. \A n \in 1..Len(plans) : plans[n].needed => Snapshot(n) \in Snapshots
  BY DEF ImportTypes
<1>e. /\ import.op # "none" => import.n \in 1..Len(plans)
      /\ import.at \in PlanFiles \cup {"noted", "last"} => plans[import.n].needed
      /\ halfUndone \subseteq 1..Len(plans)
  BY DEF ImportTypes
<1>f. NoImport \in Runs /\ NoImport.op = "none" /\ NoImport.at = "idle" /\ NoImport.n = 0
  BY DEF NoImport, Runs
<1>g. legacy \in [Places -> Contents] /\ bodies \subseteq Snapshots \cup {Live} /\ front \in Contents \cup {Live}
      /\ expired \subseteq 1..Len(plans) /\ note \in [1..MaxPlans -> Notes] /\ staged \subseteq 1..MaxPlans
      /\ cleared \in BOOLEAN /\ ready \in BOOLEAN /\ writes \in 0..MaxWrites /\ deaths \in 0..MaxDeaths
      /\ import.n \in 0..Len(plans) /\ (import.op = "none") = (import.at = "idle")
  BY <1>a DEF ImportTypeOK
<1>h. ASSUME NEW how, Ends(how)
      PROVE  import' = NoImport /\ ready' \in BOOLEAN
  BY <1>h DEF Ends
<1>i. ASSUME NEW n, NEW phase \in ImportPhases, NEW cut \in SUBSET PlanFiles,
             note' = [note EXCEPT ![n] = [phase |-> phase, cut |-> cut]]
      PROVE  note' \in [1..MaxPlans -> Notes]
  BY <1>g, <1>i DEF Notes
<1>j. import.cut \in SUBSET PlanFiles
  BY <1>a DEF Runs
<1>k. \A n \in 1..MaxPlans : note[n] \in Notes /\ note[n].cut \in SUBSET PlanFiles /\ note[n].phase \in ImportPhases
  BY <1>g DEF Notes
<1>l. \A f \in PlanFiles, n \in 1..Len(plans) : plans[n].needed /\ Written(f, Snapshot(n)) =>
        bodies' \subseteq Snapshots \cup {Live} /\ front' \in Contents \cup {Live}
  BY <1>d, <1>g DEF Written, Contents
<1>m. \A f, s : Removed(f, s) => bodies' \subseteq Snapshots \cup {Live} /\ front' \in Contents \cup {Live}
  BY <1>g DEF Removed, Contents
<1>n. ASSUME import' = NoImport, UNCHANGED plans,
             halfUndone' \subseteq 1..Len(plans), legacy' \in [Places -> Contents],
             bodies' \subseteq Snapshots \cup {Live}, front' \in Contents \cup {Live},
             expired' \subseteq 1..Len(plans), note' \in [1..MaxPlans -> Notes], staged' \subseteq 1..MaxPlans,
             cleared' \in BOOLEAN, ready' \in BOOLEAN, writes' \in 0..MaxWrites, deaths' \in 0..MaxDeaths
      PROVE  ImportTypes'
  <2>1. /\ import' \in Runs /\ import'.op = "none" /\ import'.at = "idle" /\ import'.n = 0
        /\ 0 \in 0..Len(plans) /\ import'.at \notin PlanFiles \cup {"noted", "last"}
    BY <1>b, <1>f, <1>n DEF PlanFiles
  <2>2. (import'.op = "none") = (import'.at = "idle")
    BY <2>1
  <2> QED BY <1>c, <1>n, <2>1, <2>2
<1>1. CASE PlanImport
  <2> DEFINE doc == [place |-> Selected, legacy |-> legacy, bodies |-> bodies, front |-> front,
                     needed |-> Selected # NoSnapshot /\ Empty]
  <2>1. Selected \in Places \cup {NoSnapshot} /\ (Selected # NoSnapshot /\ Selected \in Places => legacy[Selected] \in Contents)
    BY <1>g DEF Selected, Places
  <2>2. Selected # NoSnapshot => legacy[Selected] # NoSnapshot
    BY <2>1 DEF Selected, Places
  <2>3. doc \in PlanDocuments
    BY <1>g, <2>1 DEF PlanDocuments
  <2>4. doc.needed => doc.legacy[doc.place] \in Snapshots
    BY <2>1, <2>2 DEF Contents
  <2>5. plans' = Append(plans, doc) /\ Len(plans) < MaxPlans
    BY <1>1 DEF PlanImport
  <2> HIDE DEF doc
  <2>6. plans \in Seq(PlanDocuments)
    BY <1>a, PlansAreTyped
  <2>7. /\ plans' \in Seq(PlanDocuments) /\ Len(plans') = Len(plans) + 1 /\ plans'[Len(plans) + 1] = doc
        /\ \A n \in 1..Len(plans) : plans'[n] = plans[n]
    BY <1>b, <2>3, <2>5, <2>6
  <2>8. UNCHANGED <<legacy, bodies, front, expired, note, import, staged, halfUndone, ready, deaths, writes, cleared>>
    BY <1>1 DEF PlanImport, target, others
  <2>9. ImportTypeOK'
    BY <1>a, <1>b, <2>5, <2>7, <2>8 DEF ImportTypeOK
  <2>10. \A n \in 1..Len(plans') : plans'[n].needed => Snapshot(n)' \in Snapshots
    <3> SUFFICES ASSUME NEW n \in 1..Len(plans'), plans'[n].needed
                 PROVE  Snapshot(n)' \in Snapshots
      OBVIOUS
    <3>1. CASE n \in 1..Len(plans)
      BY <1>d, <2>7, <3>1 DEF Snapshot
    <3>2. CASE n = Len(plans) + 1
      BY <2>4, <2>7, <3>2 DEF Snapshot
    <3> QED BY <1>b, <2>7, <3>1, <3>2
  <2>11. import'.op # "none" => import'.n \in 1..Len(plans')
    BY <1>b, <1>e, <2>7, <2>8
  <2>12. import'.at \in PlanFiles \cup {"noted", "last"} => plans'[import'.n].needed
    <3>1. import.at = "idle" \/ import.n \in 1..Len(plans)
      BY <1>e, <1>g
    <3> QED BY <1>e, <2>7, <2>8, <3>1 DEF PlanFiles
  <2>13. halfUndone' \subseteq 1..Len(plans')
    BY <1>b, <1>e, <2>7, <2>8
  <2> QED BY <1>a, <2>8, <2>9, <2>10, <2>11, <2>12, <2>13 DEF ImportTypes
<1>2. ASSUME NEW n \in 1..MaxPlans, BeginApply(n)
      PROVE  ImportTypes'
  <2>1. n \in 1..Len(plans) /\ UNCHANGED <<legacy, bodies, front, plans, expired, staged, halfUndone, deaths, writes, cleared>>
    BY <1>2 DEF BeginApply, MayOperate, target, others
  <2>2. CASE import' = NoImport /\ ready' \in BOOLEAN /\ UNCHANGED note
    BY <1>n, <1>e, <1>g, <2>1, <2>2
  <2>3. ASSUME NEW cut \in SUBSET PlanFiles, NEW at \in {"enter", "prepare"}, StartImport("apply", n, at, cut),
               note' = [note EXCEPT ![n] = [phase |-> "fence", cut |-> cut]], ready' = FALSE
        PROVE  ImportTypes'
    <3>1. import' \in Runs /\ import'.n = n /\ import'.op = "apply" /\ import'.at = at
      BY <2>1, <2>3, <1>b DEF StartImport, Runs
    <3>2. note' \in [1..MaxPlans -> Notes]
      BY <1>i, <2>3 DEF ImportPhases
    <3>3. /\ import'.n \in 0..Len(plans) /\ import'.at \notin PlanFiles \cup {"noted", "last"}
          /\ (import'.op = "none") = (import'.at = "idle")
      BY <1>b, <2>1, <3>1 DEF PlanFiles
    <3> QED BY <1>c, <1>e, <1>g, <2>1, <2>3, <3>1, <3>2, <3>3
  <2> DEFINE cut == IF note[n].phase = "rollback" THEN {} ELSE note[n].cut
  <2>4. cut \in SUBSET PlanFiles
    BY <1>k
  <2>5. \/ import' = NoImport /\ ready' \in BOOLEAN /\ UNCHANGED note
        \/ /\ StartImport("apply", n, IF note[n].phase = "cutover" THEN "enter" ELSE "prepare", cut)
           /\ note' = [note EXCEPT ![n] = [phase |-> "fence", cut |-> cut]] /\ ready' = FALSE
    BY <1>2 DEF BeginApply, Ends
  <2> HIDE DEF cut
  <2> QED BY <2>2, <2>3, <2>4, <2>5
<1>3. CASE Prepare
  <2>1. /\ import.op = "apply" /\ import.at = "prepare"
        /\ UNCHANGED <<legacy, bodies, front, plans, expired, halfUndone, deaths, writes, cleared>>
    BY <1>3 DEF Prepare, target, others
  <2>2. CASE import' = NoImport /\ ready' \in BOOLEAN /\ UNCHANGED <<note, staged>>
    BY <1>n, <1>e, <1>g, <2>1, <2>2
  <2>3. CASE Goes("enter") /\ Noted("verify", import.cut) /\ UNCHANGED ready /\ staged' = staged \cup {import.n}
    <3>1. import' \in Runs /\ import'.n = import.n /\ import'.op = "apply" /\ import'.at = "enter"
      BY <1>a, <2>1, <2>3 DEF Goes, Runs
    <3>2. note' \in [1..MaxPlans -> Notes]
      BY <1>i, <1>j, <2>3 DEF Noted, ImportPhases
    <3> QED BY <1>b, <1>c, <1>e, <1>g, <2>1, <2>3, <3>1, <3>2 DEF PlanFiles
  <2> QED BY <1>3, <2>2, <2>3 DEF Prepare, Ends
<1>4. CASE EnterCutover
  <2>1. /\ import.op = "apply"
        /\ UNCHANGED <<legacy, bodies, front, plans, expired, staged, halfUndone, ready, deaths, writes, cleared>>
    BY <1>4 DEF EnterCutover, target, others
  <2>2. /\ import' \in Runs /\ import'.n = import.n /\ import'.op = "apply"
        /\ import'.at = IF plans[import.n].needed THEN "generation" ELSE "close"
    BY <1>a, <1>4, <2>1 DEF EnterCutover, Goes, Runs
  <2>3. note' \in [1..MaxPlans -> Notes]
    BY <1>i, <1>j, <1>4 DEF EnterCutover, Noted, ImportPhases
  <2> QED BY <1>c, <1>e, <1>g, <2>1, <2>2, <2>3 DEF PlanFiles
<1>5. ASSUME NEW f \in PlanFiles, NEW next \in {"noted", "last"}, PlaceOne(f, next)
      PROVE  ImportTypes'
  <2>1. /\ import.op = "apply" /\ import.at = f /\ Written(f, Snapshot(import.n))
        /\ UNCHANGED <<legacy, plans, expired, note, staged, halfUndone, ready, deaths, writes, cleared>>
    BY <1>5 DEF PlaceOne, others
  <2>2. import' \in Runs /\ import'.n = import.n /\ import'.op = "apply" /\ import'.at = next
    BY <1>a, <1>5, <2>1 DEF PlaceOne, Runs
  <2>3. plans[import.n].needed
    BY <1>e, <2>1
  <2> QED BY <1>c, <1>e, <1>g, <1>l, <2>1, <2>2, <2>3
<1>6. CASE NoteCut
  <2>1. /\ import.op = "apply" /\ import.at \in {"noted", "last"}
        /\ UNCHANGED <<legacy, bodies, front, plans, expired, staged, halfUndone, ready, deaths, writes, cleared>>
    BY <1>6 DEF NoteCut, target, others
  <2>2. /\ import' \in Runs /\ import'.n = import.n /\ import'.op = "apply"
        /\ import'.at = IF import.at = "noted" THEN "pointer" ELSE "close"
    BY <1>a, <1>6, <2>1 DEF NoteCut, Goes, Runs
  <2>3. note' \in [1..MaxPlans -> Notes]
    BY <1>i, <1>j, <1>6 DEF NoteCut, Noted, ImportPhases
  <2> QED BY <1>c, <1>e, <1>g, <2>1, <2>2, <2>3 DEF PlanFiles
<1>7. CASE RestoreImport
  <2>1. /\ import.op = "apply" /\ import' = NoImport /\ ready' \in BOOLEAN
        /\ bodies' \subseteq bodies /\ front' \in {front, NoSnapshot} /\ staged' \subseteq staged
        /\ UNCHANGED <<legacy, plans, expired, halfUndone, deaths, writes, cleared>>
    BY <1>7 DEF RestoreImport, Ends, others
  <2>2. PICK own \in SUBSET PlanFiles : Noted(IF own = import.cut THEN "verify" ELSE "cutover", import.cut \ own)
    BY <1>7, <1>j DEF RestoreImport
  <2>3. note' \in [1..MaxPlans -> Notes]
    <3>1. (IF own = import.cut THEN "verify" ELSE "cutover") \in ImportPhases /\ import.cut \ own \in SUBSET PlanFiles
      BY <1>j DEF ImportPhases
    <3> QED BY <1>i, <2>2, <3>1 DEF Noted
  <2> QED BY <1>n, <1>e, <1>g, <2>1, <2>3 DEF Contents
<1>8. CASE FinishImport
  <2>1. /\ import' = NoImport /\ ready' \in BOOLEAN
        /\ UNCHANGED <<legacy, bodies, front, plans, expired, staged, halfUndone, deaths, writes, cleared>>
    BY <1>8 DEF FinishImport, Ends, target, others
  <2>2. note' \in [1..MaxPlans -> Notes]
    BY <1>i, <1>j, <1>8 DEF FinishImport, Noted, ImportPhases
  <2> QED BY <1>n, <1>e, <1>g, <2>1, <2>2
<1>9. ASSUME NEW n \in 1..MaxPlans, BeginRollback(n)
      PROVE  ImportTypes'
  <2>1. /\ n \in 1..Len(plans)
        /\ UNCHANGED <<legacy, bodies, front, plans, expired, note, staged, halfUndone, deaths, writes, cleared>>
    BY <1>9 DEF BeginRollback, MayOperate, target, others
  <2>2. CASE import' = NoImport /\ ready' \in BOOLEAN
    BY <1>n, <1>e, <1>g, <2>1, <2>2
  <2>3. CASE StartImport("rollback", n, IF plans[n].needed THEN "generation" ELSE "close", note[n].cut) /\ ready' = FALSE
    <3>1. /\ import' \in Runs /\ import'.n = n /\ import'.op = "rollback"
          /\ import'.at = IF plans[n].needed THEN "generation" ELSE "close"
      BY <1>b, <1>k, <2>1, <2>3 DEF StartImport, Runs
    <3>2. /\ import'.n \in 0..Len(plans) /\ (import'.at \in PlanFiles => plans[n].needed)
          /\ import'.at \notin {"noted", "last"} /\ (import'.op = "none") = (import'.at = "idle")
      BY <1>b, <2>1, <3>1 DEF PlanFiles
    <3> QED BY <1>c, <1>e, <1>g, <2>1, <2>3, <3>1, <3>2
  <2> QED BY <1>9, <2>2, <2>3 DEF BeginRollback, Ends
<1>10. ASSUME NEW f \in PlanFiles, NEW next \in {"pointer", "close"}, UndoOne(f, next)
       PROVE  ImportTypes'
  <2>1. /\ import.op = "rollback" /\ import.at = f /\ staged' \subseteq staged
        /\ UNCHANGED <<legacy, plans, expired, note, halfUndone, ready, deaths, writes, cleared>>
    BY <1>10 DEF UndoOne, others
  <2>2. /\ bodies' \subseteq Snapshots \cup {Live} /\ front' \in Contents \cup {Live}
        /\ import' \in Runs /\ import'.n = import.n /\ import'.op = "rollback" /\ import'.at = next
    <3> DEFINE s == Snapshot(import.n)
    <3>1. CASE Removed(f, s) /\ import' = [import EXCEPT !.at = next, !.cut = @ \ {f}]
      BY <1>a, <1>10, <1>m, <2>1, <3>1 DEF Runs
    <3>2. CASE /\ UNCHANGED target
               /\ import' = [import EXCEPT !.at = next, !.blocked = @ \/ (f \in import.cut /\ Appeared(f, s)),
                                           !.cut = IF Appeared(f, s) THEN @ ELSE @ \ {f}]
      <4>1. (import.blocked \/ (f \in import.cut /\ Appeared(f, s))) \in BOOLEAN
        BY Zenon
      <4> HIDE DEF s
      <4> QED BY <1>a, <1>g, <1>10, <2>1, <3>2, <4>1 DEF Runs, target
    <3> QED BY <1>10, <3>1, <3>2 DEF UndoOne
  <2>3. plans[import.n].needed
    BY <1>e, <2>1
  <2> QED BY <1>c, <1>e, <1>g, <2>1, <2>2, <2>3
<1>11. CASE FinishRollback
  <2>1. /\ import.op = "rollback" /\ import' = NoImport /\ ready' \in BOOLEAN /\ halfUndone' \subseteq halfUndone
        /\ UNCHANGED <<legacy, bodies, front, plans, expired, staged, deaths, writes, cleared>>
    BY <1>11 DEF FinishRollback, Ends, target, others
  <2>2. note' \in [1..MaxPlans -> Notes]
    <3>1. (IF import.blocked THEN note[import.n].phase ELSE "rollback") \in ImportPhases
      BY <1>b, <1>e, <1>k, <2>1 DEF ImportPhases
    <3> QED BY <1>i, <1>j, <1>11, <3>1 DEF FinishRollback, Noted
  <2> QED BY <1>n, <1>e, <1>g, <2>1, <2>2
<1>12. CASE ImportDies
  <2>1. /\ import' = NoImport /\ ready' \in BOOLEAN /\ deaths' = deaths + 1 /\ deaths < MaxDeaths
        /\ halfUndone' \subseteq halfUndone \cup {import.n} /\ import.op # "none"
        /\ UNCHANGED <<legacy, bodies, front, plans, expired, note, staged, writes, cleared>>
    BY <1>12 DEF ImportDies, Ends, target, others
  <2>2. deaths' \in 0..MaxDeaths /\ halfUndone' \subseteq 1..Len(plans)
    BY <1>e, <1>g, <2>1
  <2> QED BY <1>n, <1>e, <1>g, <2>1, <2>2
<1>13. ASSUME NEW n \in 1..MaxPlans, PlanExpires(n)
       PROVE  ImportTypes'
  <2>1. /\ expired' \subseteq 1..Len(plans)
        /\ UNCHANGED <<legacy, bodies, front, plans, import, note, staged, halfUndone, ready, deaths, writes, cleared>>
    BY <1>13, <1>g DEF PlanExpires, target, others
  <2> QED BY <1>a, <1>c, <1>e, <1>g, <2>1
<1>14. CASE PublishLive \/ ClearTarget \/ \E p \in Places, s \in Contents : WriteLegacy(p, s)
  <2>1. /\ bodies' \subseteq Snapshots \cup {Live} /\ front' \in Contents \cup {Live}
        /\ legacy' \in [Places -> Contents] /\ writes' \in 0..MaxWrites
        /\ UNCHANGED <<plans, expired, import, note, staged, halfUndone, ready, deaths>>
    BY <1>14, <1>g DEF PublishLive, ClearTarget, WriteLegacy, Contents, target, others
  <2>2. cleared' \in BOOLEAN
    BY <1>14, <1>g, Zenon DEF PublishLive, ClearTarget, WriteLegacy, others
  <2> QED BY <1>a, <1>c, <1>e, <1>g, <2>1, <2>2
<1> QED BY <1>1, <1>2, <1>3, <1>4, <1>5, <1>6, <1>7, <1>8, <1>9, <1>10, <1>11, <1>12, <1>13, <1>14
        DEF ImportNext, PlanFiles

\* A plan that was made stays what it is, and so does the graph it imports.
LEMMA SnapshotsStay ==
    ASSUME ImportTypes, ImportNext
    PROVE  \A n \in 1..Len(plans) : plans'[n].needed = plans[n].needed /\ Snapshot(n)' = Snapshot(n)
<1>1. CASE PlanImport
  <2>1. PICK d : plans' = Append(plans, d)
    BY <1>1 DEF PlanImport
  <2>2. plans \in Seq(PlanDocuments)
    BY DEF ImportTypes, ImportTypeOK
  <2>3. \A n \in 1..Len(plans) : plans'[n] = plans[n]
    BY <2>1, <2>2
  <2> QED BY <2>3 DEF Snapshot
<1>2. CASE ~PlanImport
  <2>1. UNCHANGED plans
    BY <1>2 DEF ImportNext, Prepare, EnterCutover, NoteCut, RestoreImport, FinishImport, FinishRollback, PlaceOne,
                UndoOne, BeginApply, BeginRollback, PlanExpires, ImportDies, PublishLive, ClearTarget, WriteLegacy
  <2> QED BY <2>1 DEF Snapshot
<1> QED BY <1>1, <1>2

\* The plan of the run that is going, and the graph it imports.
LEMMA RunHasPlan ==
    ASSUME ImportTypes, import.op # "none"
    PROVE  /\ import.n \in 1..Len(plans)
           /\ plans[import.n].needed => Snapshot(import.n) \in Snapshots /\ Snapshot(import.n) # NoSnapshot
                                        /\ Snapshot(import.n) # Live
           /\ ~plans[import.n].needed => Snapshot(import.n) = NoSnapshot
           /\ import.at \in PlanFiles \cup {"noted", "last"} => plans[import.n].needed
BY ImportAssumption DEF ImportTypes, Snapshot

LEMMA TargetStaysOwn ==
    ASSUME ImportInv, ImportNext
    PROVE  TargetIsOwn'
<1> USE DEF ImportInv
<1> PICK m : m = import'.n
  OBVIOUS
<1> SUFFICES ASSUME import'.op = "apply", plans'[m].needed
             PROVE  bodies' \subseteq {Snapshot(m)'} /\ front' \in {Snapshot(m)', NoSnapshot}
  BY DEF TargetIsOwn, Snapshot
<1>1. ASSUME import.op = "apply", m = import.n
      PROVE  /\ plans[import.n].needed /\ Snapshot(m)' = Snapshot(import.n)
             /\ bodies \subseteq {Snapshot(import.n)} /\ front \in {Snapshot(import.n), NoSnapshot}
  <2>1. import.n \in 1..Len(plans)
    BY <1>1, RunHasPlan
  <2>2. plans[import.n].needed /\ Snapshot(m)' = Snapshot(import.n)
    BY <1>1, <2>1, SnapshotsStay
  <2> QED BY <1>1, <2>2 DEF TargetIsOwn
<1>2. ASSUME UNCHANGED import, bodies' \subseteq bodies, front' \in {front, NoSnapshot}
      PROVE  bodies' \subseteq {Snapshot(m)'} /\ front' \in {Snapshot(m)', NoSnapshot}
  BY <1>1, <1>2
<1>3. CASE PlanImport \/ \E n \in 1..MaxPlans : PlanExpires(n)
  BY <1>2, <1>3 DEF PlanImport, PlanExpires, target
<1>4. CASE ClearTarget \/ \E p \in Places, s \in Contents : WriteLegacy(p, s)
  BY <1>2, <1>4 DEF ClearTarget, WriteLegacy, target
<1>5. CASE RestoreImport \/ FinishImport \/ FinishRollback \/ ImportDies
  BY <1>5 DEF RestoreImport, FinishImport, FinishRollback, ImportDies, Ends, NoImport
<1>6. CASE PublishLive
  BY <1>6 DEF PublishLive
<1>7. CASE Prepare \/ EnterCutover \/ NoteCut
  <2>1. UNCHANGED <<bodies, front>> /\ import.op = "apply"
    BY <1>7 DEF Prepare, EnterCutover, NoteCut, target
  <2>2. m = import.n
    <3>1. import' # NoImport
      BY DEF NoImport
    <3>2. \E at : Goes(at)
      BY <1>7, <3>1 DEF Prepare, EnterCutover, NoteCut, Ends
    <3> QED BY <3>2 DEF Goes, ImportTypes, Runs
  <2> QED BY <1>1, <2>1, <2>2
<1>8. ASSUME NEW f \in PlanFiles, NEW next, PlaceOne(f, next)
      PROVE  bodies' \subseteq {Snapshot(m)'} /\ front' \in {Snapshot(m)', NoSnapshot}
  <2>1. import.op = "apply" /\ m = import.n /\ Written(f, Snapshot(import.n))
    BY <1>8 DEF PlaceOne, ImportTypes, Runs
  <2>2. /\ Snapshot(m)' = Snapshot(import.n)
        /\ bodies \subseteq {Snapshot(import.n)} /\ front \in {Snapshot(import.n), NoSnapshot}
    BY <1>1, <2>1
  <2> QED BY <2>1, <2>2 DEF Written
<1>9. ASSUME NEW f \in PlanFiles, NEW next, UndoOne(f, next)
      PROVE  FALSE
  <2>1. import' = [import EXCEPT !.at = next, !.cut = import'.cut, !.blocked = import'.blocked]
    BY <1>9 DEF UndoOne, ImportTypes, Runs
  <2> QED BY <1>9, <2>1 DEF UndoOne, ImportTypes, Runs
<1>10. ASSUME NEW n \in 1..MaxPlans, BeginApply(n)
       PROVE  bodies' \subseteq {Snapshot(m)'} /\ front' \in {Snapshot(m)', NoSnapshot}
  <2>1. import' # NoImport
    BY DEF NoImport
  <2>2. OwnTarget(n) /\ n \in 1..Len(plans) /\ UNCHANGED <<bodies, front>> /\ \E at, cut : StartImport("apply", n, at, cut)
    BY <1>10, <2>1 DEF BeginApply, MayOperate, Ends, target
  <2>3. m = n
    BY <2>2 DEF StartImport
  <2>4. plans[n].needed /\ Snapshot(m)' = Snapshot(n)
    BY <2>2, <2>3, SnapshotsStay
  <2> QED BY <2>2, <2>4 DEF OwnTarget, Empty
<1>11. ASSUME NEW n \in 1..MaxPlans, BeginRollback(n)
       PROVE  FALSE
  BY <1>11 DEF BeginRollback, Ends, NoImport, StartImport
<1> QED BY <1>3, <1>4, <1>5, <1>6, <1>7, <1>8, <1>9, <1>10, <1>11 DEF ImportNext, PlanFiles

LEMMA PlacedStaysInOrder ==
    ASSUME ImportInv, ImportNext
    PROVE  PlacedInOrder'
<1> USE DEF ImportInv
<1> PICK m : m = import'.n
  OBVIOUS
<1> DEFINE Order == /\ import'.at \in {"noted", "pointer", "last", "close"} => Snapshot(m)' \in bodies'
                    /\ import'.at \in {"last", "close"} => front' = Snapshot(m)'
<1> SUFFICES ASSUME import'.op = "apply", plans'[m].needed, ~cleared'
             PROVE  Order
  BY DEF PlacedInOrder, Snapshot
<1>1. ASSUME import.op = "apply", m = import.n
      PROVE  plans[import.n].needed /\ Snapshot(m)' = Snapshot(import.n)
  <2>1. import.n \in 1..Len(plans)
    BY <1>1, RunHasPlan
  <2> QED BY <1>1, <2>1, SnapshotsStay
<1>2. ASSUME UNCHANGED <<import, bodies, front, cleared>>
      PROVE  Order
  BY <1>1, <1>2 DEF PlacedInOrder
<1>3. CASE PlanImport \/ (\E n \in 1..MaxPlans : PlanExpires(n)) \/ \E p \in Places, s \in Contents : WriteLegacy(p, s)
  BY <1>2, <1>3 DEF PlanImport, PlanExpires, WriteLegacy, target, others
<1>4. CASE ClearTarget \/ PublishLive
  BY <1>4 DEF ClearTarget, PublishLive, others
<1>5. CASE RestoreImport \/ FinishImport \/ FinishRollback \/ ImportDies
  BY <1>5 DEF RestoreImport, FinishImport, FinishRollback, ImportDies, Ends, NoImport
<1>6. CASE Prepare \/ EnterCutover
  <2>1. import.op = "apply" /\ m = import.n /\ import'.at \in {"enter", "generation", "close"}
        /\ (import'.at = "close" => ~plans[import.n].needed)
    <3>1. import' # NoImport
      BY DEF NoImport
    <3> QED BY <1>6, <3>1 DEF Prepare, EnterCutover, Ends, Goes, ImportTypes, Runs
  <2> QED BY <1>1, <2>1
<1>7. CASE NoteCut
  <2>1. /\ import.op = "apply" /\ m = import.n /\ UNCHANGED <<bodies, front, cleared>>
        /\ import.at \in {"noted", "last"} /\ import'.at = IF import.at = "noted" THEN "pointer" ELSE "close"
    BY <1>7 DEF NoteCut, Goes, ImportTypes, Runs, target, others
  <2> QED BY <1>1, <2>1 DEF PlacedInOrder
<1>8. CASE PlaceOne("generation", "noted")
  <2>1. import.op = "apply" /\ m = import.n /\ import'.at = "noted" /\ bodies' = bodies \cup {Snapshot(import.n)}
    BY <1>8 DEF PlaceOne, Written, ImportTypes, Runs
  <2> QED BY <1>1, <2>1
<1>9. CASE PlaceOne("pointer", "last")
  <2>1. /\ import.op = "apply" /\ import.at = "pointer" /\ m = import.n /\ import'.at = "last"
        /\ front' = Snapshot(import.n) /\ UNCHANGED <<bodies, cleared>>
    BY <1>9 DEF PlaceOne, Written, ImportTypes, Runs, others
  <2> QED BY <1>1, <2>1 DEF PlacedInOrder
<1>10. ASSUME NEW f \in PlanFiles, NEW next, UndoOne(f, next)
       PROVE  FALSE
  <2>1. import' = [import EXCEPT !.at = next, !.cut = import'.cut, !.blocked = import'.blocked]
    BY <1>10 DEF UndoOne, ImportTypes, Runs
  <2> QED BY <1>10, <2>1 DEF UndoOne, ImportTypes, Runs
<1>11. ASSUME NEW n \in 1..MaxPlans, BeginApply(n) \/ BeginRollback(n)
       PROVE  Order
  <2>1. import' # NoImport
    BY DEF NoImport
  <2>2. import'.at \in {"enter", "prepare"}
    BY <1>11, <2>1 DEF BeginApply, BeginRollback, Ends, StartImport
  <2> QED BY <2>2
<1> QED BY <1>3, <1>4, <1>5, <1>6, <1>7, <1>8, <1>9, <1>10, <1>11 DEF ImportNext, PlanFiles

\* A rollback's step takes at most its own graph's file.
LEMMA UndoTakesItsOwn ==
    ASSUME ImportInv, NEW f \in PlanFiles, NEW next, UndoOne(f, next)
    PROVE  /\ import.op = "rollback" /\ import.at = f /\ import'.op = "rollback" /\ import'.n = import.n /\ import'.at = next
           /\ UNCHANGED <<cleared, halfUndone, plans, ready, writes>>
           /\ f = "generation" => UNCHANGED front /\ bodies' \in {bodies, bodies \ {Snapshot(import.n)}}
           /\ f = "pointer" => /\ UNCHANGED bodies
                               /\ front' = IF front = Snapshot(import.n) THEN NoSnapshot ELSE front
           /\ plans[import.n].needed
<1> USE DEF ImportInv
<1>1. import' = [import EXCEPT !.at = next, !.cut = import'.cut, !.blocked = import'.blocked]
  BY DEF UndoOne, ImportTypes, Runs
<1>2. /\ import.op = "rollback" /\ import.at = f /\ import'.op = "rollback" /\ import'.n = import.n /\ import'.at = next
      /\ UNCHANGED <<cleared, halfUndone, plans, ready, writes>>
  BY <1>1 DEF UndoOne, ImportTypes, Runs, others
<1>3. plans[import.n].needed
  BY <1>2, RunHasPlan
<1>4. CASE f = "generation"
  BY <1>2, <1>3, <1>4 DEF UndoOne, Removed, InPlaceOf, target
<1>5. CASE f = "pointer"
  BY <1>2, <1>3, <1>5 DEF UndoOne, Removed, InPlaceOf, target
<1> QED BY <1>2, <1>3, <1>4, <1>5 DEF PlanFiles

\* A restored cutover leaves no pointer to what it takes away.
LEMMA RestoreKeepsOrder ==
    ASSUME ImportInv, RestoreImport
    PROVE  /\ import.op = "apply" /\ import' = NoImport /\ UNCHANGED <<cleared, halfUndone, plans, writes>> /\ ~ready'
           /\ bodies' \subseteq bodies /\ bodies \ {Snapshot(import.n)} \subseteq bodies'
           /\ front' \in {front, NoSnapshot} /\ (front' # front => front = Snapshot(import.n))
           /\ (~cleared /\ front' # NoSnapshot /\ front' \notin bodies' => ~Valid)
<1> USE DEF ImportInv
<1> DEFINE s == Snapshot(import.n)
<1>1. /\ import.op = "apply" /\ import.at \in PlanFiles /\ ~MayPlace(import.at, s) /\ import' = NoImport
      /\ UNCHANGED <<cleared, halfUndone, plans, writes>> /\ ~ready'
  BY DEF RestoreImport, Ends, others
<1>2. plans[import.n].needed /\ s \in Snapshots /\ s # NoSnapshot
  BY <1>1, RunHasPlan
<1>3. bodies \subseteq {s} /\ front \in {s, NoSnapshot}
  BY <1>1, <1>2 DEF TargetIsOwn
<1> HIDE DEF s
<1>4. /\ bodies' \in {bodies, bodies \ {s}} /\ front' \in {front, NoSnapshot}
  BY DEF RestoreImport, s
<1>5. ~cleared => s \notin bodies \/ front # s
  <2>1. CASE import.at = "generation"
    BY <1>1, <2>1 DEF MayPlace, InPlaceOf
  <2>2. CASE import.at = "pointer"
    BY <1>1, <2>2 DEF MayPlace, InPlaceOf
  <2> QED BY <1>1, <2>1, <2>2 DEF PlanFiles
<1>6. front' # front => front = s
  BY <1>3, <1>4
<1> QED BY <1>1, <1>2, <1>3, <1>4, <1>5, <1>6 DEF Valid, s

LEMMA DanglingStaysHalfUndone ==
    ASSUME ImportInv, ImportNext
    PROVE  DanglingIsHalfUndone'
<1> USE DEF ImportInv
<1> PICK m : m = import'.n
  OBVIOUS
<1> PICK half : half = halfUndone'
  OBVIOUS
<1> DEFINE Excused == \/ \E k \in half : front' = Snapshot(k)'
                      \/ import'.op = "rollback" /\ import'.at = "pointer" /\ front' = Snapshot(m)'
<1> SUFFICES ASSUME ~cleared', front' # NoSnapshot, front' \notin bodies'
             PROVE  Excused
  BY DEF DanglingIsHalfUndone, Valid, Snapshot
<1>1. ASSUME ~Valid, UNCHANGED <<front, cleared>>, halfUndone \subseteq half,
             import.op = "rollback" /\ import.at = "pointer" => UNCHANGED import \/ import.n \in half
      PROVE  Excused
  <2>1. CASE \E k \in halfUndone : front = Snapshot(k)
    <3>1. PICK k \in halfUndone : front = Snapshot(k)
      BY <2>1
    <3>2. Snapshot(k)' = Snapshot(k) /\ k \in half
      BY <1>1, SnapshotsStay DEF ImportTypes
    <3> QED BY <1>1, <3>1, <3>2
  <2>2. CASE import.op = "rollback" /\ import.at = "pointer" /\ front = Snapshot(import.n)
    <3>1. PICK n : n = import.n
      OBVIOUS
    <3>2. Snapshot(n)' = Snapshot(n)
      BY <2>2, <3>1, RunHasPlan, SnapshotsStay
    <3> QED BY <1>1, <2>2, <3>1, <3>2
  <2> QED BY <1>1, <2>1, <2>2 DEF DanglingIsHalfUndone
<1>2. ASSUME UNCHANGED <<bodies, front, cleared>>
      PROVE  ~Valid /\ UNCHANGED <<front, cleared>>
  BY <1>2 DEF Valid
<1>3. CASE PlanImport \/ (\E n \in 1..MaxPlans : PlanExpires(n)) \/ \E p \in Places, s \in Contents : WriteLegacy(p, s)
  BY <1>1, <1>2, <1>3 DEF PlanImport, PlanExpires, WriteLegacy, target, others
<1>4. CASE ClearTarget \/ PublishLive
  BY <1>4 DEF ClearTarget, PublishLive
<1>5. CASE FinishImport \/ Prepare \/ EnterCutover \/ NoteCut
  BY <1>1, <1>2, <1>5 DEF FinishImport, Prepare, EnterCutover, NoteCut, target, others
<1>6. CASE RestoreImport
  <2>1. front' = front
    BY <1>6, RestoreKeepsOrder
  <2> QED BY <1>1, <1>6, <2>1, RestoreKeepsOrder
<1>7. CASE FinishRollback
  <2>1. /\ import.op = "rollback" /\ import.at = "close" /\ UNCHANGED <<bodies, front, cleared>>
        /\ half = halfUndone \ {import.n}
    BY <1>7 DEF FinishRollback, target, others
  <2>2. PICK k \in halfUndone : front = Snapshot(k)
    BY <1>2, <2>1 DEF DanglingIsHalfUndone
  <2>3. k # import.n
    <3>1. front # Snapshot(import.n)
      BY <2>1, RunHasPlan DEF RollbackTookPointer
    <3> QED BY <2>2, <3>1
  <2>4. k \in half /\ Snapshot(k)' = Snapshot(k)
    BY <2>1, <2>2, <2>3, SnapshotsStay DEF ImportTypes
  <2> QED BY <2>1, <2>2, <2>4
<1>8. CASE ImportDies
  <2>1. /\ UNCHANGED <<bodies, front, cleared>>
        /\ half = IF import.op = "rollback" /\ import.at = "pointer" THEN halfUndone \cup {import.n} ELSE halfUndone
    BY <1>8 DEF ImportDies, target, others
  <2> QED BY <1>1, <1>2, <2>1
<1>9. ASSUME NEW n \in 1..MaxPlans, BeginApply(n) \/ BeginRollback(n)
      PROVE  Excused
  BY <1>1, <1>2, <1>9 DEF BeginApply, BeginRollback, MayOperate, target, others
<1>10. CASE PlaceOne("generation", "noted")
  <2>1. /\ import.op = "apply" /\ bodies' = bodies \cup {Snapshot(import.n)} /\ UNCHANGED <<front, cleared, halfUndone>>
    BY <1>10 DEF PlaceOne, Written, others
  <2>2. ~Valid
    BY <2>1 DEF Valid
  <2> QED BY <1>1, <2>1, <2>2
<1>11. CASE PlaceOne("pointer", "last")
  <2>1. /\ import.op = "apply" /\ import.at = "pointer" /\ front' = Snapshot(import.n) /\ UNCHANGED <<bodies, cleared>>
    BY <1>11 DEF PlaceOne, Written, others
  <2>2. plans[import.n].needed
    BY <2>1, RunHasPlan DEF PlanFiles
  <2> QED BY <2>1, <2>2 DEF PlacedInOrder
<1>12. CASE UndoOne("generation", "pointer")
  <2>1. /\ import.op = "rollback" /\ import.at = "generation" /\ import'.op = "rollback" /\ m = import.n
        /\ import'.at = "pointer" /\ UNCHANGED <<front, cleared, halfUndone>>
        /\ bodies' \in {bodies, bodies \ {Snapshot(import.n)}}
    BY <1>12, UndoTakesItsOwn DEF PlanFiles
  <2>2. CASE Valid
    <3>1. front = Snapshot(import.n)
      BY <2>1, <2>2 DEF Valid
    <3>2. m \in 1..Len(plans)
      BY <2>1, RunHasPlan
    <3>3. Snapshot(m)' = Snapshot(m)
      BY <3>2, SnapshotsStay
    <3> QED BY <2>1, <3>1, <3>3
  <2>3. CASE ~Valid
    BY <1>1, <2>1, <2>3
  <2> QED BY <2>2, <2>3
<1>13. CASE UndoOne("pointer", "close")
  <2>1. /\ import.op = "rollback" /\ import.at = "pointer" /\ UNCHANGED <<bodies, cleared, halfUndone, plans>>
        /\ front' = IF front = Snapshot(import.n) THEN NoSnapshot ELSE front
    BY <1>13, UndoTakesItsOwn DEF PlanFiles
  <2>2. front' = front /\ front # Snapshot(import.n)
    BY <2>1
  <2>3. PICK k \in halfUndone : front = Snapshot(k)
    BY <1>2, <2>1, <2>2 DEF DanglingIsHalfUndone
  <2>4. Snapshot(k)' = Snapshot(k)
    BY <2>3, SnapshotsStay DEF ImportTypes
  <2> QED BY <2>1, <2>2, <2>3, <2>4
<1> QED BY <1>3, <1>4, <1>5, <1>6, <1>7, <1>8, <1>9, <1>10, <1>11, <1>12, <1>13 DEF ImportNext

LEMMA RollbackStaysTaken ==
    ASSUME ImportInv, ImportNext
    PROVE  RollbackTookPointer'
<1> USE DEF ImportInv
<1> PICK m : m = import'.n
  OBVIOUS
<1> SUFFICES ASSUME import'.op = "rollback", import'.at = "close", plans'[m].needed
             PROVE  front' # Snapshot(m)'
  BY DEF RollbackTookPointer, Snapshot
<1>0. import' # NoImport
  BY DEF NoImport
<1>1. ASSUME import.op = "rollback", m = import.n
      PROVE  /\ plans[m].needed /\ Snapshot(m)' = Snapshot(m) /\ Snapshot(m) # NoSnapshot
  <2>1. m \in 1..Len(plans)
    BY <1>1, RunHasPlan
  <2> QED BY <1>1, <2>1, SnapshotsStay, RunHasPlan
<1>2. ASSUME UNCHANGED import, front' \in {front, NoSnapshot}
      PROVE  front' # Snapshot(m)'
  BY <1>1, <1>2 DEF RollbackTookPointer
<1>3. CASE PlanImport \/ (\E n \in 1..MaxPlans : PlanExpires(n)) \/ ClearTarget \/ \E p \in Places, s \in Contents : WriteLegacy(p, s)
  BY <1>2, <1>3 DEF PlanImport, PlanExpires, ClearTarget, WriteLegacy, target
<1>4. CASE PublishLive
  BY <1>4 DEF PublishLive, ImportTypes, ImportTypeOK
<1>5. CASE RestoreImport \/ FinishImport \/ FinishRollback \/ ImportDies
  BY <1>0, <1>5 DEF RestoreImport, FinishImport, FinishRollback, ImportDies, Ends
<1>6. CASE Prepare \/ EnterCutover \/ NoteCut
  <2>1. import.op = "apply" /\ \E at : Goes(at)
    BY <1>0, <1>6 DEF Prepare, EnterCutover, NoteCut, Ends
  <2> QED BY <2>1 DEF Goes, ImportTypes, Runs
<1>7. ASSUME NEW f, NEW next, PlaceOne(f, next)
      PROVE  FALSE
  BY <1>7 DEF PlaceOne, ImportTypes, Runs
<1>8. CASE UndoOne("generation", "pointer")
  BY <1>8, UndoTakesItsOwn DEF PlanFiles
<1>9. CASE UndoOne("pointer", "close")
  BY <1>1, <1>9, UndoTakesItsOwn DEF PlanFiles
<1>10. ASSUME NEW n \in 1..MaxPlans, BeginApply(n)
       PROVE  FALSE
  BY <1>0, <1>10 DEF BeginApply, Ends, StartImport
<1>11. ASSUME NEW n \in 1..MaxPlans, BeginRollback(n)
       PROVE  FALSE
  <2>1. m = n /\ ~plans[n].needed /\ n \in 1..Len(plans)
    BY <1>0, <1>11 DEF BeginRollback, MayOperate, Ends, StartImport
  <2> QED BY <2>1, SnapshotsStay
<1> QED BY <1>3, <1>4, <1>5, <1>6, <1>7, <1>8, <1>9, <1>10, <1>11 DEF ImportNext

LEMMA OneGraphStays ==
    ASSUME ImportInv, ImportNext
    PROVE  \A s, t \in bodies' \ {Live} : s = t
<1> USE DEF ImportInv
<1>1. CASE UNCHANGED bodies
  BY <1>1
<1>2. CASE PublishLive \/ ClearTarget
  BY <1>2 DEF PublishLive, ClearTarget
<1>3. CASE RestoreImport
  BY <1>3, RestoreKeepsOrder
<1>4. CASE PlaceOne("generation", "noted")
  <2>1. import.op = "apply" /\ import.at = "generation" /\ bodies' = bodies \cup {Snapshot(import.n)}
    BY <1>4 DEF PlaceOne, Written
  <2>2. bodies \subseteq {Snapshot(import.n)}
    BY <2>1, RunHasPlan DEF PlanFiles, TargetIsOwn
  <2> QED BY <2>1, <2>2
<1>5. CASE UndoOne("generation", "pointer")
  BY <1>5, UndoTakesItsOwn DEF PlanFiles
<1>6. CASE PlaceOne("pointer", "last")
  BY <1>1, <1>6 DEF PlaceOne, Written
<1>7. CASE UndoOne("pointer", "close")
  BY <1>1, <1>7, UndoTakesItsOwn DEF PlanFiles
<1> QED BY <1>1, <1>2, <1>3, <1>4, <1>5, <1>6, <1>7
        DEF ImportNext, PlanImport, Prepare, EnterCutover, NoteCut, FinishImport, FinishRollback, BeginApply,
            BeginRollback, PlanExpires, ImportDies, WriteLegacy, target

\* Nothing is called ready while a run is going.
LEMMA NotReadyYet ==
    ASSUME ImportInv, ImportNext
    PROVE  import'.op # "none" => ~ready'
<1> USE DEF ImportInv
<1> SUFFICES ASSUME import'.op # "none"
             PROVE  ~ready'
  OBVIOUS
<1>1. import' # NoImport
  BY DEF NoImport
<1>2. CASE UNCHANGED <<import, ready>>
  BY <1>2
<1>3. CASE import.op # "none" /\ UNCHANGED ready
  BY <1>3
<1>4. CASE Prepare \/ EnterCutover \/ NoteCut
  BY <1>1, <1>3, <1>4 DEF Prepare, EnterCutover, NoteCut, Ends
<1>5. ASSUME NEW f, NEW next, PlaceOne(f, next) \/ UndoOne(f, next)
      PROVE  ~ready'
  BY <1>3, <1>5 DEF PlaceOne, UndoOne
<1>6. CASE \E n \in 1..MaxPlans : BeginApply(n) \/ BeginRollback(n)
  BY <1>1, <1>6 DEF BeginApply, BeginRollback, Ends
<1>7. CASE RestoreImport \/ FinishImport \/ FinishRollback \/ ImportDies
  BY <1>1, <1>7 DEF RestoreImport, FinishImport, FinishRollback, ImportDies, Ends
<1>8. CASE PlanImport \/ (\E n \in 1..MaxPlans : PlanExpires(n)) \/ PublishLive \/ ClearTarget
           \/ \E p \in Places, s \in Contents : WriteLegacy(p, s)
  BY <1>2, <1>8 DEF PlanImport, PlanExpires, PublishLive, ClearTarget, WriteLegacy, others
<1> QED BY <1>4, <1>5, <1>6, <1>7, <1>8 DEF ImportNext

LEMMA ImportStep ==
    ASSUME ImportInv, [ImportNext]_ivars
    PROVE  ImportInv'
<1>1. CASE ImportNext
  <2>1. ImportTypes'
    BY <1>1, ImportStepTypes DEF ImportInv
  <2> QED BY <1>1, <2>1, TargetStaysOwn, PlacedStaysInOrder, DanglingStaysHalfUndone, RollbackStaysTaken, OneGraphStays,
             NotReadyYet DEF ImportInv
<1>2. CASE UNCHANGED ivars
  BY <1>2 DEF ImportInv, ivars, ImportTypes, ImportTypeOK, TargetIsOwn, PlacedInOrder, DanglingIsHalfUndone,
              RollbackTookPointer, Snapshot, Valid
<1> QED BY <1>1, <1>2

LEMMA ImportStarts ==
    ASSUME ImportInit
    PROVE  ImportInv
<1> USE ImportAssumption
<1>1. /\ legacy \in [Places -> Contents] /\ bodies = {} /\ front = NoSnapshot /\ plans = <<>> /\ Len(plans) = 0
      /\ expired = {} /\ note = [n \in 1..MaxPlans |-> NoNote] /\ import = NoImport /\ staged = {} /\ halfUndone = {}
      /\ cleared = FALSE /\ ready = FALSE /\ writes = 0 /\ deaths = 0
  BY DEF ImportInit
<1>2. import \in Runs /\ import.op = "none" /\ import.at = "idle" /\ import.n = 0 /\ import.cut = {} /\ import.blocked = FALSE
  BY <1>1 DEF NoImport, Runs
<1>3. note \in [1..MaxPlans -> Notes] /\ plans \in Seq(PlanDocuments)
  BY <1>1 DEF NoNote, Notes, ImportPhases
<1>4. ImportTypeOK
  <2>1. /\ bodies \subseteq Snapshots \cup {Live} /\ front \in Contents \cup {Live} /\ legacy \in [Places -> Contents]
        /\ expired \subseteq 1..Len(plans) /\ staged \subseteq 1..MaxPlans /\ halfUndone \subseteq 1..MaxPlans
        /\ Len(plans) <= MaxPlans /\ import.n \in 0..Len(plans)
    BY <1>1, <1>2 DEF Contents
  <2>2. writes \in 0..MaxWrites /\ deaths \in 0..MaxDeaths
    BY <1>1
  <2>3. cleared \in BOOLEAN /\ ready \in BOOLEAN
    BY <1>1, Zenon
  <2> QED BY <1>2, <1>3, <2>1, <2>2, <2>3 DEF ImportTypeOK
<1>5. ImportTypes
  BY <1>1, <1>2, <1>4 DEF ImportTypes, PlanFiles
<1> QED BY <1>1, <1>2, <1>5 DEF ImportInv, TargetIsOwn, PlacedInOrder, DanglingIsHalfUndone, RollbackTookPointer, Valid

THEOREM ImportInvHolds == ImportSpec => []ImportInv
BY ImportStarts, ImportStep, PTL DEF ImportSpec

(* What readers of the new layout find is one graph, whole: no interrupted,   *)
(* refused, resumed or undone import leaves a pointer without its generation,  *)
(* or a second graph over the first (operate, apply and rollback).             *)
THEOREM ImportedIsWhole == ImportSpec => []ImportedGraphIsWhole
<1>1. ImportInv => ImportedGraphIsWhole
  <2> SUFFICES ASSUME ImportInv
               PROVE  ImportedGraphIsWhole
    OBVIOUS
  <2>1. ImportTypeOK /\ ImportedPointerHasGeneration
    BY DEF ImportInv, ImportTypes, ImportedPointerHasGeneration, DanglingIsHalfUndone
  <2>2. OneGraphIsImported
    <3>1. CASE bodies \ {Live} = {}
      BY <3>1, FS_EmptySet DEF OneGraphIsImported
    <3>2. CASE \E s : bodies \ {Live} = {s}
      BY <3>2, FS_Singleton DEF OneGraphIsImported
    <3>3. bodies \ {Live} = {} \/ \E s : bodies \ {Live} = {s}
      BY DEF ImportInv
    <3> QED BY <3>1, <3>2, <3>3
  <2> QED BY <2>1, <2>2 DEF ImportedGraphIsWhole
<1> QED BY <1>1, ImportInvHolds, PTL

\* A run takes away and puts back nothing but the graph it imports.
LEMMA OnlyItsOwnMoves ==
    ASSUME ImportInv, ImportNext, import.op # "none", writes' = writes
    PROVE  /\ Live \in bodies => Live \in bodies'
           /\ front = Live => front' = Live
<1> USE DEF ImportInv
<1> DEFINE s == Snapshot(import.n)
<1>1. plans[import.n].needed => s # Live
  BY RunHasPlan
<1>2. CASE UNCHANGED <<bodies, front>>
  BY <1>2
<1>3. CASE RestoreImport
  <2>1. s # Live
    BY <1>1, <1>3, RunHasPlan DEF RestoreImport
  <2> QED BY <1>3, <2>1, RestoreKeepsOrder
<1>4. CASE PlaceOne("generation", "noted")
  BY <1>4 DEF PlaceOne, Written
<1>5. CASE PlaceOne("pointer", "last")
  <2>1. import.op = "apply" /\ import.at = "pointer"
    BY <1>5 DEF PlaceOne
  <2>2. front # Live /\ UNCHANGED bodies
    BY <1>1, <1>5, <2>1, RunHasPlan, ImportAssumption DEF TargetIsOwn, PlanFiles, PlaceOne, Written
  <2> QED BY <2>2
<1>6. ASSUME NEW f \in PlanFiles, NEW next, UndoOne(f, next)
      PROVE  (Live \in bodies => Live \in bodies') /\ (front = Live => front' = Live)
  BY <1>1, <1>6, UndoTakesItsOwn DEF PlanFiles
<1>7. CASE ClearTarget
  BY <1>7 DEF ClearTarget, ImportTypes, ImportTypeOK
<1>8. CASE PublishLive
  BY <1>8 DEF PublishLive
<1> QED BY <1>2, <1>3, <1>4, <1>5, <1>6, <1>7, <1>8
        DEF ImportNext, PlanFiles, PlanImport, Prepare, EnterCutover, NoteCut, FinishImport, FinishRollback, BeginApply,
            BeginRollback, PlanExpires, ImportDies, WriteLegacy, target

\* An apply that comes to its end has both files in place.
LEMMA ReadyAtTheEnd ==
    ASSUME ImportInv, ImportNext, ready', import.op = "apply", plans[import.n].needed, ~cleared
    PROVE  front = Snapshot(import.n) /\ Snapshot(import.n) \in bodies
<1> USE DEF ImportInv
<1>1. CASE UNCHANGED ready
  BY <1>1
<1>2. CASE FinishImport
  BY <1>2 DEF FinishImport, PlacedInOrder
<1>3. CASE RestoreImport
  BY <1>3, RestoreKeepsOrder
<1>4. CASE Prepare \/ ImportDies
  BY <1>1, <1>4 DEF Prepare, ImportDies, Ends
<1>5. CASE FinishRollback \/ PublishLive \/ \E n \in 1..MaxPlans : BeginApply(n) \/ BeginRollback(n)
  BY <1>5 DEF FinishRollback, PublishLive, BeginApply, BeginRollback, MayOperate
<1>6. ASSUME NEW f, NEW next, PlaceOne(f, next) \/ UndoOne(f, next)
      PROVE  UNCHANGED ready
  BY <1>6 DEF PlaceOne, UndoOne
<1> QED BY <1>1, <1>2, <1>3, <1>4, <1>5, <1>6
        DEF ImportNext, PlanImport, EnterCutover, NoteCut, PlanExpires, ClearTarget, WriteLegacy, others

(* What the daemon published stays, whatever an import that began before or    *)
(* after does, and "ready" is said of a target that holds the reviewed graph    *)
(* with its pointer (operate, cutover_one, apply's last validation).            *)
THEOREM ImportsKeepTheirWord == ImportSpec => ImportKeepsItsWord
<1>1. ImportInv /\ [ImportNext]_ivars =>
        [import.op # "none" /\ writes' = writes =>
           /\ Live \in bodies => Live \in bodies'
           /\ front = Live => front' = Live]_ivars
  BY OnlyItsOwnMoves
<1>2. ImportInv /\ [ImportNext]_ivars =>
        [ready' /\ import.op = "apply" /\ plans[import.n].needed /\ ~cleared =>
           front = Snapshot(import.n) /\ Snapshot(import.n) \in bodies]_ivars
  BY ReadyAtTheEnd
<1>3. ImportSpec => LiveIsKept
  BY <1>1, ImportInvHolds, PTL DEF ImportSpec, LiveIsKept
<1>4. ImportSpec => ReadyIsReviewed
  BY <1>2, ImportInvHolds, PTL DEF ImportSpec, ReadyIsReviewed
<1> QED BY <1>3, <1>4 DEF ImportKeepsItsWord
-----------------------------------------------------------------------------
(* The daemon that owns the lock.                                          *)

ProcRecords == [owner : {"none", "serve", "build"}, at : Steps, startup : BOOLEAN,
                shutdown : BOOLEAN, why : {"none", "done", "busy", "fatal", "shutdown", "crash"}]

PassRecords == [scope : SUBSET Projects, full : BOOLEAN, batch : SUBSET Hints,
                hint : Hints \cup {None}, p : 0..NProjects + 1, work : BOOLEAN, cfg : Nat,
                got : [Projects -> Versions \cup {None}]]

WatchRecords == [seen : [Projects -> Versions \cup {None}], due : BOOLEAN, retries : 0..3, burst : 0..3]

RegRecords == [on : BOOLEAN, cfg : Nat, scan : BOOLEAN, seq : Nat]

RowRecords == [known : Versions, dirty : BOOLEAN, facts : Versions]

JobRecords == [state : JobStates, target : Nat]

Kinds == {"done", "busy", "fatal", "shutdown", "crash"}

Waiting == {"off", "sleep", "baseline"}

\* Only a daemon waits, and only one that has started up.
WaitingIsServing ==
    /\ (proc.owner = "none") = (proc.at = "off")
    /\ proc.at \in {"sleep", "baseline"} => proc.owner = "serve"
    /\ proc.at = "sleep" => ~proc.startup
    /\ proc.at = "baseline" => proc.startup

\* Every extra pass of a burst follows a transient error of its own.
BurstsAreShort ==
    proc.owner = "serve" =>
        IF proc.startup THEN watch.retries = 0 /\ watch.burst = 0
        ELSE IF proc.at = "sleep" THEN watch.retries > 0 => watch.burst < watch.retries
        ELSE watch.burst <= watch.retries

\* The projects before the one at work have the outcome their lane has.
OutcomesAreLanes ==
    /\ proc.at \in {"inventory", "analyze", "publish"} => pass.p \in Projects
    /\ proc.at = "claim" => pass.p # 0
    /\ proc.at \in {"claim", "inventory", "analyze", "publish"} =>
           \A q \in pass.scope : q < pass.p => pass.got[q] = lane[q]
    /\ proc.at = "catalog" => pass.got = lane /\ lane \in [Projects -> Versions]

\* The hint whose file is about to go has its job.
ReceiptFollowsCommit ==
    proc.at = "receipt" =>
        pass.hint \in Hints /\ (jobs[pass.hint].state # "absent" \/ pass.hint \in forgot)

DaemonInv ==
    /\ DaemonTypeOK
    /\ WaitingIsServing /\ BurstsAreShort /\ OutcomesAreLanes
    /\ ReceiptFollowsCommit /\ AcceptedHintIsKept /\ TargetsAreDistinct

LEMMA LeastExists ==
    ASSUME NEW T \in SUBSET Nat, T # {}
    PROVE  \E x \in T : \A y \in T : x <= y
<1>1. PICK x \in T : \A y \in T : ~(<<y, x>> \in OpToRel(<, Nat))
  BY NatLessThanWellFounded, WFMin, Zenon
<1>2. \A y \in T : y \in Nat /\ x \in Nat
  OBVIOUS
<1>3. \A y \in T : <<y, x>> \in Nat \X Nat /\ <<y, x>>[1] = y /\ <<y, x>>[2] = x
  BY <1>2
<1>4. \A y \in T : y < x => <<y, x>> \in OpToRel(<, Nat)
  BY <1>3, Zenon DEF OpToRel
<1>5. \A y \in T : ~(y < x)
  BY <1>1, <1>4, Zenon
<1> QED BY <1>2, <1>5

\* No project of the scope is passed over.
LEMMA NextProjectFollows ==
    ASSUME DaemonTypeOK, NEW p \in 0..NProjects + 1
    PROVE  /\ NextProject(p) \in 1..NProjects + 1
           /\ \A q \in pass.scope : q < NextProject(p) => q <= p
<1> DEFINE rest == {q \in pass.scope : q > p}
<1>0. NProjects \in Nat \ {0} /\ pass.scope \subseteq Projects /\ Projects = 1..NProjects
  BY DaemonAssumption DEF DaemonTypeOK, Projects
<1>1. CASE rest = {}
  BY <1>0, <1>1 DEF NextProject
<1>2. CASE rest # {}
  <2>1. \E x \in rest : \A y \in rest : x <= y
    <3>1. rest \in SUBSET Nat
      BY <1>0
    <3> HIDE DEF rest
    <3> QED BY <1>2, <3>1, LeastExists
  <2>2. NextProject(p) = CHOOSE x \in rest : \A y \in rest : x <= y
    BY <1>2 DEF NextProject
  <2> HIDE DEF rest
  <2>3. NextProject(p) \in rest /\ \A y \in rest : NextProject(p) <= y
    BY <2>1, <2>2
  <2> USE DEF rest
  <2> QED BY <1>0, <2>3
<1> QED BY <1>1, <1>2

LEMMA StoppedProcess ==
    ASSUME DaemonTypeOK, NEW reason \in Kinds, Stop(reason)
    PROVE  /\ proc' \in ProcRecords /\ proc'.at = "off" /\ pass' = NoPass /\ UNCHANGED watch
           /\ torn' \subseteq Projects /\ WaitingIsServing' /\ BurstsAreShort' /\ proc'.why = reason
           /\ proc'.owner = "none"
<1>1. proc \in ProcRecords
  BY DEF DaemonTypeOK, ProcRecords
<1>2. /\ proc' \in ProcRecords /\ proc'.at = "off" /\ proc'.owner = "none" /\ pass' = NoPass /\ UNCHANGED watch
      /\ proc'.why = reason
  BY <1>1 DEF Stop, ProcRecords, Kinds, Steps
<1>3. torn' \subseteq Projects
  BY DEF Stop, Unpublished, DaemonTypeOK
<1> QED BY <1>2, <1>3 DEF WaitingIsServing, BurstsAreShort

LEMMA FailedPass ==
    ASSUME DaemonInv, proc.at \notin Waiting, NEW kind \in Kinds, PassFails(kind)
    PROVE  /\ proc' \in ProcRecords /\ proc'.at \in {"off", "sleep"} /\ pass' = NoPass /\ watch' \in WatchRecords
           /\ torn' \subseteq Projects /\ WaitingIsServing' /\ BurstsAreShort'
           /\ (proc.owner = "serve" /\ ~proc.startup /\ proc'.owner = "none" /\ proc'.why = "fatal" => kind = "fatal")
<1> USE DEF DaemonInv
<1>1. proc \in ProcRecords /\ watch \in WatchRecords /\ torn \subseteq Projects
  BY DEF DaemonTypeOK, ProcRecords, WatchRecords
<1>2. CASE kind = "busy" /\ proc.owner = "serve" /\ ~proc.startup
  <2>1. /\ proc' = [proc EXCEPT !.at = "sleep"] /\ pass' = NoPass /\ UNCHANGED torn
        /\ watch' = [watch EXCEPT !.due = FALSE, !.retries = IF watch.retries >= 3 THEN 0 ELSE watch.retries + 1]
    BY <1>2 DEF PassFails
  <2>2. proc' \in ProcRecords /\ proc'.at = "sleep" /\ proc'.owner = "serve" /\ ~proc'.startup
    BY <1>1, <1>2, <2>1 DEF ProcRecords, Steps
  <2>3. /\ watch' \in WatchRecords /\ watch'.burst = watch.burst
        /\ watch'.retries = IF watch.retries >= 3 THEN 0 ELSE watch.retries + 1
    <3> DEFINE r == IF watch.retries >= 3 THEN 0 ELSE watch.retries + 1
    <3>1. r \in 0..3
      BY <1>1 DEF WatchRecords
    <3>2. watch' = [watch EXCEPT !.due = FALSE, !.retries = r]
      BY <2>1
    <3> HIDE DEF r
    <3>3. watch' \in WatchRecords /\ watch'.burst = watch.burst /\ watch'.retries = r
      BY <1>1, <3>1, <3>2 DEF WatchRecords
    <3> QED BY <3>3 DEF r
  <2>4. watch.burst <= watch.retries /\ watch.burst \in Nat /\ watch.retries \in Nat
    BY <1>1, <1>2 DEF BurstsAreShort, Waiting, WatchRecords
  <2>5. BurstsAreShort'
    BY <2>2, <2>3, <2>4 DEF BurstsAreShort
  <2> QED BY <1>1, <2>1, <2>2, <2>3, <2>5 DEF WaitingIsServing
<1>3. CASE ~(kind = "busy" /\ proc.owner = "serve" /\ ~proc.startup)
  BY <1>1, <1>3, StoppedProcess DEF PassFails
<1> QED BY <1>2, <1>3

LEMMA SucceededPass ==
    ASSUME DaemonInv, proc.at \notin Waiting, PassSucceeds
    PROVE  /\ proc' \in ProcRecords /\ proc'.at \in Waiting /\ pass' = NoPass /\ watch' \in WatchRecords
           /\ torn' \subseteq Projects /\ WaitingIsServing' /\ BurstsAreShort'
           /\ (proc'.owner = "none" => proc.owner = "build")
<1> USE DEF DaemonInv
<1>1. proc \in ProcRecords /\ watch \in WatchRecords /\ torn \subseteq Projects
  BY DEF DaemonTypeOK, ProcRecords, WatchRecords
<1>2. CASE proc.owner = "build"
  BY <1>1, <1>2, StoppedProcess DEF PassSucceeds, Kinds, Waiting
<1>3. CASE proc.owner # "build"
  <2>1. proc.owner = "serve"
    BY <1>1, <1>3 DEF WaitingIsServing, Waiting, ProcRecords
  <2>2. /\ proc' = [proc EXCEPT !.at = IF proc.startup THEN "baseline" ELSE "sleep"] /\ pass' = NoPass /\ UNCHANGED torn
        /\ watch' = IF proc.startup THEN watch ELSE [watch EXCEPT !.due = FALSE, !.retries = 0]
    BY <1>3 DEF PassSucceeds
  <2>3. /\ proc' \in ProcRecords /\ proc'.at = IF proc.startup THEN "baseline" ELSE "sleep"
        /\ proc'.owner = "serve" /\ proc'.startup = proc.startup
    BY <1>1, <2>1, <2>2 DEF ProcRecords, Steps
  <2>4. /\ watch' \in WatchRecords /\ (~proc.startup => watch'.retries = 0)
        /\ (proc.startup => UNCHANGED watch)
    <3>1. CASE proc.startup
      BY <1>1, <2>2, <3>1
    <3>2. CASE ~proc.startup
      <4>1. watch' = [watch EXCEPT !.due = FALSE, !.retries = 0]
        BY <2>2, <3>2
      <4>2. watch' \in WatchRecords /\ watch'.retries = 0
        <5>1. PICK zero \in 0..3 : zero = 0
          OBVIOUS
        <5>2. watch' = [watch EXCEPT !.due = FALSE, !.retries = zero]
          BY <4>1, <5>1
        <5> QED BY <1>1, <5>1, <5>2 DEF WatchRecords
      <4> QED BY <3>2, <4>2, Zenon
    <3> QED BY <3>1, <3>2
  <2>5. BurstsAreShort'
    BY <2>1, <2>2, <2>3, <2>4 DEF BurstsAreShort
  <2>6. WaitingIsServing'
    BY <2>3 DEF WaitingIsServing
  <2> QED BY <1>1, <2>2, <2>3, <2>4, <2>5, <2>6 DEF Waiting
<1> QED BY <1>2, <1>3

LEMMA PassGoesOn ==
    ASSUME DaemonInv, proc.at \notin Waiting, NEW step \in Steps \ Waiting, GoTo(step), UNCHANGED watch
    PROVE  /\ proc' \in ProcRecords /\ proc'.at = step /\ proc'.owner = proc.owner
           /\ WaitingIsServing' /\ BurstsAreShort'
<1> USE DEF DaemonInv
<1>1. proc \in ProcRecords
  BY DEF DaemonTypeOK, ProcRecords
<1>2. /\ proc' \in ProcRecords /\ proc'.at = step /\ proc'.owner = proc.owner /\ proc'.startup = proc.startup
  BY <1>1 DEF GoTo, ProcRecords
<1> QED BY <1>2 DEF WaitingIsServing, BurstsAreShort, Waiting

\* How the loop and the pass hold each other: every step of a pass fails it, ends it or goes on.
GoesOnTo == \E step \in Steps \ Waiting : GoTo(step) /\ UNCHANGED watch /\ torn' \subseteq torn

LEMMA PassMoves ==
    ASSUME DaemonInv, PassStep
    PROVE  proc.at \notin Waiting /\ (GoesOnTo \/ PassSucceeds \/ \E kind \in Kinds : PassFails(kind))
<1> USE DEF Waiting, Kinds, GoesOnTo, Steps
<1>1. CASE ListInbox
  BY <1>1 DEF ListInbox
<1>2. CASE \E h \in Hints : IngestHint(h)
  BY <1>2 DEF IngestHint
<1>3. CASE RemoveReceipt
  BY <1>3 DEF RemoveReceipt
<1>4. CASE ReadSolution
  <2>1. proc.at = "hints"
    BY <1>4 DEF ReadSolution
  <2>2. CASE reg.on
    BY <1>4, <2>1, <2>2 DEF ReadSolution
  <2>3. CASE ~reg.on /\ proc.owner = "build"
    BY <1>4, <2>1, <2>3 DEF ReadSolution
  <2>4. CASE ~reg.on /\ proc.owner = "serve"
    BY <1>4, <2>1, <2>4 DEF ReadSolution
  <2>5. proc.owner \in {"serve", "build"}
    BY <2>1 DEF DaemonInv, DaemonTypeOK, WaitingIsServing
  <2> QED BY <2>2, <2>3, <2>4, <2>5
<1>5. CASE ClaimProject
  BY <1>5 DEF ClaimProject
<1>6. CASE InventoryProject
  BY <1>6 DEF InventoryProject
<1>7. CASE AnalyzeProject
  BY <1>7 DEF AnalyzeProject
<1>8. CASE PublishProject
  BY <1>8 DEF PublishProject, Outcome
<1>9. CASE CollectMembers
  BY <1>9 DEF CollectMembers
<1>10. CASE PublishCatalog
  BY <1>10 DEF PublishCatalog
<1>11. CASE FinishPass
  BY <1>11 DEF FinishPass
<1> QED BY <1>1, <1>2, <1>3, <1>4, <1>5, <1>6, <1>7, <1>8, <1>9, <1>10, <1>11 DEF PassStep

LEMMA ControlStep ==
    ASSUME DaemonInv, DaemonNext
    PROVE  /\ proc' \in ProcRecords /\ watch' \in WatchRecords /\ torn' \subseteq Projects
           /\ WaitingIsServing' /\ BurstsAreShort'
<1> USE DEF DaemonInv
<1>a. /\ proc \in ProcRecords /\ watch \in WatchRecords /\ torn \subseteq Projects
      /\ source \in [Projects -> Versions]
  BY DEF DaemonTypeOK, ProcRecords, WatchRecords
<1> DEFINE Controlled == /\ proc' \in ProcRecords /\ watch' \in WatchRecords /\ torn' \subseteq Projects
                         /\ WaitingIsServing' /\ BurstsAreShort'
<1>b. ASSUME UNCHANGED watch, torn' \subseteq Projects, proc' \in ProcRecords, UNCHANGED <<proc.owner, proc.at, proc.startup>>
      PROVE  Controlled
  BY <1>a, <1>b DEF WaitingIsServing, BurstsAreShort
<1>c. \A p \in Projects : lane[p] # None => p \in Projects
  OBVIOUS
<1>1. CASE PassStep
  <2>1. proc.at \notin Waiting
    BY <1>1, PassMoves
  <2>2. CASE GoesOnTo
    BY <1>a, <2>1, <2>2, PassGoesOn DEF GoesOnTo
  <2>3. CASE PassSucceeds
    BY <2>1, <2>3, SucceededPass
  <2>4. CASE \E kind \in Kinds : PassFails(kind)
    BY <2>1, <2>4, FailedPass
  <2> QED BY <1>1, <2>2, <2>3, <2>4, PassMoves
<1>d. CASE SnapshotFails
  BY <1>a, <1>d, StoppedProcess DEF SnapshotFails, Kinds
<1>2. CASE Baseline /\ ~SnapshotFails
  <2>1. /\ proc.at = "baseline" /\ proc.owner = "serve" /\ proc.startup /\ UNCHANGED torn
        /\ proc' = [proc EXCEPT !.at = "sleep", !.startup = FALSE]
        /\ watch' = [watch EXCEPT !.seen = IF reg.on THEN source ELSE @, !.due = FALSE]
    BY <1>2 DEF Baseline, WaitingIsServing
  <2>2. proc' \in ProcRecords /\ proc'.at = "sleep" /\ proc'.owner = "serve" /\ ~proc'.startup
    BY <1>a, <2>1 DEF ProcRecords, Steps
  <2>3. (IF reg.on THEN source ELSE watch.seen) \in [Projects -> Versions \cup {None}]
    BY <1>a DEF WatchRecords
  <2>4. watch' \in WatchRecords /\ watch'.retries = watch.retries
    BY <1>a, <2>1, <2>3 DEF WatchRecords
  <2>5. watch.retries = 0
    BY <2>1 DEF BurstsAreShort
  <2> QED BY <1>a, <2>1, <2>2, <2>4, <2>5 DEF WaitingIsServing, BurstsAreShort
<1>3. CASE Turn /\ ~SnapshotFails
  <2>1. proc.at = "sleep" /\ proc.owner = "serve" /\ ~proc.startup
    BY <1>3 DEF Turn, WaitingIsServing
  <2>2. CASE Stop("shutdown")
    BY <1>a, <2>2, StoppedProcess DEF Kinds
  <2>3. CASE PollRoots
    <3>1. PICK hit : LET changed == reg.on /\ hit # {}
                         looked == IF reg.on THEN source ELSE watch.seen
                     IN  /\ IF changed \/ watch.due \/ watch.retries > 0
                            THEN /\ GoTo("list")
                                 /\ watch' = [watch EXCEPT !.seen = looked, !.burst =
                                                 IF changed \/ watch.due THEN 0 ELSE watch.burst + 1]
                            ELSE /\ watch' = [watch EXCEPT !.seen = looked]
                                 /\ UNCHANGED <<proc, pass>>
                         /\ UNCHANGED torn
      BY <2>3 DEF PollRoots
    <3> DEFINE looked == IF reg.on THEN source ELSE watch.seen
               burst == IF (reg.on /\ hit # {}) \/ watch.due THEN 0 ELSE watch.burst + 1
    <3>2. looked \in [Projects -> Versions \cup {None}]
      BY <1>a DEF WatchRecords
    <3>3. CASE (reg.on /\ hit # {}) \/ watch.due \/ watch.retries > 0
      <4>1. burst \in 0..3 /\ burst <= watch.retries
        <5>1. CASE (reg.on /\ hit # {}) \/ watch.due
          BY <1>a, <5>1 DEF WatchRecords
        <5>2. CASE ~((reg.on /\ hit # {}) \/ watch.due)
          BY <1>a, <2>1, <3>3, <5>2 DEF WatchRecords, BurstsAreShort
        <5> QED BY <5>1, <5>2
      <4>2. GoTo("list") /\ UNCHANGED torn /\ watch' = [watch EXCEPT !.seen = looked, !.burst = burst]
        BY <3>1, <3>3
      <4> HIDE DEF looked, burst
      <4>3. watch' \in WatchRecords /\ watch'.burst = burst /\ watch'.retries = watch.retries
        BY <1>a, <3>2, <4>1, <4>2 DEF WatchRecords
      <4>4. proc' \in ProcRecords /\ proc'.at = "list" /\ proc'.owner = "serve" /\ ~proc'.startup
        BY <1>a, <2>1, <4>2 DEF GoTo, ProcRecords, Steps
      <4> QED BY <1>a, <4>1, <4>2, <4>3, <4>4 DEF WaitingIsServing, BurstsAreShort
    <3>4. CASE ~((reg.on /\ hit # {}) \/ watch.due \/ watch.retries > 0)
      <4>1. UNCHANGED <<proc, torn>> /\ watch' = [watch EXCEPT !.seen = looked]
        BY <3>1, <3>4
      <4> HIDE DEF looked
      <4>2. watch' \in WatchRecords /\ UNCHANGED <<watch.burst, watch.retries>>
        BY <1>a, <3>2, <4>1 DEF WatchRecords
      <4> QED BY <1>a, <4>1, <4>2 DEF WaitingIsServing, BurstsAreShort
    <3> QED BY <3>3, <3>4
  <2> QED BY <1>3, <2>2, <2>3 DEF Turn
<1>4. CASE FallbackElapses
  <2>1. watch' = [watch EXCEPT !.due = TRUE] /\ UNCHANGED <<proc, torn>>
    BY <1>4 DEF FallbackElapses
  <2>2. watch' \in WatchRecords /\ UNCHANGED <<watch.burst, watch.retries>>
    BY <1>a, <2>1 DEF WatchRecords
  <2> QED BY <1>a, <2>1, <2>2 DEF WaitingIsServing, BurstsAreShort
<1>5. CASE StartServe
  <2>1. /\ proc' = [owner |-> "serve", at |-> "list", startup |-> TRUE, shutdown |-> FALSE, why |-> "none"]
        /\ watch' = [seen |-> [p \in Projects |-> None], due |-> FALSE, retries |-> 0, burst |-> 0]
        /\ UNCHANGED torn
    BY <1>5 DEF StartServe
  <2>2. proc' \in ProcRecords /\ watch' \in WatchRecords
    BY <2>1 DEF ProcRecords, WatchRecords, Steps
  <2> QED BY <1>a, <2>1, <2>2 DEF WaitingIsServing, BurstsAreShort
<1>6. ASSUME NEW scope, NEW full, NEW recorded, StartBuild(scope, full, recorded)
      PROVE  Controlled
  <2>1. CASE proc.owner = "none"
    <3>1. /\ proc' = [owner |-> "build", at |-> "list", startup |-> FALSE, shutdown |-> FALSE, why |-> "none"]
          /\ UNCHANGED <<watch, torn>>
      BY <1>6, <2>1 DEF StartBuild
    <3>2. proc' \in ProcRecords
      BY <3>1 DEF ProcRecords, Steps
    <3> QED BY <1>a, <3>1, <3>2 DEF WaitingIsServing, BurstsAreShort
  <2>2. CASE proc.owner # "none"
    BY <1>a, <1>b, <1>6, <2>2 DEF StartBuild
  <2> QED BY <2>1, <2>2
<1>7. CASE Signal
  <2>1. proc' = [proc EXCEPT !.shutdown = TRUE] /\ UNCHANGED <<watch, torn>>
    BY <1>7 DEF Signal
  <2> QED BY <1>a, <1>b, <2>1 DEF ProcRecords
<1>8. CASE DaemonCrash
  BY <1>a, <1>8, StoppedProcess DEF DaemonCrash, Kinds
<1>9. CASE Remove
  <2>1. torn' \subseteq Projects /\ UNCHANGED <<watch, proc>>
    BY <1>a, <1>9 DEF Remove, Operator
  <2> QED BY <1>a, <1>b, <2>1
<1>10. CASE UNCHANGED <<proc, watch, torn>>
  BY <1>a, <1>b, <1>10
<1>11. CASE \/ \E p \in Projects, v \in Versions : Edit(p, v)
            \/ \E h \in Hints : CheckHint(h) \/ StageHint(h) \/ AcceptHint(h) \/ ProducerDies(h)
            \/ \E g \in {"lane", "catalog"} : Read(g) \/ EndRead(g)
  BY <1>10, <1>11 DEF Edit, CheckHint, StageHint, AcceptHint, ProducerDies, Producer, Read, EndRead
<1>12. CASE Register \/ WriteMetadata \/ RegisterDies \/ \E j \in JobIds : CancelJob(j)
  BY <1>10, <1>12 DEF Register, WriteMetadata, RegisterDies, CancelJob, Operator
<1> QED BY <1>d, <1>1, <1>2, <1>3, <1>4, <1>5, <1>6, <1>7, <1>8, <1>9, <1>11, <1>12
        DEF DaemonNext, LoopStep, DaemonEnvironment

\* What a pass knows of itself, and how far it is.
LEMMA OutcomesStep ==
    ASSUME DaemonInv, DaemonNext
    PROVE  pass' \in PassRecords /\ OutcomesAreLanes'
<1> USE DEF DaemonInv
<1> DEFINE InOrder == pass' \in PassRecords /\ OutcomesAreLanes'
<1>a. /\ pass \in PassRecords /\ reg.cfg \in Nat /\ lane \in [Projects -> Versions \cup {None}]
      /\ proc \in ProcRecords
  BY DEF DaemonTypeOK, PassRecords, ProcRecords
<1>b. NProjects \in Nat \ {0} /\ Projects = 1..NProjects
  BY DaemonAssumption DEF Projects
<1>c. NoPass \in PassRecords
  BY <1>b DEF NoPass, PassRecords
<1>d. ASSUME pass' = NoPass, proc'.at \in Waiting \cup {"list"}
      PROVE  InOrder
  BY <1>c, <1>d DEF OutcomesAreLanes, Waiting
<1>e. ASSUME pass' \in PassRecords, proc'.at \notin {"claim", "inventory", "analyze", "publish", "catalog"}
      PROVE  InOrder
  BY <1>e DEF OutcomesAreLanes
<1>f. ASSUME UNCHANGED <<pass, lane>>, UNCHANGED proc.at
      PROVE  InOrder
  BY <1>a, <1>f DEF OutcomesAreLanes
<1>g. ASSUME NEW kind \in Kinds, proc.at \notin Waiting, PassFails(kind)
      PROVE  InOrder
  BY <1>d, <1>g, FailedPass DEF Waiting
<1>h. ASSUME proc.at \notin Waiting, PassSucceeds
      PROVE  InOrder
  BY <1>d, <1>h, SucceededPass
<1>i. ASSUME NEW step, GoTo(step)
      PROVE  proc'.at = step
  BY <1>a, <1>i DEF GoTo, ProcRecords
<1>1. CASE ListInbox
  <2>1. CASE PassFails("fatal")
    BY <1>1, <1>g, <2>1 DEF ListInbox, Waiting, Kinds
  <2>2. CASE GoTo("hints") /\ pass' = [pass EXCEPT !.batch = {h \in Hints : inbox[h] = "json"}]
    BY <1>a, <1>e, <1>i, <2>2 DEF PassRecords
  <2> QED BY <1>1, <2>1, <2>2 DEF ListInbox
<1>2. ASSUME NEW h \in Hints, IngestHint(h)
      PROVE  InOrder
  <2>1. CASE PassFails("fatal")
    BY <1>2, <1>g, <2>1 DEF IngestHint, Waiting, Kinds
  <2>2. CASE GoTo("receipt") /\ pass' = [pass EXCEPT !.hint = h]
    BY <1>a, <1>e, <1>i, <2>2 DEF PassRecords
  <2> QED BY <1>2, <2>1, <2>2 DEF IngestHint
<1>3. CASE RemoveReceipt
  <2>1. GoTo("hints") /\ pass' = [pass EXCEPT !.batch = @ \ {pass.hint}, !.hint = None]
    BY <1>3 DEF RemoveReceipt
  <2> QED BY <1>a, <1>e, <1>i, <2>1 DEF PassRecords
<1>4. CASE ReadSolution
  <2>1. proc.at = "hints" /\ proc.at \notin Waiting
    BY <1>4 DEF ReadSolution, Waiting
  <2>2. CASE reg.on
    <3>1. GoTo("claim") /\ pass' = [pass EXCEPT !.p = NextProject(0), !.cfg = reg.cfg] /\ UNCHANGED lane
      BY <1>4, <2>2 DEF ReadSolution
    <3>2. NextProject(0) \in 1..NProjects + 1 /\ \A q \in pass.scope : q < NextProject(0) => q <= 0
      BY <1>b, NextProjectFollows
    <3>3. /\ pass' \in PassRecords /\ pass'.p = NextProject(0) /\ pass'.scope = pass.scope /\ pass'.got = pass.got
      <4>1. PICK n \in 0..NProjects + 1 : n = NextProject(0)
        BY <1>b, <3>2
      <4>2. PICK c \in Nat : c = reg.cfg
        BY <1>a
      <4>3. pass' = [pass EXCEPT !.p = n, !.cfg = c]
        BY <3>1, <4>1, <4>2
      <4> QED BY <1>a, <4>1, <4>3 DEF PassRecords
    <3>4. \A q \in pass.scope : q \in 1..NProjects
      BY <1>a, <1>b DEF PassRecords
    <3>5. proc'.at = "claim"
      BY <1>i, <3>1
    <3> QED BY <1>b, <3>2, <3>3, <3>4, <3>5 DEF OutcomesAreLanes
  <2>3. CASE ~reg.on /\ proc.owner = "build"
    BY <1>4, <1>g, <2>1, <2>3 DEF ReadSolution, Kinds
  <2>4. CASE ~reg.on /\ proc.owner = "serve"
    BY <1>4, <1>h, <2>1, <2>4 DEF ReadSolution
  <2>5. proc.owner \in {"serve", "build"}
    BY <1>a, <2>1 DEF WaitingIsServing, ProcRecords
  <2> QED BY <2>2, <2>3, <2>4, <2>5
<1>5. CASE ClaimProject
  <2>1. CASE PassFails("shutdown")
    BY <1>5, <1>g, <2>1 DEF ClaimProject, Waiting, Kinds
  <2>2. CASE GoTo("inventory") /\ UNCHANGED pass
    BY <1>5, <1>a, <1>i, <2>2 DEF ClaimProject, OutcomesAreLanes
  <2> QED BY <1>5, <2>1, <2>2 DEF ClaimProject
<1>6. CASE InventoryProject
  <2>1. CASE PassFails("fatal")
    BY <1>6, <1>g, <2>1 DEF InventoryProject, Waiting, Kinds
  <2>2. CASE ~PassFails("fatal")
    <3>1. /\ pass' = [pass EXCEPT !.work = (source[pass.p] # rows[pass.p].known)] /\ GoTo("analyze")
          /\ proc.at = "inventory" /\ UNCHANGED lane
      BY <1>6, <2>2 DEF InventoryProject
    <3>2. pass' \in PassRecords /\ pass'.p = pass.p /\ pass'.scope = pass.scope /\ pass'.got = pass.got
      BY <1>a, <3>1 DEF PassRecords
    <3> QED BY <1>i, <3>1, <3>2 DEF OutcomesAreLanes
  <2> QED BY <2>1, <2>2
<1>7. CASE AnalyzeProject
  <2>1. CASE \E kind \in {"shutdown", "busy"} : PassFails(kind)
    BY <1>7, <1>g, <2>1 DEF AnalyzeProject, Waiting, Kinds
  <2>2. CASE GoTo("publish") /\ (UNCHANGED pass \/ pass' = [pass EXCEPT !.work = TRUE])
    <3>1. pass' \in PassRecords /\ pass'.p = pass.p /\ pass'.scope = pass.scope /\ pass'.got = pass.got
      BY <1>a, <2>2 DEF PassRecords
    <3> QED BY <1>7, <1>i, <2>2, <3>1 DEF OutcomesAreLanes, AnalyzeProject
  <2> QED BY <1>7, <2>1, <2>2 DEF AnalyzeProject
<1>8. CASE PublishProject
  <2>1. CASE PassFails("fatal")
    BY <1>8, <1>g, <2>1 DEF PublishProject, Waiting, Kinds
  <2>2. CASE ~PassFails("fatal")
    <3>1. PICK g : /\ Outcome(pass.p, g) /\ proc.at = "publish"
                   /\ \/ UNCHANGED lane /\ g = lane[pass.p]
                      \/ lane' = [lane EXCEPT ![pass.p] = g] /\ g = rows[pass.p].facts
      BY <1>8, <2>2 DEF PublishProject
    <3>2. pass.p \in Projects
      BY <3>1 DEF OutcomesAreLanes
    <3>3. rows[pass.p].facts \in Versions
      BY <3>2 DEF DaemonTypeOK
    <3>4. g \in Versions \cup {None} /\ lane'[pass.p] = g /\ \A q \in Projects \ {pass.p} : lane'[q] = lane[q]
      BY <1>a, <3>1, <3>2, <3>3
    <3>5. /\ pass' = [pass EXCEPT !.p = NextProject(pass.p), !.work = FALSE, !.got[pass.p] = g] /\ proc'.at = "claim"
      BY <1>i, <3>1 DEF Outcome
    <3>6. NextProject(pass.p) \in 1..NProjects + 1 /\ \A q \in pass.scope : q < NextProject(pass.p) => q <= pass.p
      BY <1>a, NextProjectFollows DEF PassRecords
    <3>7. /\ pass' \in PassRecords /\ pass'.p = NextProject(pass.p) /\ pass'.scope = pass.scope
          /\ pass'.got = [pass.got EXCEPT ![pass.p] = g]
      <4>1. PICK n \in 0..NProjects + 1 : n = NextProject(pass.p)
        BY <1>b, <3>6
      <4>2. PICK got \in [Projects -> Versions \cup {None}] : got = [pass.got EXCEPT ![pass.p] = g]
        BY <1>a, <3>4 DEF PassRecords
      <4>3. pass' = [pass EXCEPT !.p = n, !.work = FALSE, !.got = got]
        BY <1>a, <3>5, <4>1, <4>2 DEF PassRecords
      <4> QED BY <1>a, <4>1, <4>2, <4>3 DEF PassRecords
    <3>8. \A q \in pass.scope : q < NextProject(pass.p) => pass'.got[q] = lane'[q]
      <4> SUFFICES ASSUME NEW q \in pass.scope, q < NextProject(pass.p)
                   PROVE  pass'.got[q] = lane'[q]
        OBVIOUS
      <4>1. q \in Projects /\ q <= pass.p
        BY <1>a, <3>6 DEF PassRecords
      <4>2. CASE q = pass.p
        BY <1>a, <3>2, <3>4, <3>7, <4>2 DEF PassRecords
      <4>3. CASE q # pass.p
        <5>1. q < pass.p
          BY <1>b, <3>2, <4>1, <4>3
        <5>2. pass.got[q] = lane[q]
          BY <3>1, <5>1 DEF OutcomesAreLanes
        <5> QED BY <1>a, <3>4, <3>7, <4>1, <4>3, <5>2 DEF PassRecords
      <4> QED BY <4>2, <4>3
    <3> QED BY <1>b, <3>5, <3>6, <3>7, <3>8 DEF OutcomesAreLanes
  <2> QED BY <2>1, <2>2
<1>9. CASE CollectMembers
  <2>1. CASE PassFails("fatal")
    BY <1>9, <1>g, <2>1 DEF CollectMembers, Waiting, Kinds
  <2>2. CASE ~PassFails("fatal")
    <3> DEFINE member == [p \in Projects |-> IF p \in pass.scope THEN pass.got[p] ELSE lane[p]]
    <3>1. /\ GoTo("catalog") /\ pass' = [pass EXCEPT !.got = member] /\ UNCHANGED lane
          /\ proc.at = "claim" /\ pass.p \notin Projects /\ \A p \in Projects : member[p] # None
      BY <1>9, <2>2 DEF CollectMembers
    <3>2. pass.p = NProjects + 1
      BY <1>a, <1>b, <3>1 DEF OutcomesAreLanes, PassRecords
    <3>3. \A q \in pass.scope : pass.got[q] = lane[q]
      BY <1>a, <1>b, <3>1, <3>2 DEF OutcomesAreLanes, PassRecords
    <3>4. member = lane
      BY <1>a, <3>3
    <3>7. lane \in [Projects -> Versions]
      <4>1. \A p \in Projects : lane[p] \in Versions
        BY <1>a, <3>1, <3>4
      <4> QED BY <1>a, <4>1
    <3> HIDE DEF member
    <3>5. pass' \in PassRecords /\ pass'.got = lane
      BY <1>a, <3>1, <3>4 DEF PassRecords
    <3>6. proc'.at = "catalog"
      BY <1>i, <3>1
    <3> QED BY <3>1, <3>5, <3>6, <3>7 DEF OutcomesAreLanes
  <2> QED BY <2>1, <2>2
<1>10. CASE PublishCatalog
  <2>1. CASE PassFails("fatal")
    BY <1>10, <1>g, <2>1 DEF PublishCatalog, Waiting, Kinds
  <2>2. CASE GoTo("finish") /\ UNCHANGED pass
    BY <1>a, <1>e, <1>i, <2>2
  <2> QED BY <1>10, <2>1, <2>2 DEF PublishCatalog
<1>11. CASE FinishPass
  BY <1>11, <1>h DEF FinishPass, Waiting
<1>12. CASE Baseline
  <2>1. CASE Stop("fatal")
    BY <1>d, <2>1, StoppedProcess DEF Kinds, Waiting
  <2>2. CASE UNCHANGED pass /\ proc' = [proc EXCEPT !.at = "sleep", !.startup = FALSE]
    <3>1. proc'.at = "sleep"
      BY <1>a, <2>2 DEF ProcRecords
    <3> QED BY <1>a, <1>e, <2>2, <3>1
  <2> QED BY <1>12, <2>1, <2>2 DEF Baseline, SnapshotFails
<1>13. CASE Turn
  <2>1. CASE Stop("shutdown") \/ Stop("fatal")
    BY <1>d, <2>1, StoppedProcess DEF Kinds, Waiting
  <2>2. CASE UNCHANGED <<proc, pass>>
    BY <1>a, <1>e, <1>13, <2>2 DEF Turn
  <2>3. CASE GoTo("list") /\ pass' = [NoPass EXCEPT !.scope = Projects]
    BY <1>c, <1>e, <1>i, <2>3 DEF PassRecords
  <2> QED BY <1>13, <2>1, <2>2, <2>3 DEF Turn, SnapshotFails, PollRoots
<1>14. CASE StartServe
  <2>1. pass' = [NoPass EXCEPT !.scope = Projects] /\ proc'.at = "list"
    BY <1>14 DEF StartServe
  <2> QED BY <1>c, <1>e, <2>1 DEF PassRecords
<1>15. ASSUME NEW scope \in Scopes, NEW full \in BOOLEAN, NEW recorded \in BOOLEAN, StartBuild(scope, full, recorded)
       PROVE  InOrder
  <2>1. CASE proc.owner = "none"
    <3>1. pass' = [NoPass EXCEPT !.scope = scope, !.full = full] /\ proc'.at = "list" /\ scope \subseteq Projects
      BY <1>15, <2>1 DEF StartBuild, Scopes
    <3> QED BY <1>c, <1>e, <3>1 DEF PassRecords
  <2>2. CASE proc.owner # "none"
    BY <1>15, <1>f, <2>2 DEF StartBuild
  <2> QED BY <2>1, <2>2
<1>16. CASE DaemonCrash
  BY <1>16, <1>d, StoppedProcess DEF DaemonCrash, Kinds, Waiting
<1>17. CASE Signal
  <2>1. proc' = [proc EXCEPT !.shutdown = TRUE] /\ UNCHANGED <<pass, lane>>
    BY <1>17 DEF Signal
  <2> QED BY <1>a, <1>f, <2>1 DEF ProcRecords
<1>18. CASE FallbackElapses
  BY <1>18, <1>f DEF FallbackElapses
<1>19. CASE \/ \E p \in Projects, v \in Versions : Edit(p, v)
            \/ \E h \in Hints : CheckHint(h) \/ StageHint(h) \/ AcceptHint(h) \/ ProducerDies(h)
            \/ \E g \in {"lane", "catalog"} : Read(g) \/ EndRead(g)
  BY <1>19, <1>f DEF Edit, CheckHint, StageHint, AcceptHint, ProducerDies, Producer, Read, EndRead
<1>20. CASE Register \/ WriteMetadata \/ RegisterDies \/ Remove \/ \E j \in JobIds : CancelJob(j)
  BY <1>20, <1>f DEF Register, WriteMetadata, RegisterDies, Remove, CancelJob, Operator
<1> QED BY <1>1, <1>2, <1>3, <1>4, <1>5, <1>6, <1>7, <1>8, <1>9, <1>10, <1>11, <1>12, <1>13, <1>14, <1>15, <1>16,
           <1>17, <1>18, <1>19, <1>20 DEF DaemonNext, PassStep, LoopStep, DaemonEnvironment

LEMMA RowsStayRows ==
    ASSUME NEW r \in RowRecords, NEW d \in BOOLEAN, NEW v \in Versions
    PROVE  /\ [r EXCEPT !.dirty = d] \in RowRecords
           /\ [r EXCEPT !.known = v, !.dirty = d] \in RowRecords
           /\ [r EXCEPT !.dirty = d, !.facts = v] \in RowRecords
BY DEF RowRecords

\* What is on disk and in the store keeps its type.
LEMMA StoreStep ==
    ASSUME DaemonInv, DaemonNext
    PROVE  /\ source' \in [Projects -> Versions] /\ rows' \in [Projects -> RowRecords]
           /\ lane' \in [Projects -> Versions \cup {None}] /\ catalog' \in [Projects -> Versions] \cup {None}
           /\ reg' \in RegRecords /\ meta' \in Nat \cup {None} /\ enrolling' \in BOOLEAN
           /\ jobs' \in [JobIds -> JobRecords]
           /\ inbox' \in [Hints -> {"none", "checked", "next", "stuck", "json", "gone"}]
           /\ reading' \subseteq {"lane", "catalog"} /\ forgot' \subseteq Hints /\ events' \in Nat
<1> USE DEF DaemonInv
<1>a. /\ source \in [Projects -> Versions] /\ rows \in [Projects -> RowRecords]
      /\ lane \in [Projects -> Versions \cup {None}] /\ catalog \in [Projects -> Versions] \cup {None}
      /\ reg \in RegRecords /\ meta \in Nat \cup {None} /\ enrolling \in BOOLEAN
      /\ jobs \in [JobIds -> JobRecords]
      /\ inbox \in [Hints -> {"none", "checked", "next", "stuck", "json", "gone"}]
      /\ reading \subseteq {"lane", "catalog"} /\ forgot \subseteq Hints /\ events \in Nat
  BY DEF DaemonTypeOK, RowRecords, RegRecords, JobRecords
<1>b. proc.at \in {"inventory", "analyze", "publish"} => pass.p \in Projects
  BY DEF OutcomesAreLanes
<1>c. 0 \in Versions /\ "request" \in JobIds /\ Hints \subseteq JobIds
  BY DaemonAssumption DEF Versions, JobIds
<1>d. NoRow \in RowRecords /\ NoJob \in JobRecords
  BY <1>c DEF NoRow, RowRecords, NoJob, JobRecords, JobStates
<1>1. source' \in [Projects -> Versions]
  BY <1>a DEF DaemonNext, PassStep, LoopStep, DaemonEnvironment, ListInbox, IngestHint, RemoveReceipt, ReadSolution,
     ClaimProject, InventoryProject, AnalyzeProject, PublishProject, CollectMembers, PublishCatalog, FinishPass, Baseline,
     Turn, SnapshotFails, PollRoots, FallbackElapses, StartServe, Signal, DaemonCrash, StartBuild, Edit, CheckHint, StageHint, AcceptHint,
     ProducerDies, Producer, Register, WriteMetadata, RegisterDies, Remove, CancelJob, Operator, Read, EndRead, store, env
<1>2. rows' \in [Projects -> RowRecords]
  <2>1. CASE ClaimProject
    <3>1. pass.p \in Projects /\ (UNCHANGED rows \/ rows' = [rows EXCEPT ![pass.p].dirty = TRUE])
      BY <2>1 DEF ClaimProject
    <3>2. [rows[pass.p] EXCEPT !.dirty = TRUE] \in RowRecords
      BY <1>a, <3>1, RowsStayRows
    <3> QED BY <1>a, <3>1, <3>2
  <2>2. CASE InventoryProject
    <3> DEFINE dirty == rows[pass.p].dirty \/ source[pass.p] # rows[pass.p].known
    <3>1. pass.p \in Projects /\ \/ UNCHANGED rows
                                 \/ rows' = [rows EXCEPT ![pass.p].known = source[pass.p], ![pass.p].dirty = dirty]
      BY <1>b, <2>2 DEF InventoryProject
    <3>2. dirty \in BOOLEAN
      BY Zenon
    <3>3. source[pass.p] \in Versions
      BY <1>a, <3>1
    <3> HIDE DEF dirty
    <3>4. [rows[pass.p] EXCEPT !.known = source[pass.p], !.dirty = dirty] \in RowRecords
      BY <1>a, <3>1, <3>2, <3>3, RowsStayRows
    <3> QED BY <1>a, <3>1, <3>4
  <2>3. CASE AnalyzeProject
    <3>1. pass.p \in Projects /\ \/ UNCHANGED rows
                                 \/ rows' = [rows EXCEPT ![pass.p].dirty = FALSE, ![pass.p].facts = rows[pass.p].known]
      BY <1>b, <2>3 DEF AnalyzeProject
    <3>2. rows[pass.p].known \in Versions
      BY <1>a, <3>1 DEF RowRecords
    <3>3. [rows[pass.p] EXCEPT !.dirty = FALSE, !.facts = rows[pass.p].known] \in RowRecords
      BY <1>a, <3>1, <3>2, RowsStayRows
    <3> QED BY <1>a, <3>1, <3>3
  <2>4. CASE Remove
    BY <1>d, <2>4 DEF Remove
  <2>5. CASE UNCHANGED rows
    BY <1>a, <2>5
  <2> QED BY <2>1, <2>2, <2>3, <2>4, <2>5 DEF DaemonNext, PassStep, LoopStep, DaemonEnvironment, ListInbox, IngestHint,
     RemoveReceipt, ReadSolution, PublishProject, CollectMembers, PublishCatalog, FinishPass, Baseline,
     Turn, SnapshotFails, PollRoots, FallbackElapses, StartServe, Signal, DaemonCrash, StartBuild, Edit, CheckHint, StageHint, AcceptHint,
     ProducerDies, Producer, Register, WriteMetadata, RegisterDies, CancelJob, Operator, Read, EndRead, store, env
<1>3. lane' \in [Projects -> Versions \cup {None}]
  <2>1. CASE PublishProject
    <3>1. pass.p \in Projects /\ (UNCHANGED lane \/ lane' = [lane EXCEPT ![pass.p] = rows[pass.p].facts])
      BY <1>b, <2>1 DEF PublishProject
    <3>2. rows[pass.p].facts \in Versions
      BY <1>a, <3>1 DEF RowRecords
    <3> QED BY <1>a, <3>1, <3>2
  <2>2. CASE UNCHANGED lane
    BY <1>a, <2>2
  <2> QED BY <2>1, <2>2 DEF DaemonNext, PassStep, LoopStep, DaemonEnvironment, ListInbox, IngestHint, ClaimProject,
     InventoryProject, AnalyzeProject, RemoveReceipt, ReadSolution, CollectMembers, PublishCatalog, FinishPass, Baseline,
     Turn, SnapshotFails, PollRoots, FallbackElapses, StartServe, Signal, DaemonCrash, StartBuild, Edit, CheckHint, StageHint, AcceptHint,
     ProducerDies, Producer, Register, WriteMetadata, RegisterDies, Remove, CancelJob, Operator, Read, EndRead, store, env
<1>4. reg' \in RegRecords
  <2>1. CASE UNCHANGED reg
    BY <1>a, <2>1
  <2>2. CASE reg' = [reg EXCEPT !.seq = @ + 1]
    BY <1>a, <2>2 DEF RegRecords
  <2>3. CASE Register
    BY <1>a, <2>3 DEF Register, RegRecords
  <2>4. CASE Remove
    BY <1>a, <2>4 DEF Remove, RegRecords
  <2>5. CASE FinishPass
    <3>1. PICK scan : scan = (reg.scan /\ pass.scope # Projects)
      OBVIOUS
    <3>2. scan \in BOOLEAN
      BY <3>1, Zenon
    <3>3. reg' = [reg EXCEPT !.scan = scan]
      BY <2>5, <3>1 DEF FinishPass
    <3> QED BY <1>a, <3>2, <3>3 DEF RegRecords
  <2>6. CASE PublishProject
    BY <2>1, <2>2, <2>6 DEF PublishProject
  <2>7. CASE \E h \in Hints : IngestHint(h)
    BY <2>1, <2>2, <2>7 DEF IngestHint
  <2> QED BY <2>1, <2>3, <2>4, <2>5, <2>6, <2>7 DEF DaemonNext, PassStep, LoopStep, DaemonEnvironment, ListInbox,
     ClaimProject, InventoryProject, AnalyzeProject, RemoveReceipt, ReadSolution, CollectMembers, PublishCatalog, Baseline,
     Turn, SnapshotFails, PollRoots, FallbackElapses, StartServe, Signal, DaemonCrash, StartBuild, Edit, CheckHint, StageHint, AcceptHint,
     ProducerDies, Producer, WriteMetadata, RegisterDies, CancelJob, Operator, Read, EndRead, store, env
<1>5. meta' \in Nat \cup {None} /\ enrolling' \in BOOLEAN /\ events' \in Nat
  <2>1. (UNCHANGED meta \/ meta' = reg.cfg) /\ (UNCHANGED enrolling \/ enrolling' = TRUE \/ enrolling' = FALSE)
        /\ (UNCHANGED events \/ events' = events + 1)
    BY DEF DaemonNext, PassStep, LoopStep, DaemonEnvironment, ListInbox, IngestHint, RemoveReceipt, ReadSolution,
     ClaimProject, InventoryProject, AnalyzeProject, PublishProject, CollectMembers, PublishCatalog, FinishPass, Baseline,
     Turn, SnapshotFails, PollRoots, FallbackElapses, StartServe, Signal, DaemonCrash, StartBuild, Edit, CheckHint, StageHint, AcceptHint, Happens,
     ProducerDies, Producer, Register, WriteMetadata, RegisterDies, Remove, CancelJob, Operator, Read, EndRead, store, env
  <2>2. reg.cfg \in Nat
    BY <1>a DEF RegRecords
  <2>3. enrolling' \in BOOLEAN
    BY <1>a, <2>1, Zenon
  <2> QED BY <1>a, <2>1, <2>2, <2>3
<1>6. catalog' \in [Projects -> Versions] \cup {None}
  <2>1. CASE UNCHANGED catalog
    BY <1>a, <2>1
  <2>2. CASE PublishCatalog
    BY <1>a, <2>2 DEF PublishCatalog, OutcomesAreLanes
  <2> QED BY <2>1, <2>2 DEF DaemonNext, PassStep, LoopStep, DaemonEnvironment, ListInbox, IngestHint, ClaimProject,
     InventoryProject, AnalyzeProject, PublishProject, RemoveReceipt, ReadSolution, CollectMembers, FinishPass, Baseline,
     Turn, SnapshotFails, PollRoots, FallbackElapses, StartServe, Signal, DaemonCrash, StartBuild, Edit, CheckHint, StageHint, AcceptHint,
     ProducerDies, Producer, Register, WriteMetadata, RegisterDies, Remove, CancelJob, Operator, Read, EndRead, store, env
<1>7. jobs' \in [JobIds -> JobRecords]
  <2>1. CASE \E j \in JobIds, t \in Nat : jobs' = [jobs EXCEPT ![j] = [state |-> "PENDING", target |-> t]]
    BY <1>a, <2>1 DEF JobRecords, JobStates
  <2>2. ASSUME NEW j \in JobIds, NEW s \in JobStates, jobs' = [jobs EXCEPT ![j].state = s]
        PROVE  jobs' \in [JobIds -> JobRecords]
    BY <1>a, <2>2 DEF JobRecords
  <2>3. reg.seq \in Nat /\ reg.seq + 1 \in Nat
    BY <1>a DEF RegRecords
  <2>4. CASE UNCHANGED jobs
    BY <1>a, <2>4
  <2>5. CASE \E h \in Hints : IngestHint(h)
    <3>1. UNCHANGED jobs \/ \E h \in Hints : jobs' = [jobs EXCEPT ![h] = [state |-> "PENDING", target |-> reg.seq + 1]]
      BY <2>5 DEF IngestHint
    <3> QED BY <1>c, <2>1, <2>3, <2>4, <3>1
  <2>6. ASSUME NEW scope, NEW full, NEW recorded, StartBuild(scope, full, recorded)
        PROVE  jobs' \in [JobIds -> JobRecords]
    BY <1>c, <2>1, <2>3, <2>4, <2>6 DEF StartBuild
  <2>7. CASE FinishPass
    <3>1. PICK s : s = IF jobs["request"].state \in Active THEN "SUCCEEDED" ELSE jobs["request"].state
      OBVIOUS
    <3>2. s \in JobStates
      BY <1>a, <1>c, <3>1 DEF JobRecords, JobStates
    <3>3. jobs' = [jobs EXCEPT !["request"].state = s]
      BY <2>7, <3>1 DEF FinishPass
    <3> QED BY <1>c, <2>2, <3>2, <3>3
  <2>8. CASE Remove
    BY <1>d, <2>8 DEF Remove
  <2>9. CASE \E j \in JobIds : CancelJob(j)
    BY <2>2, <2>9 DEF CancelJob, JobStates
  <2> QED BY <2>4, <2>5, <2>6, <2>7, <2>8, <2>9 DEF DaemonNext, PassStep, LoopStep, DaemonEnvironment, ListInbox,
     ClaimProject, InventoryProject, AnalyzeProject, PublishProject, RemoveReceipt, ReadSolution, CollectMembers, Baseline,
     Turn, SnapshotFails, PollRoots, FallbackElapses, StartServe, Signal, DaemonCrash, Edit, CheckHint, StageHint, AcceptHint, PublishCatalog,
     ProducerDies, Producer, Register, WriteMetadata, RegisterDies, Operator, Read, EndRead, store, env
<1>8. inbox' \in [Hints -> {"none", "checked", "next", "stuck", "json", "gone"}]
  <2>1. CASE RemoveReceipt
    BY <1>a, <2>1 DEF RemoveReceipt
  <2>2. CASE \E h \in Hints : CheckHint(h) \/ StageHint(h) \/ AcceptHint(h) \/ ProducerDies(h)
    <3>1. \E h \in Hints, to \in {"checked", "next", "stuck", "json"} : inbox' = [inbox EXCEPT ![h] = to]
      BY <2>2 DEF CheckHint, StageHint, AcceptHint, ProducerDies, Producer
    <3> QED BY <1>a, <3>1
  <2>3. CASE UNCHANGED inbox
    BY <1>a, <2>3
  <2> QED BY <2>1, <2>2, <2>3 DEF DaemonNext, PassStep, LoopStep, DaemonEnvironment, ListInbox, IngestHint, ClaimProject,
     InventoryProject, AnalyzeProject, PublishProject, ReadSolution, CollectMembers, FinishPass, Baseline, PublishCatalog,
     Turn, SnapshotFails, PollRoots, FallbackElapses, StartServe, Signal, DaemonCrash, StartBuild, Edit,
     Register, WriteMetadata, RegisterDies, Remove, CancelJob, Operator, Read, EndRead, store, env
<1>9. reading' \subseteq {"lane", "catalog"} /\ forgot' \subseteq Hints
  <2>1. CASE \E g \in {"lane", "catalog"} : Read(g) \/ EndRead(g)
    BY <1>a, <2>1 DEF Read, EndRead
  <2>2. CASE Remove
    BY <1>a, <2>2 DEF Remove, Operator
  <2>3. CASE UNCHANGED <<reading, forgot>>
    BY <1>a, <2>3
  <2> QED BY <2>1, <2>2, <2>3 DEF DaemonNext, PassStep, LoopStep, DaemonEnvironment, ListInbox, IngestHint, ClaimProject,
     InventoryProject, AnalyzeProject, PublishProject, RemoveReceipt, ReadSolution, CollectMembers, FinishPass, Baseline,
     Turn, SnapshotFails, PollRoots, FallbackElapses, StartServe, Signal, DaemonCrash, StartBuild, Edit, CheckHint, StageHint, AcceptHint,
     ProducerDies, Producer, Register, WriteMetadata, RegisterDies, CancelJob, Operator, PublishCatalog, store, env
<1> QED BY <1>1, <1>2, <1>3, <1>4, <1>5, <1>6, <1>7, <1>8, <1>9

\* What happens to the jobs, the inbox and the sequence, apart from an ingested or recorded job.
LEMMA HintsStep ==
    ASSUME DaemonInv, DaemonNext
    PROVE  ReceiptFollowsCommit' /\ AcceptedHintIsKept' /\ TargetsAreDistinct'
<1> USE DEF DaemonInv
<1> DEFINE Kept == ReceiptFollowsCommit' /\ AcceptedHintIsKept' /\ TargetsAreDistinct'
<1>a. /\ proc \in ProcRecords /\ pass \in PassRecords /\ reg \in RegRecords /\ jobs \in [JobIds -> JobRecords]
      /\ inbox \in [Hints -> {"none", "checked", "next", "stuck", "json", "gone"}] /\ forgot \subseteq Hints
  BY DEF DaemonTypeOK, ProcRecords, PassRecords, RegRecords, JobRecords
<1>b. Hints \subseteq JobIds /\ "request" \in JobIds /\ "request" \notin Hints
  BY DaemonAssumption DEF JobIds
<1>c. reg.seq \in Nat /\ \A j \in JobIds : jobs[j].target \in Nat
  BY <1>a DEF RegRecords, JobRecords
<1>d. ASSUME \A j \in JobIds : /\ (jobs'[j].state = "absent") = (jobs[j].state = "absent")
                               /\ jobs'[j].target = jobs[j].target,
             reg'.on = reg.on, reg'.seq \in Nat, reg.seq <= reg'.seq,
             forgot \subseteq forgot',
             \A h \in Hints : inbox'[h] = "gone" => inbox[h] = "gone",
             proc'.at # "receipt" \/ UNCHANGED <<pass.hint, proc.at>>
      PROVE  Kept
  <2>1. TargetsAreDistinct'
    <3>1. \A j \in JobIds : jobs'[j].state # "absent" => reg'.on /\ jobs'[j].target <= reg'.seq
      BY <1>c, <1>d DEF TargetsAreDistinct
    <3>2. \A g, h \in Hints : jobs'[g].state # "absent" /\ jobs'[h].state # "absent" /\ jobs'[g].target = jobs'[h].target
                              => g = h
      BY <1>b, <1>d DEF TargetsAreDistinct
    <3> QED BY <3>1, <3>2 DEF TargetsAreDistinct
  <2>2. AcceptedHintIsKept'
    BY <1>b, <1>d DEF AcceptedHintIsKept
  <2>3. ReceiptFollowsCommit'
    BY <1>b, <1>d DEF ReceiptFollowsCommit
  <2> QED BY <2>1, <2>2, <2>3
<1>e. ASSUME UNCHANGED <<jobs, inbox, forgot>>, reg' = reg \/ reg' = [reg EXCEPT !.seq = @ + 1],
             proc'.at # "receipt" \/ UNCHANGED <<pass.hint, proc.at>>
      PROVE  Kept
  <2>1. reg'.on = reg.on /\ reg'.seq \in Nat /\ reg.seq <= reg'.seq
    BY <1>a, <1>c, <1>e DEF RegRecords
  <2> QED BY <1>d, <1>e, <2>1
<1>f. ASSUME NEW step, GoTo(step)
      PROVE  proc'.at = step
  BY <1>a, <1>f DEF GoTo, ProcRecords
<1>g. ASSUME proc.at \notin Waiting, (\E kind \in Kinds : PassFails(kind)) \/ PassSucceeds
      PROVE  proc'.at # "receipt"
  BY <1>g, FailedPass, SucceededPass DEF Waiting
<1>h. ASSUME PassStep, proc.at # "hints"
      PROVE  proc'.at # "receipt"
  <2>1. CASE (\E kind \in Kinds : PassFails(kind)) \/ PassSucceeds
    BY <1>g, <1>h, <2>1, PassMoves
  <2>2. CASE GoesOnTo /\ ~((\E kind \in Kinds : PassFails(kind)) \/ PassSucceeds)
    BY <1>f, <1>h, <2>2 DEF PassStep, ListInbox, IngestHint, RemoveReceipt, ReadSolution, ClaimProject, InventoryProject,
       AnalyzeProject, PublishProject, Outcome, CollectMembers, PublishCatalog, FinishPass, Kinds
  <2> QED BY <1>h, <2>1, <2>2, PassMoves
<1>1. ASSUME NEW h \in Hints, IngestHint(h)
      PROVE  Kept
  <2>0. proc.at = "hints" /\ UNCHANGED <<inbox, forgot>>
    BY <1>1 DEF IngestHint, env
  <2>1. CASE PassFails("fatal") /\ UNCHANGED <<reg, jobs>>
    <3>1. proc'.at # "receipt"
      BY <1>g, <2>0, <2>1 DEF Waiting, Kinds
    <3> QED BY <1>e, <2>0, <2>1, <3>1
  <2>2. CASE reg.on /\ GoTo("receipt") /\ pass' = [pass EXCEPT !.hint = h]
    <3>1. pass'.hint = h
      BY <1>a, <2>2 DEF PassRecords
    <3>2. CASE jobs[h].state # "absent"
      <4>1. UNCHANGED <<reg, jobs>>
        BY <1>1, <2>2, <3>2 DEF IngestHint
      <4>2. ReceiptFollowsCommit'
        BY <3>1, <3>2, <4>1 DEF ReceiptFollowsCommit
      <4> QED BY <2>0, <4>1, <4>2 DEF AcceptedHintIsKept, TargetsAreDistinct
    <3>3. CASE jobs[h].state = "absent"
      <4>1. /\ reg' = [reg EXCEPT !.seq = @ + 1]
            /\ jobs' = [jobs EXCEPT ![h] = [state |-> "PENDING", target |-> reg.seq + 1]]
        BY <1>1, <2>2, <3>3 DEF IngestHint
      <4>2. reg'.on /\ reg'.seq = reg.seq + 1
        BY <1>a, <2>2, <4>1 DEF RegRecords
      <4>3. /\ jobs'[h].state = "PENDING" /\ jobs'[h].target = reg.seq + 1
            /\ \A j \in JobIds \ {h} : jobs'[j] = jobs[j]
        BY <1>a, <1>b, <4>1
      <4>4. ReceiptFollowsCommit' /\ AcceptedHintIsKept'
        BY <1>b, <2>0, <3>1, <4>3 DEF ReceiptFollowsCommit, AcceptedHintIsKept
      <4>5. \A j \in JobIds : jobs'[j].state # "absent" => reg'.on /\ jobs'[j].target <= reg'.seq
        BY <1>c, <4>2, <4>3 DEF TargetsAreDistinct
      <4>6. ASSUME NEW g \in Hints, g # h, jobs'[g].state # "absent"
            PROVE  jobs'[g].target # jobs'[h].target
        <5>1. jobs[g].target <= reg.seq /\ jobs'[g].target = jobs[g].target
          BY <1>b, <4>3, <4>6 DEF TargetsAreDistinct
        <5> QED BY <1>b, <1>c, <4>3, <5>1
      <4>7. \A f, g \in Hints : jobs'[f].state # "absent" /\ jobs'[g].state # "absent" /\ jobs'[f].target = jobs'[g].target
                                => f = g
        BY <1>b, <4>3, <4>6 DEF TargetsAreDistinct
      <4> QED BY <4>4, <4>5, <4>7 DEF TargetsAreDistinct
    <3> QED BY <3>2, <3>3
  <2> QED BY <1>1, <2>1, <2>2 DEF IngestHint
<1>2. CASE RemoveReceipt
  <2>1. /\ inbox' = [inbox EXCEPT ![pass.hint] = "gone"] /\ proc.at = "receipt" /\ proc'.at = "hints"
        /\ UNCHANGED <<reg, jobs, forgot>>
    BY <1>2, <1>f DEF RemoveReceipt, store
  <2>2. AcceptedHintIsKept'
    BY <1>a, <2>1 DEF AcceptedHintIsKept, ReceiptFollowsCommit
  <2> QED BY <2>1, <2>2 DEF ReceiptFollowsCommit, TargetsAreDistinct
<1>3. CASE FinishPass
  <2>1. proc'.at # "receipt"
    BY <1>3, <1>h DEF FinishPass, PassStep
  <2>2. \A j \in JobIds : /\ (jobs'[j].state = "absent") = (jobs[j].state = "absent")
                          /\ jobs'[j].target = jobs[j].target
    <3>1. jobs' = [jobs EXCEPT !["request"].state = IF @ \in Active THEN "SUCCEEDED" ELSE @]
      BY <1>3 DEF FinishPass
    <3>2. PICK s : s = IF jobs["request"].state \in Active THEN "SUCCEEDED" ELSE jobs["request"].state
      OBVIOUS
    <3>3. (s = "absent") = (jobs["request"].state = "absent")
      BY <3>2 DEF Active
    <3>4. jobs' = [jobs EXCEPT !["request"] = [jobs["request"] EXCEPT !.state = s]]
      BY <1>a, <1>b, <3>1, <3>2
    <3>5. [jobs["request"] EXCEPT !.state = s].state = s /\ [jobs["request"] EXCEPT !.state = s].target = jobs["request"].target
      BY <1>a, <1>b DEF JobRecords
    <3> QED BY <1>a, <1>b, <3>3, <3>4, <3>5
  <2>3. /\ UNCHANGED <<inbox, forgot>> /\ reg'.on = reg.on /\ reg'.seq = reg.seq
    BY <1>3, <1>a DEF FinishPass, env, RegRecords
  <2> QED BY <1>c, <1>d, <2>1, <2>2, <2>3
<1>4. CASE PublishProject
  <2>1. proc'.at # "receipt"
    BY <1>4, <1>h DEF PublishProject, PassStep
  <2>2. UNCHANGED <<jobs, inbox, forgot>> /\ (reg' = reg \/ reg' = [reg EXCEPT !.seq = @ + 1])
    BY <1>4 DEF PublishProject, env
  <2> QED BY <1>e, <2>1, <2>2
<1>5. CASE ListInbox \/ ReadSolution \/ ClaimProject \/ InventoryProject \/ AnalyzeProject \/ CollectMembers \/ PublishCatalog
  <2>1. UNCHANGED <<jobs, inbox, forgot, reg>>
    BY <1>5 DEF ListInbox, ReadSolution, ClaimProject, InventoryProject, AnalyzeProject, CollectMembers, PublishCatalog,
                env, store
  <2>2. proc'.at # "receipt"
    <3>1. CASE ReadSolution
      <4>1. CASE GoTo("claim")
        BY <1>f, <4>1
      <4>2. CASE (\E kind \in Kinds : PassFails(kind)) \/ PassSucceeds
        BY <1>g, <3>1, <4>2 DEF ReadSolution, Waiting
      <4>3. proc.owner \in {"serve", "build"}
        BY <1>a, <3>1 DEF WaitingIsServing, ProcRecords, ReadSolution
      <4> QED BY <3>1, <4>1, <4>2, <4>3 DEF ReadSolution, Kinds
    <3>2. CASE ~ReadSolution
      BY <1>5, <1>h, <3>2 DEF PassStep, ListInbox, ClaimProject, InventoryProject, AnalyzeProject, CollectMembers,
                              PublishCatalog
    <3> QED BY <3>1, <3>2
  <2> QED BY <1>e, <2>1, <2>2
<1>6. CASE LoopStep \/ FallbackElapses
  <2>1. UNCHANGED <<jobs, inbox, forgot, reg>>
    BY <1>6 DEF LoopStep, Baseline, Turn, SnapshotFails, FallbackElapses, store, env
  <2>2. proc'.at # "receipt"
    <3>1. CASE Baseline
      <4>1. Stop("fatal") \/ proc' = [proc EXCEPT !.at = "sleep", !.startup = FALSE]
        BY <3>1 DEF Baseline, SnapshotFails
      <4> QED BY <1>a, <4>1, StoppedProcess DEF ProcRecords, Kinds
    <3>2. CASE Turn
      <4>1. proc.at = "sleep" /\ (Stop("shutdown") \/ Stop("fatal") \/ GoTo("list") \/ UNCHANGED proc)
        BY <3>2 DEF Turn, SnapshotFails, PollRoots
      <4> QED BY <1>f, <4>1, StoppedProcess DEF Kinds
    <3>3. CASE FallbackElapses
      BY <3>3 DEF FallbackElapses
    <3> QED BY <1>6, <3>1, <3>2, <3>3 DEF LoopStep
  <2> QED BY <1>e, <2>1, <2>2
<1>7. CASE StartServe \/ DaemonCrash
  <2>1. UNCHANGED <<jobs, inbox, forgot, reg>> /\ proc'.at # "receipt"
    BY <1>7, StoppedProcess DEF StartServe, DaemonCrash, store, Kinds
  <2> QED BY <1>e, <2>1
<1>8. ASSUME NEW scope, NEW full, NEW recorded, StartBuild(scope, full, recorded)
      PROVE  Kept
  <2>1. UNCHANGED <<inbox, forgot, reg>> /\ (proc'.at = "list" \/ UNCHANGED <<proc, pass>>)
    BY <1>8 DEF StartBuild
  <2>2. CASE UNCHANGED jobs
    BY <1>e, <2>1, <2>2
  <2>3. CASE ~UNCHANGED jobs
    <3>1. /\ reg.on /\ jobs["request"].state = "absent"
          /\ jobs' = [jobs EXCEPT !["request"] = [state |-> "PENDING", target |-> reg.seq]]
      BY <1>8, <2>3 DEF StartBuild
    <3>2. /\ \A h \in Hints : jobs'[h] = jobs[h]
          /\ \A j \in JobIds \ {"request"} : jobs'[j] = jobs[j]
          /\ jobs'["request"].target = reg.seq
      BY <1>a, <1>b, <3>1
    <3>3. AcceptedHintIsKept' /\ ReceiptFollowsCommit'
      BY <2>1, <3>2 DEF AcceptedHintIsKept, ReceiptFollowsCommit
    <3>4. TargetsAreDistinct'
      <4>1. \A j \in JobIds : jobs'[j].state # "absent" => reg'.on /\ jobs'[j].target <= reg'.seq
        BY <1>c, <2>1, <3>1, <3>2 DEF TargetsAreDistinct
      <4> QED BY <3>2, <4>1 DEF TargetsAreDistinct
    <3> QED BY <3>3, <3>4
  <2> QED BY <2>2, <2>3
<1>9. CASE Signal
  <2>1. proc' = [proc EXCEPT !.shutdown = TRUE] /\ UNCHANGED <<pass, jobs, inbox, forgot, reg>>
    BY <1>9 DEF Signal, store
  <2>2. proc'.at = proc.at
    BY <1>a, <2>1 DEF ProcRecords
  <2> QED BY <1>e, <2>1, <2>2
<1>10. CASE \/ \E p \in Projects, v \in Versions : Edit(p, v)
            \/ \E g \in {"lane", "catalog"} : Read(g) \/ EndRead(g)
  BY <1>10, <1>e DEF Edit, Read, EndRead
<1>11. CASE \E h \in Hints : CheckHint(h) \/ StageHint(h) \/ AcceptHint(h) \/ ProducerDies(h)
  <2>1. /\ UNCHANGED <<proc, pass, jobs, forgot, reg>>
        /\ \E h \in Hints, to \in {"checked", "next", "stuck", "json"} : inbox' = [inbox EXCEPT ![h] = to]
    BY <1>11 DEF CheckHint, StageHint, AcceptHint, ProducerDies, Producer
  <2>2. \A h \in Hints : inbox'[h] = "gone" => inbox[h] = "gone"
    BY <1>a, <2>1
  <2> QED BY <1>c, <1>d, <2>1, <2>2
<1>12. CASE WriteMetadata \/ RegisterDies
  BY <1>12, <1>e DEF WriteMetadata, RegisterDies, Operator
<1>13. CASE Register
  <2>1. ~reg.on /\ UNCHANGED <<proc, pass, jobs, forgot, inbox>>
    BY <1>13 DEF Register, Operator
  <2>2. \A j \in JobIds : jobs'[j].state = "absent"
    BY <2>1 DEF TargetsAreDistinct
  <2>3. TargetsAreDistinct'
    BY <1>b, <2>2 DEF TargetsAreDistinct
  <2> QED BY <2>1, <2>3 DEF AcceptedHintIsKept, ReceiptFollowsCommit
<1>14. CASE Remove
  <2>1. /\ UNCHANGED <<proc, pass, inbox>> /\ jobs' = [j \in JobIds |-> NoJob]
        /\ forgot' = forgot \cup {h \in Hints : jobs[h].state # "absent"}
    BY <1>14 DEF Remove, Operator
  <2>2. \A j \in JobIds : jobs'[j].state = "absent"
    BY <2>1 DEF NoJob
  <2>3. TargetsAreDistinct'
    BY <1>b, <2>2 DEF TargetsAreDistinct
  <2> QED BY <2>1, <2>3 DEF AcceptedHintIsKept, ReceiptFollowsCommit
<1>15. ASSUME NEW j \in JobIds, CancelJob(j)
       PROVE  Kept
  <2>1. jobs[j].state = "PENDING" /\ UNCHANGED <<proc, pass, inbox, forgot, reg>>
        /\ jobs' = [jobs EXCEPT ![j].state = "CANCELLED"]
    BY <1>15 DEF CancelJob, Operator, Active
  <2>2. jobs'[j].state = "CANCELLED" /\ jobs'[j].target = jobs[j].target /\ \A k \in JobIds \ {j} : jobs'[k] = jobs[k]
    BY <1>a, <2>1 DEF JobRecords
  <2> QED BY <1>c, <1>d, <2>1, <2>2
<1> QED BY <1>1, <1>2, <1>3, <1>4, <1>5, <1>6, <1>7, <1>8, <1>9, <1>10, <1>11, <1>12, <1>13, <1>14, <1>15
        DEF DaemonNext, PassStep, DaemonEnvironment

LEMMA DaemonStep ==
    ASSUME DaemonInv, [DaemonNext]_dvars
    PROVE  DaemonInv'
<1>1. CASE DaemonNext
  <2>1. proc' \in ProcRecords /\ watch' \in WatchRecords /\ torn' \subseteq Projects /\ WaitingIsServing' /\ BurstsAreShort'
    BY <1>1, ControlStep
  <2>2. pass' \in PassRecords /\ OutcomesAreLanes'
    BY <1>1, OutcomesStep
  <2>3. ReceiptFollowsCommit' /\ AcceptedHintIsKept' /\ TargetsAreDistinct'
    BY <1>1, HintsStep
  <2>4. DaemonTypeOK'
    BY <1>1, <2>1, <2>2, StoreStep
       DEF DaemonTypeOK, ProcRecords, WatchRecords, PassRecords, RowRecords, RegRecords, JobRecords
  <2> QED BY <2>1, <2>2, <2>3, <2>4 DEF DaemonInv
<1>2. CASE UNCHANGED dvars
  BY <1>2 DEF DaemonInv, dvars, DaemonTypeOK, WaitingIsServing, BurstsAreShort, OutcomesAreLanes, ReceiptFollowsCommit,
              AcceptedHintIsKept, TargetsAreDistinct
<1> QED BY <1>1, <1>2

LEMMA DaemonStarts ==
    ASSUME DaemonInit
    PROVE  DaemonInv
<1>1. 0 \in Versions /\ Projects = 1..NProjects /\ NProjects \in Nat
  BY DaemonAssumption DEF Versions, Projects
<1>2. /\ source \in [Projects -> Versions] /\ catalog = None /\ meta = 0 /\ enrolling = FALSE /\ reading = {}
      /\ torn = {} /\ forgot = {} /\ events = 0
  BY DEF DaemonInit
<1>3. rows \in [Projects -> [known : Versions, dirty : BOOLEAN, facts : Versions]] /\ lane \in [Projects -> Versions \cup {None}]
  BY <1>1 DEF DaemonInit, NoRow
<1>4. /\ reg \in [on : BOOLEAN, cfg : Nat, scan : BOOLEAN, seq : Nat]
      /\ jobs \in [JobIds -> [state : JobStates, target : Nat]] /\ \A j \in JobIds : jobs[j].state = "absent"
      /\ inbox \in [Hints -> {"none", "checked", "next", "stuck", "json", "gone"}] /\ \A h \in Hints : inbox[h] = "none"
  BY DEF DaemonInit, NoJob, JobStates
<1>5. proc = [owner |-> "none", at |-> "off", startup |-> FALSE, shutdown |-> FALSE, why |-> "none"]
  BY DEF DaemonInit
<1>6. proc \in ProcRecords /\ proc.owner = "none" /\ proc.at = "off"
  BY <1>5 DEF ProcRecords, Steps
<1>7. pass \in PassRecords
  BY <1>1 DEF DaemonInit, NoPass, PassRecords
<1>8. watch \in WatchRecords
  BY <1>1 DEF DaemonInit, WatchRecords
<1>9. DaemonTypeOK
  BY <1>2, <1>3, <1>4, <1>6, <1>7, <1>8 DEF DaemonTypeOK, ProcRecords, PassRecords, WatchRecords
<1>10. WaitingIsServing /\ BurstsAreShort /\ OutcomesAreLanes /\ ReceiptFollowsCommit
  BY <1>6 DEF WaitingIsServing, BurstsAreShort, OutcomesAreLanes, ReceiptFollowsCommit
<1>11. AcceptedHintIsKept /\ TargetsAreDistinct
  BY <1>4, DaemonAssumption DEF AcceptedHintIsKept, TargetsAreDistinct, JobIds
<1> QED BY <1>9, <1>10, <1>11 DEF DaemonInv

THEOREM DaemonInvHolds == DaemonSpec => []DaemonInv
BY DaemonStarts, DaemonStep, PTL DEF DaemonSpec

(* A hint that a producer was told is accepted leaves the inbox only behind    *)
(* its committed job, and no two jobs of hints wait for the same event,         *)
(* wherever the process stops (ingest, bump_event_seq, apply_remove); a burst   *)
(* of transient errors is at most three passes long (the loop of serve).        *)
THEOREM AcceptedHintsAreKept == DaemonSpec => []HintsAreKept
<1>1. DaemonInv => HintsAreKept
  BY DEF DaemonInv, HintsAreKept
<1> QED BY <1>1, DaemonInvHolds, PTL

(* While hints are ingested the sequence moves only together with the job of   *)
(* a hint that had none (ingest: the job is looked for before the bump).        *)
THEOREM EveryHintCountsOnce == DaemonSpec => HintCountsOnce
<1>1. ASSUME DaemonInv, DaemonNext, proc.at = "hints", reg'.on, reg.on, reg'.seq # reg.seq
      PROVE  \E h \in Hints : jobs[h].state = "absent" /\ jobs'[h].target = reg'.seq
  <2>1. reg \in RegRecords /\ jobs \in [JobIds -> JobRecords] /\ Hints \subseteq JobIds
    BY <1>1 DEF DaemonInv, DaemonTypeOK, RegRecords, JobRecords, JobIds
  <2>2. ASSUME NEW h \in Hints, IngestHint(h)
        PROVE  jobs[h].state = "absent" /\ jobs'[h].target = reg'.seq
    <3>1. /\ jobs[h].state = "absent" /\ reg' = [reg EXCEPT !.seq = @ + 1]
          /\ jobs' = [jobs EXCEPT ![h] = [state |-> "PENDING", target |-> reg.seq + 1]]
      BY <1>1, <2>2 DEF IngestHint
    <3> QED BY <2>1, <3>1 DEF RegRecords
  <2>3. CASE Remove
    BY <1>1, <2>1, <2>3 DEF Remove, RegRecords
  <2>4. CASE UNCHANGED reg
    BY <1>1, <2>4
  <2> QED BY <1>1, <2>2, <2>3, <2>4 DEF DaemonNext, PassStep, LoopStep, DaemonEnvironment, ListInbox, RemoveReceipt, ReadSolution,
     ClaimProject, InventoryProject, AnalyzeProject, PublishProject, CollectMembers, PublishCatalog, FinishPass, Baseline,
     Turn, SnapshotFails, PollRoots, FallbackElapses, StartServe, Signal, DaemonCrash, StartBuild, Edit, CheckHint, StageHint, AcceptHint,
     ProducerDies, Producer, Register, WriteMetadata, RegisterDies, CancelJob, Operator, Read, EndRead, store, env
<1>2. DaemonInv /\ [DaemonNext]_dvars =>
        [proc.at = "hints" /\ reg'.on /\ reg.on /\ reg'.seq # reg.seq
           => \E h \in Hints : jobs[h].state = "absent" /\ jobs'[h].target = reg'.seq]_dvars
  BY <1>1
<1> QED BY <1>2, DaemonInvHolds, PTL DEF DaemonSpec, HintCountsOnce

(* The members of a published catalog are the generations of all lanes at      *)
(* that moment, those of projects the pass was not asked for included            *)
(* (publish_solution_catalog).                                                  *)
THEOREM CatalogsAreCuts == DaemonSpec => CatalogIsACut
<1>1. ASSUME DaemonInv, DaemonNext, catalog' # catalog
      PROVE  catalog' = lane
  <2>1. PublishCatalog
    BY <1>1 DEF DaemonNext, PassStep, LoopStep, DaemonEnvironment, ListInbox, IngestHint, RemoveReceipt, ReadSolution,
     ClaimProject, InventoryProject, AnalyzeProject, PublishProject, CollectMembers, FinishPass, Baseline,
     Turn, SnapshotFails, PollRoots, FallbackElapses, StartServe, Signal, DaemonCrash, StartBuild, Edit, CheckHint, StageHint, AcceptHint,
     ProducerDies, Producer, Register, WriteMetadata, RegisterDies, Remove, CancelJob, Operator, Read, EndRead, store, env
  <2> QED BY <1>1, <2>1 DEF PublishCatalog, DaemonInv, OutcomesAreLanes
<1>2. DaemonInv /\ [DaemonNext]_dvars => [catalog' # catalog => catalog' = lane]_dvars
  BY <1>1
<1> QED BY <1>2, DaemonInvHolds, PTL DEF DaemonSpec, CatalogIsACut

LastingCause ==
    \/ ~reg.on
    \/ reading # {}
    \/ ~HostKnown
    \/ Cardinality(Entries) > InboxLimit
    \/ \E p \in Projects : lane[p] = None

VanishedInSnapshot == proc.at = "sleep" /\ events' # events

LEMMA FatalHasCause ==
    ASSUME DaemonInv, DaemonNext, proc.owner = "serve", ~proc.startup, proc'.owner = "none", proc'.why = "fatal"
    PROVE  LastingCause \/ VanishedInSnapshot
<1> USE DEF DaemonInv
<1>a. proc \in ProcRecords /\ pass \in PassRecords
  BY DEF DaemonTypeOK, ProcRecords, PassRecords
<1>b. ASSUME proc.at \notin Waiting, NEW kind \in Kinds, PassFails(kind)
      PROVE  kind = "fatal"
  BY <1>b, FailedPass
<1>c. ASSUME NEW step, GoTo(step)
      PROVE  FALSE
  <2>1. proc'.owner = proc.owner
    BY <1>a, <1>c DEF GoTo, ProcRecords
  <2> QED BY <2>1
<1>d. UNCHANGED proc.owner => FALSE
  OBVIOUS
<1>1. CASE PassStep
  <2>1. proc.at \notin Waiting /\ ~PassSucceeds
    BY <1>1, PassMoves, SucceededPass
  <2>2. ~PassFails("busy") /\ ~PassFails("shutdown")
    BY <1>b, <2>1 DEF Kinds
  <2>3. CASE ListInbox
    BY <1>c, <2>3 DEF ListInbox, LastingCause
  <2>4. CASE \E h \in Hints : IngestHint(h)
    BY <1>c, <2>4 DEF IngestHint, LastingCause
  <2>5. CASE ReadSolution
    BY <1>c, <2>5 DEF ReadSolution, LastingCause
  <2>6. CASE InventoryProject
    BY <1>c, <2>6 DEF InventoryProject, LastingCause
  <2>7. CASE PublishProject
    BY <1>c, <2>7 DEF PublishProject, Outcome, LastingCause
  <2>8. CASE CollectMembers
    <3>1. ~HostKnown \/ \E p \in Projects : (IF p \in pass.scope THEN pass.got[p] ELSE lane[p]) = None
      BY <1>c, <2>8 DEF CollectMembers
    <3>2. NProjects \in Nat \ {0} /\ Projects = 1..NProjects
      BY DaemonAssumption DEF Projects
    <3>3. pass.p = NProjects + 1
      BY <1>a, <2>8, <3>2 DEF CollectMembers, OutcomesAreLanes, PassRecords
    <3>4. \A p \in pass.scope : pass.got[p] = lane[p]
      BY <1>a, <2>8, <3>2, <3>3 DEF CollectMembers, OutcomesAreLanes, PassRecords
    <3> QED BY <3>1, <3>4 DEF LastingCause
  <2>9. CASE PublishCatalog
    BY <1>c, <2>9 DEF PublishCatalog, LastingCause
  <2>10. CASE FinishPass
    BY <2>1, <2>10 DEF FinishPass
  <2>11. CASE RemoveReceipt \/ ClaimProject \/ AnalyzeProject
    BY <1>c, <2>2, <2>11 DEF RemoveReceipt, ClaimProject, AnalyzeProject
  <2> QED BY <1>1, <2>3, <2>4, <2>5, <2>6, <2>7, <2>8, <2>9, <2>10, <2>11 DEF PassStep
<1>2. CASE LoopStep \/ FallbackElapses
  <2>1. Stop("shutdown") \/ UNCHANGED proc.owner \/ VanishedInSnapshot
    <3>1. CASE Baseline
      BY <3>1 DEF Baseline, WaitingIsServing
    <3>2. CASE Turn
      <4>1. CASE SnapshotFails
        <5>1. events' = events + 1 /\ events \in Nat
          BY <4>1 DEF SnapshotFails, Happens, DaemonTypeOK
        <5>2. events' # events
          BY <5>1
        <5> QED BY <3>2, <5>2 DEF Turn, VanishedInSnapshot
      <4>2. CASE PollRoots
        BY <1>c, <4>2 DEF PollRoots
      <4> QED BY <3>2, <4>1, <4>2 DEF Turn
    <3>3. CASE FallbackElapses
      BY <3>3 DEF FallbackElapses
    <3> QED BY <1>2, <3>1, <3>2, <3>3 DEF LoopStep
  <2> QED BY <1>d, <2>1, StoppedProcess DEF Kinds
<1>3. CASE DaemonCrash
  BY <1>3, StoppedProcess DEF DaemonCrash, Kinds
<1>4. CASE Signal
  <2>1. proc' = [proc EXCEPT !.shutdown = TRUE]
    BY <1>4 DEF Signal
  <2>2. UNCHANGED proc.owner
    BY <1>a, <2>1 DEF ProcRecords
  <2> QED BY <1>d, <2>2
<1> QED BY <1>1, <1>2, <1>3, <1>4, <1>d DEF DaemonNext, DaemonEnvironment, StartServe, StartBuild, Edit, CheckHint, StageHint,
     AcceptHint, ProducerDies, Producer, Register, WriteMetadata, RegisterDies, Remove, CancelJob, Operator, Read, EndRead

(* An error ends a running watch loop only for a lasting cause or for an entry *)
(* that vanishes while the loop itself walks the trees: never for an edit in   *)
(* the middle of a pass or a source that does not parse (the error match of     *)
(* serve, which the `?` of the snapshot does not reach).                        *)
THEOREM FatalStopsHaveCause == DaemonSpec => FatalStopHasCause
<1>1. DaemonInv /\ [DaemonNext]_dvars =>
        [proc.owner = "serve" /\ ~proc.startup /\ proc'.owner = "none" /\ proc'.why = "fatal"
         => \/ ~reg.on
            \/ reading # {}
            \/ ~HostKnown
            \/ Cardinality(Entries) > InboxLimit
            \/ \E p \in Projects : lane[p] = None
            \/ proc.at = "sleep" /\ events' # events]_dvars
  BY FatalHasCause DEF LastingCause, VanishedInSnapshot
<1> QED BY <1>1, DaemonInvHolds, PTL DEF DaemonSpec, FatalStopHasCause
=============================================================================
