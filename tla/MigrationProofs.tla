--------------------------- MODULE MigrationProofs ---------------------------
(***************************************************************************)
(* Proofs about the journaled migration, for every plan and every number   *)
(* of crashes, faults, changes by other people and rollbacks.              *)
(***************************************************************************)
EXTENDS Migration, TLAPS

\* The steps after the backups are complete.
Later == {"enterStage", "stage", "enterVerify", "verify", "enterCutover", "cutover", "save",
          "restore", "unstage", "rollback", "rollbackDest"}

\* Between two runs nothing is left of the last one; some steps are at a file.
Positioned ==
    /\ pc = "idle" => i = 1 /\ blocked = {} /\ ~resume
    /\ pc \in {"save", "unstage", "rollbackDest"} => i \in Files

\* A file nobody else touched holds its previous or its new bytes.
DestRange ==
    \A f \in Untouched : dest[f] = Previous[f] \/ (dest[f] = "new" /\ HasSource(f))

\* Nothing is cut over.
AsBefore == \A f \in Untouched : dest[f] = Previous[f]

\* What a journal says of backups is true, and it knows those that are needed.
FlagsSound(j) ==
    \A f \in Untouched :
        /\ j.files[f].backup => copy[f] = "old" /\ Previous[f] = "old"
        /\ Previous[f] = "old" /\ (j.files[f].state = "cutover" \/ dest[f] = "new")
             => j.files[f].backup

\* Every file with previous bytes has a backup.
Backed(j) == \A f \in Untouched : Previous[f] = "old" => j.files[f].backup

InCutover(j) == j.phase \in {"cutover", "complete"}

JournalOnDisk ==
    /\ saved = NoJournal => pc \in {"idle", "fence"} /\ AsBefore
    /\ saved # NoJournal =>
         /\ FlagsSound(saved)
         /\ InCutover(saved) => Backed(saved)
         /\ saved.phase = "rollback" => pc \in {"idle", "fence"} /\ AsBefore

JournalInMemory ==
    /\ pc # "idle" => FlagsSound(mem)
    /\ pc \in Later \/ resume \/ (pc # "idle" /\ InCutover(mem)) => Backed(mem)
    /\ mem.phase # "rollback"

\* From then on the journal on disk has the same backups.
Synced == pc \in Later => \A f \in Files : saved.files[f].backup = mem.files[f].backup

BackupLoop ==
    pc = "backup" =>
        \A f \in Untouched : f < i /\ Previous[f] = "old" => mem.files[f].backup

CutoverLoop ==
    pc \in {"cutover", "save"} =>
        \A f \in Untouched : HasSource(f) /\ (f < i \/ (pc = "save" /\ f = i)) => dest[f] = "new"

RollbackLoop ==
    pc \in {"rollback", "rollbackDest"} =>
        \A f \in Untouched : f < i /\ f \notin blocked => dest[f] = Previous[f]

SafeInv ==
    /\ TypeOK /\ Positioned /\ DestRange /\ JournalOnDisk /\ JournalInMemory
    /\ Synced /\ BackupLoop /\ CutoverLoop /\ RollbackLoop /\ AppliedIsWhole

\* f is in place, or the journal j can put it there.
Ready(j, f) == dest[f] = "new" \/ (j.files[f].staged /\ stage[f] = "new")

\* As long as nobody interferes no cutover is refused.
Cutting == {"enterCutover", "cutover", "save"}

CutOverIsInPlace(j) == \A f \in Files : j.files[f].state = "cutover" => dest[f] = "new"

AllReady(j) == \A f \in Files : HasSource(f) => Ready(j, f)

OrderInv ==
    Undisturbed =>
        /\ pc \notin {"restore", "unstage", "rollback", "rollbackDest"}
        /\ CutOverIsInPlace(mem)
        /\ saved # NoJournal => CutOverIsInPlace(saved)
        /\ saved # NoJournal => (InCutover(saved) => AllReady(saved))
        /\ pc \in Cutting \/ resume \/ (pc # "idle" /\ InCutover(mem)) => AllReady(mem)
        /\ pc = "verify" => \A f \in Files : f < i /\ HasSource(f) => Ready(mem, f)
        /\ PointerIsLast

IInv == SafeInv /\ OrderInv

-----------------------------------------------------------------------------
(* The type of a journal survives the assignments the code makes to one. *)
LEMMA FreshIsJournal == Fresh \in Journal
BY DEF Fresh, Journal, JournalFile, Phases

LEMMA PhaseUpdate ==
    ASSUME NEW j \in Journal, NEW p \in Phases
    PROVE  /\ [j EXCEPT !.phase = p] \in Journal
           /\ [j EXCEPT !.phase = p].phase = p
           /\ [j EXCEPT !.phase = p].files = j.files
BY DEF Journal

LEMMA FenceUpdate ==
    ASSUME NEW j \in Journal, NEW b \in BOOLEAN
    PROVE  /\ [j EXCEPT !.phase = "fence", !.fenced = b] \in Journal
           /\ [j EXCEPT !.phase = "fence", !.fenced = b].phase = "fence"
           /\ [j EXCEPT !.phase = "fence", !.fenced = b].files = j.files
BY DEF Journal, Phases

\* One field of one file's entry is assigned; everything else stays.
OnlyEntry(j, k, f) ==
    /\ k \in Journal
    /\ k.phase = j.phase
    /\ \A g \in Files : g # f => k.files[g] = j.files[g]

LEMMA StateUpdate ==
    ASSUME NEW j \in Journal, NEW f \in Files,
           NEW s \in {"pending", "staged", "verified", "cutover"}
    PROVE  LET k == [j EXCEPT !.files[f].state = s] IN
           /\ OnlyEntry(j, k, f)
           /\ k.files[f].state = s
           /\ k.files[f].staged = j.files[f].staged
           /\ k.files[f].backup = j.files[f].backup
<1> DEFINE r == [j.files[f] EXCEPT !.state = s]
           fs == [j.files EXCEPT ![f] = r]
           k == [j EXCEPT !.files = fs]
<1>1. j.files[f] \in JournalFile /\ j.files \in [Files -> JournalFile]
  BY DEF Journal
<1>2. /\ r \in JournalFile /\ r.state = s
      /\ r.staged = j.files[f].staged /\ r.backup = j.files[f].backup
  BY <1>1 DEF JournalFile
<1>3. fs \in [Files -> JournalFile] /\ fs[f] = r /\ \A g \in Files : g # f => fs[g] = j.files[g]
  BY <1>1, <1>2
<1>4. k \in Journal /\ k.phase = j.phase /\ k.files = fs
  BY <1>3 DEF Journal
<1> QED BY <1>2, <1>3, <1>4 DEF OnlyEntry

LEMMA BackupUpdate ==
    ASSUME NEW j \in Journal, NEW f \in Files
    PROVE  LET k == [j EXCEPT !.files[f].backup = TRUE] IN
           /\ OnlyEntry(j, k, f)
           /\ k.files[f].backup = TRUE
           /\ k.files[f].state = j.files[f].state
           /\ k.files[f].staged = j.files[f].staged
<1> DEFINE r == [j.files[f] EXCEPT !.backup = TRUE]
           fs == [j.files EXCEPT ![f] = r]
           k == [j EXCEPT !.files = fs]
<1>1. j.files[f] \in JournalFile /\ j.files \in [Files -> JournalFile]
  BY DEF Journal
<1>2. /\ r \in JournalFile /\ r.backup = TRUE
      /\ r.staged = j.files[f].staged /\ r.state = j.files[f].state
  BY <1>1 DEF JournalFile
<1>3. fs \in [Files -> JournalFile] /\ fs[f] = r /\ \A g \in Files : g # f => fs[g] = j.files[g]
  BY <1>1, <1>2
<1>4. k \in Journal /\ k.phase = j.phase /\ k.files = fs
  BY <1>3 DEF Journal
<1> QED BY <1>2, <1>3, <1>4 DEF OnlyEntry

LEMMA UnstageUpdate ==
    ASSUME NEW j \in Journal, NEW f \in Files
    PROVE  LET k == [j EXCEPT !.files[f].staged = FALSE] IN
           /\ OnlyEntry(j, k, f)
           /\ k.files[f].state = j.files[f].state
           /\ k.files[f].backup = j.files[f].backup
<1> DEFINE r == [j.files[f] EXCEPT !.staged = FALSE]
           fs == [j.files EXCEPT ![f] = r]
           k == [j EXCEPT !.files = fs]
<1>1. j.files[f] \in JournalFile /\ j.files \in [Files -> JournalFile]
  BY DEF Journal
<1>2. /\ r \in JournalFile
      /\ r.backup = j.files[f].backup /\ r.state = j.files[f].state
  BY <1>1 DEF JournalFile
<1>3. fs \in [Files -> JournalFile] /\ fs[f] = r /\ \A g \in Files : g # f => fs[g] = j.files[g]
  BY <1>1, <1>2
<1>4. k \in Journal /\ k.phase = j.phase /\ k.files = fs
  BY <1>3 DEF Journal
<1> QED BY <1>2, <1>3, <1>4 DEF OnlyEntry

LEMMA StagedUpdate ==
    ASSUME NEW j \in Journal, NEW f \in Files
    PROVE  LET k == [j EXCEPT !.files[f].staged = TRUE, !.files[f].state = "staged"] IN
           /\ OnlyEntry(j, k, f)
           /\ k.files[f].state = "staged"
           /\ k.files[f].staged = TRUE
           /\ k.files[f].backup = j.files[f].backup
<1> DEFINE k0 == [j EXCEPT !.files[f].staged = TRUE]
           r == [j.files[f] EXCEPT !.staged = TRUE]
           fs == [j.files EXCEPT ![f] = r]
           k1 == [j EXCEPT !.files = fs]
<1>1. j.files[f] \in JournalFile /\ j.files \in [Files -> JournalFile]
  BY DEF Journal
<1>2. /\ r \in JournalFile /\ r.staged = TRUE
      /\ r.backup = j.files[f].backup /\ r.state = j.files[f].state
  BY <1>1 DEF JournalFile
<1>3. fs \in [Files -> JournalFile] /\ fs[f] = r /\ \A g \in Files : g # f => fs[g] = j.files[g]
  BY <1>1, <1>2
<1>4. k1 \in Journal /\ k1.phase = j.phase /\ k1.files = fs
  BY <1>3 DEF Journal
<1>5. k0 \in Journal /\ k0.phase = j.phase /\ k0.files[f] = r
      /\ \A g \in Files : g # f => k0.files[g] = j.files[g]
  BY <1>3, <1>4
<1>6. LET k == [k0 EXCEPT !.files[f].state = "staged"] IN
      /\ OnlyEntry(k0, k, f)
      /\ k.files[f].state = "staged"
      /\ k.files[f].staged = k0.files[f].staged
      /\ k.files[f].backup = k0.files[f].backup
  BY <1>5, StateUpdate
<1> QED BY <1>2, <1>5, <1>6 DEF OnlyEntry

\* The bounds of the index and of the counters.
LEMMA Bounds ==
    /\ 1 \in 1..(N + 1)
    /\ \A k \in Files : k \in 1..(N + 1) /\ k + 1 \in 1..(N + 1)
    /\ 0 \in 0..MaxCrashes /\ 0 \in 0..MaxFaults /\ 0 \in 0..MaxEdits /\ 0 \in 0..MaxRollbacks
    /\ \A n \in 0..MaxCrashes : n < MaxCrashes => n + 1 \in 0..MaxCrashes
    /\ \A n \in 0..MaxFaults : n < MaxFaults => n + 1 \in 0..MaxFaults
    /\ \A n \in 0..MaxEdits : n < MaxEdits => n + 1 \in 0..MaxEdits
    /\ \A n \in 0..MaxRollbacks : n < MaxRollbacks => n + 1 \in 0..MaxRollbacks
BY PlanAssumption DEF Files

-----------------------------------------------------------------------------
LEMMA TypeInit == Init => TypeOK
<1> SUFFICES ASSUME Init PROVE TypeOK
    OBVIOUS
<1>1. /\ dest \in [Files -> Bytes] /\ copy \in [Files -> Bytes] /\ stage \in [Files -> Bytes]
      /\ pc \in Steps /\ result \in Results
  BY PlanAssumption DEF Init, Nowhere, Bytes, Steps, Results
<1> QED BY <1>1, FreshIsJournal, Bounds DEF Init, TypeOK

LEMMA TypeStep == TypeOK /\ Positioned /\ [Next]_vars => TypeOK'
<1> SUFFICES ASSUME TypeOK, Positioned, [Next]_vars PROVE TypeOK'
    OBVIOUS
<1> USE Bounds
<1>end. ASSUME NEW how \in Results, EndRun(how)
        PROVE  /\ pc' \in Steps /\ mem' \in Journal /\ i' \in 1..(N + 1)
               /\ resume' \in BOOLEAN /\ blocked' \subseteq Files /\ result' \in Results
  BY <1>end, FreshIsJournal DEF EndRun, Steps
<1>1. CASE StartApply
  BY <1>1, FreshIsJournal DEF StartApply, Loaded, TypeOK, disk, env, Steps, Results
<1>2. CASE StartRollback
  BY <1>2 DEF StartRollback, TypeOK, disk, Steps, Results
<1>3. CASE FenceEstablished
  BY <1>3, FenceUpdate DEF FenceEstablished, TypeOK, disk, env, Steps
<1>4. ASSUME NEW at \in Steps, NEW phase \in Phases \cap Steps, EnterPhase(at, phase)
      PROVE TypeOK'
  BY <1>4, PhaseUpdate DEF EnterPhase, TypeOK, disk, env
<1>5. ASSUME NEW phase, NEW next \in Steps, LeavePhase(phase, next)
      PROVE TypeOK'
  BY <1>5 DEF LeavePhase, TypeOK, disk, env
<1>6. CASE BackupOne
  BY <1>6, BackupUpdate DEF BackupOne, At, TypeOK, env, OnlyEntry
<1>7. CASE StageOne
  BY <1>7, StagedUpdate DEF StageOne, At, TypeOK, env, OnlyEntry, Bytes
<1>8. CASE VerifyOne
  BY <1>8, StateUpdate DEF VerifyOne, At, TypeOK, disk, env, OnlyEntry
<1>9. CASE SkipOne
  BY <1>9 DEF SkipOne, SkipFile, At, TypeOK, disk, env
<1>10. CASE RefuseOne
  <2>1. EndRun("refused") /\ SaveQuietly(mem) /\ UNCHANGED <<disk, env>>
    BY <1>10 DEF RefuseOne, RefuseFile, Refuse
  <2> QED BY <2>1, <1>end DEF TypeOK, SaveQuietly, disk, env, Results
<1>11. CASE CutoverOne
  BY <1>11, StateUpdate DEF CutoverOne, At, TypeOK, env, OnlyEntry, Bytes, Steps
<1>12. CASE SaveCutover
  BY <1>12 DEF SaveCutover, Positioned, TypeOK, disk, env, Steps
<1>13. CASE CutoverRefused
  BY <1>13 DEF CutoverRefused, TypeOK, disk, env, Steps
<1>14. CASE Complete
  <2>1. EndRun("applied") /\ saved' = [mem EXCEPT !.phase = "complete"] /\ UNCHANGED <<disk, env>>
    BY <1>14 DEF Complete
  <2> QED BY <2>1, <1>end, PhaseUpdate DEF TypeOK, Phases, disk, env, Results
<1>15. CASE RestoreSkip
  BY <1>15 DEF RestoreSkip, At, TypeOK, disk, env
<1>16. CASE RestoreOne
  BY <1>16 DEF RestoreOne, Undone, At, TypeOK, Bytes, env, Steps
<1>17. CASE RestoreUnstage
  BY <1>17, StateUpdate DEF RestoreUnstage, Positioned, TypeOK, env, OnlyEntry, Bytes, Steps
<1>18. CASE RestoreDone
  <2>1. /\ SaveQuietly(IF blocked = {} THEN [mem EXCEPT !.phase = "verify"] ELSE mem)
        /\ EndRun(IF blocked = {} THEN "restored" ELSE "incomplete")
        /\ UNCHANGED <<disk, env>>
    BY <1>18 DEF RestoreDone
  <2>2. saved' \in Journal \cup {NoJournal}
    BY <2>1, PhaseUpdate DEF TypeOK, SaveQuietly, Phases
  <2> QED BY <2>1, <2>2, <1>end DEF TypeOK, disk, env, Results
<1>19. CASE RollbackUnstage
  BY <1>19, UnstageUpdate DEF RollbackUnstage, At, TypeOK, env, OnlyEntry, Bytes, Steps
<1>20. CASE RollbackSkip
  BY <1>20 DEF RollbackSkip, Positioned, TypeOK, disk, env, Steps
<1>21. CASE RollbackOne
  BY <1>21, StateUpdate DEF RollbackOne, Undone, Positioned, TypeOK, env, OnlyEntry, Bytes, Steps
<1>22. CASE RollbackDone
  <2>1. /\ SaveQuietly(IF blocked = {} THEN [mem EXCEPT !.phase = "rollback"] ELSE mem)
        /\ EndRun(IF blocked = {} THEN "rolledBack" ELSE "blocked")
        /\ UNCHANGED <<disk, env>>
    BY <1>22 DEF RollbackDone
  <2> QED BY <2>1, <1>end, PhaseUpdate DEF TypeOK, SaveQuietly, Phases, disk, env, Results
<1>23. CASE UndoFails
  <2>1. EndRun("refused") /\ UNCHANGED <<disk, saved, env>>
    BY <1>23 DEF UndoFails
  <2> QED BY <2>1, <1>end DEF TypeOK, disk, env, Results
<1>24. CASE FenceRefused
  <2>1. /\ SaveQuietly([mem EXCEPT !.phase = "fence", !.fenced = FALSE])
        /\ EndRun("refused") /\ Fault /\ UNCHANGED disk
    BY <1>24 DEF FenceRefused
  <2> QED BY <2>1, <1>end, FenceUpdate DEF TypeOK, SaveQuietly, Fault, disk, Results
<1>25. CASE PrepareFails
  <2>1. SaveQuietly(mem) /\ EndRun("refused") /\ Fault /\ UNCHANGED disk
    BY <1>25 DEF PrepareFails, Refuse
  <2> QED BY <2>1, <1>end DEF TypeOK, SaveQuietly, Fault, disk, Results
<1>26. CASE CutoverFails
  BY <1>26 DEF CutoverFails, Fault, At, TypeOK, Bytes, Steps
<1>27. CASE Crash
  <2>1. /\ EndRun("none") /\ crashes < MaxCrashes /\ crashes' = crashes + 1
        /\ UNCHANGED <<disk, saved, authorised, touched, faults, edits, rollbacks>>
    BY <1>27 DEF Crash
  <2> QED BY <2>1, <1>end DEF TypeOK, disk, Results
<1>28. CASE Expire
  BY <1>28 DEF Expire, TypeOK, disk, run
<1>29. CASE \E f \in Files, b \in {"other", "absent"} : Edit(f, b)
  BY <1>29 DEF Edit, TypeOK, run, Bytes
<1>30. CASE UNCHANGED vars
  BY <1>30 DEF TypeOK, vars, disk, run, env
<1> QED
  BY <1>1, <1>2, <1>3, <1>4, <1>5, <1>6, <1>7, <1>8, <1>9, <1>10, <1>11, <1>12, <1>13, <1>14,
     <1>15, <1>16, <1>17, <1>18, <1>19, <1>20, <1>21, <1>22, <1>23, <1>24, <1>25, <1>26, <1>27,
     <1>28, <1>29, <1>30
     DEF Next, RunStep, Steps, Phases

-----------------------------------------------------------------------------
\* SafeInv without its type.
Facts ==
    /\ Positioned /\ DestRange /\ JournalOnDisk /\ JournalInMemory
    /\ Synced /\ BackupLoop /\ CutoverLoop /\ RollbackLoop /\ AppliedIsWhole

LEMMA SafeInit == Init => Facts
BY PlanAssumption
   DEF Init, Facts, Positioned, DestRange, AsBefore, JournalOnDisk, JournalInMemory, InCutover, Fresh,
       Later, Synced, BackupLoop, CutoverLoop, RollbackLoop, AppliedIsWhole, Untouched

\* A run ends and leaves the journal on disk as it was, or saves one with the entries of its own.
Leaves(k) ==
    \/ k = saved
    \/ /\ pc # "idle" /\ k \in Journal /\ k.files = mem.files
       /\ InCutover(k) => Backed(mem)
       /\ k.phase = "rollback" => AsBefore

LEMMA EndStep ==
    ASSUME TypeOK, Facts, NEW how \in Results, EndRun(how), Leaves(saved'),
           UNCHANGED <<disk, touched>>,
           how = "applied" => \A f \in Untouched : HasSource(f) => dest[f] = "new"
    PROVE  Facts'
<1>1. UNCHANGED <<dest, copy, Untouched>> /\ pc' = "idle"
  BY DEF disk, Untouched, EndRun
<1>2. Positioned' /\ Synced' /\ BackupLoop' /\ CutoverLoop' /\ RollbackLoop'
  BY DEF EndRun, Positioned, Synced, BackupLoop, CutoverLoop, RollbackLoop, Later
<1>3. DestRange' /\ AppliedIsWhole' /\ (AsBefore => AsBefore')
  BY <1>1 DEF Facts, DestRange, AsBefore, AppliedIsWhole, EndRun
<1>4. JournalInMemory'
  BY <1>1 DEF EndRun, JournalInMemory, Later, Fresh
<1>5. JournalOnDisk'
  <2>1. CASE saved' = saved
    BY <2>1, <1>1, <1>3 DEF Facts, JournalOnDisk, FlagsSound, Backed, InCutover
  <2>2. CASE saved' # saved
    <3>1. /\ pc # "idle" /\ saved' \in Journal /\ saved'.files = mem.files
          /\ InCutover(saved') => Backed(mem)
          /\ saved'.phase = "rollback" => AsBefore
      BY <2>2 DEF Leaves
    <3>2. FlagsSound(mem)
      BY <3>1 DEF Facts, JournalInMemory
    <3>3. FlagsSound(saved)'
      BY <3>1, <3>2, <1>1 DEF FlagsSound
    <3>4. InCutover(saved)' => Backed(saved)'
      BY <3>1, <1>1 DEF Backed, InCutover
    <3> QED BY <3>1, <3>3, <3>4, <1>1, <1>3, JournalAssumption DEF JournalOnDisk
  <2> QED BY <2>1, <2>2
<1> QED BY <1>2, <1>3, <1>4, <1>5 DEF Facts

\* The journal of the run is saved.
LEMMA SaveStep ==
    ASSUME TypeOK, Facts, pc # "idle", UNCHANGED <<dest, copy, touched>>,
           saved' \in Journal, saved'.files = mem.files, saved'.phase # "rollback",
           InCutover(saved') => Backed(mem)
    PROVE  JournalOnDisk'
<1>1. FlagsSound(mem) /\ Untouched' = Untouched
  BY DEF Facts, JournalInMemory, Untouched
<1>2. FlagsSound(saved)' /\ (InCutover(saved)' => Backed(saved)')
  BY <1>1 DEF FlagsSound, Backed, InCutover
<1> QED BY <1>2, JournalAssumption DEF JournalOnDisk

\* The journal on disk and what it speaks of stay.
LEMMA KeepDisk ==
    ASSUME TypeOK, Facts, UNCHANGED <<dest, copy, touched, saved>>,
           pc \in {"idle", "fence"} => pc' \in {"idle", "fence"}
    PROVE  JournalOnDisk'
BY DEF Facts, JournalOnDisk, FlagsSound, Backed, InCutover, AsBefore, Untouched

\* The journal of the run says the same of backups, and calls no more files cut over.
SameFlags ==
    /\ mem'.phase = mem.phase
    /\ \A f \in Files : /\ mem'.files[f].backup = mem.files[f].backup
                        /\ mem'.files[f].state = "cutover" => mem.files[f].state = "cutover"

LEMMA KeepMem ==
    ASSUME TypeOK, Facts, UNCHANGED <<dest, copy, touched, resume>>, SameFlags,
           pc # "idle", pc' \in Later => pc \in Later
    PROVE  JournalInMemory'
<1>1. Untouched' = Untouched /\ Untouched \subseteq Files
  BY DEF Untouched
<1>2. FlagsSound(mem)'
  BY <1>1 DEF SameFlags, FlagsSound, Facts, JournalInMemory
<1>3. Backed(mem) => Backed(mem)'
  BY <1>1 DEF SameFlags, Backed
<1> QED BY <1>2, <1>3 DEF SameFlags, InCutover, Facts, JournalInMemory

LEMMA SafeStep == TypeOK /\ Facts /\ [Next]_vars => Facts'
<1> SUFFICES ASSUME TypeOK, Facts, [Next]_vars PROVE Facts'
    OBVIOUS
<1> USE PlanAssumption, JournalAssumption
<1>1. CASE StartApply
  <2>a. Positioned' /\ Synced' /\ BackupLoop' /\ CutoverLoop' /\ RollbackLoop'
    BY <1>1 DEF StartApply, disk, env, TypeOK, Facts, Positioned, Synced, BackupLoop, CutoverLoop,
       RollbackLoop, Later, Untouched
  <2>b. DestRange' /\ AppliedIsWhole'
    BY <1>1 DEF StartApply, disk, env, Facts, DestRange, AppliedIsWhole, Untouched
  <2>c. JournalOnDisk'
    BY <1>1, KeepDisk DEF StartApply, disk, env
  <2>d. JournalInMemory'
    <3>1. UNCHANGED <<dest, copy, Untouched>> /\ pc = "idle"
      BY <1>1 DEF StartApply, disk, env, Untouched
    <3>2. CASE pc' = "idle"
      BY <1>1, <3>1, <3>2 DEF StartApply, Facts, JournalInMemory, Positioned, Later
    <3>3. CASE pc' # "idle" /\ (saved = NoJournal \/ saved.phase = "rollback")
      <4>1. mem' = Fresh /\ pc' = "fence" /\ ~resume' /\ AsBefore
        BY <1>1, <3>3 DEF StartApply, Loaded, Fresh, Facts, JournalOnDisk
      <4>2. Untouched \subseteq Files
        BY DEF Untouched
      <4> QED BY <4>1, <4>2, <3>1 DEF JournalInMemory, FlagsSound, InCutover, AsBefore, Fresh, Later
    <3>4. CASE pc' # "idle" /\ saved # NoJournal /\ saved.phase # "rollback"
      <4>1. mem' = saved /\ pc' = "fence" /\ (resume' => InCutover(saved))
        BY <1>1, <3>4 DEF StartApply, Loaded, InCutover
      <4>2. FlagsSound(saved) /\ (InCutover(saved) => Backed(saved))
        BY <3>4 DEF Facts, JournalOnDisk
      <4> QED BY <4>1, <4>2, <3>1, <3>4 DEF JournalInMemory, FlagsSound, Backed, InCutover, Later
    <3> QED BY <3>2, <3>3, <3>4
  <2> QED BY <2>a, <2>b, <2>c, <2>d DEF Facts
<1>2. CASE StartRollback
  <2>a. Positioned' /\ Synced' /\ BackupLoop' /\ CutoverLoop' /\ RollbackLoop'
    BY <1>2 DEF StartRollback, disk, TypeOK, Files, Facts, Positioned, Synced, BackupLoop,
       CutoverLoop, RollbackLoop, Later, Untouched
  <2>b. DestRange' /\ AppliedIsWhole'
    BY <1>2 DEF StartRollback, disk, Facts, DestRange, AppliedIsWhole, Untouched
  <2>c. JournalOnDisk'
    <3>1. UNCHANGED <<dest, copy, touched, saved>> /\ saved # NoJournal
      BY <1>2 DEF StartRollback, disk
    <3>2. saved.phase = "rollback" => pc' = "idle"
      BY <1>2 DEF StartRollback
    <3> QED BY <3>1, <3>2 DEF Facts, JournalOnDisk, FlagsSound, Backed, InCutover, AsBefore, Untouched
  <2>d. JournalInMemory'
    <3>1. UNCHANGED <<dest, copy, Untouched, resume>> /\ pc = "idle" /\ saved # NoJournal
      BY <1>2 DEF StartRollback, disk, Untouched
    <3>2. CASE saved.phase \in {"complete", "cutover"}
      <4>1. mem' = saved /\ pc' = "rollback"
        BY <1>2, <3>2 DEF StartRollback
      <4>2. FlagsSound(saved) /\ Backed(saved)
        BY <3>1, <3>2 DEF Facts, JournalOnDisk, InCutover
      <4> QED BY <4>1, <4>2, <3>1, <3>2 DEF JournalInMemory, FlagsSound, Backed
    <3>3. CASE saved.phase \notin {"complete", "cutover"}
      BY <1>2, <3>1, <3>3 DEF StartRollback, Facts, JournalInMemory, Positioned, Later
    <3> QED BY <3>2, <3>3
  <2> QED BY <2>a, <2>b, <2>c, <2>d DEF Facts
<1>3. CASE FenceEstablished
  <2>1. mem' \in Journal /\ mem'.files = mem.files /\ mem'.phase = "fence" /\ saved' = mem'
    BY <1>3, FenceUpdate DEF FenceEstablished, TypeOK
  <2>a. Positioned' /\ Synced' /\ BackupLoop' /\ CutoverLoop' /\ RollbackLoop'
    BY <1>3, <2>1 DEF FenceEstablished, disk, env, TypeOK, Facts, Positioned, Synced, BackupLoop,
       CutoverLoop, RollbackLoop, Later, Untouched
  <2>b. DestRange' /\ AppliedIsWhole'
    BY <1>3 DEF FenceEstablished, disk, env, Facts, DestRange, AppliedIsWhole, Untouched
  <2>c. JournalOnDisk'
    BY <1>3, <2>1, SaveStep DEF FenceEstablished, disk, env, InCutover
  <2>d. JournalInMemory'
    BY <1>3, <2>1 DEF FenceEstablished, disk, env, Facts, JournalInMemory, FlagsSound, Backed,
       InCutover, Later, Untouched
  <2> QED BY <2>a, <2>b, <2>c, <2>d DEF Facts
<1>4. ASSUME NEW at, NEW phase,
             <<at, phase>> \in {<<"enterBackup", "backup">>, <<"enterStage", "stage">>,
                                <<"enterVerify", "verify">>, <<"enterCutover", "cutover">>},
             EnterPhase(at, phase)
      PROVE  Facts'
  <2>0. phase \in {"backup", "stage", "verify", "cutover"} /\ phase \in Phases
    BY <1>4 DEF Phases
  <2>1. mem' \in Journal /\ mem'.files = mem.files /\ mem'.phase = phase /\ saved' = mem'
    BY <1>4, <2>0, PhaseUpdate DEF EnterPhase, TypeOK
  <2>a. Positioned' /\ Synced' /\ BackupLoop' /\ CutoverLoop' /\ RollbackLoop'
    BY <1>4, <2>0, <2>1 DEF EnterPhase, disk, env, TypeOK, Files, Facts, Positioned, Synced,
       BackupLoop, CutoverLoop, RollbackLoop, Later, Untouched
  <2>b. DestRange' /\ AppliedIsWhole'
    BY <1>4 DEF EnterPhase, disk, env, Facts, DestRange, AppliedIsWhole, Untouched
  <2>c. JournalOnDisk'
    <3>1. InCutover(saved') => Backed(mem)
      BY <1>4, <2>0, <2>1 DEF EnterPhase, InCutover, Facts, JournalInMemory, Later
    <3> QED BY <1>4, <2>0, <2>1, <3>1, SaveStep DEF EnterPhase, disk, env
  <2>d. JournalInMemory'
    BY <1>4, <2>0, <2>1 DEF EnterPhase, disk, env, Facts, JournalInMemory, FlagsSound, Backed,
       InCutover, Later, Untouched
  <2> QED BY <2>a, <2>b, <2>c, <2>d DEF Facts
<1>5. ASSUME NEW phase, NEW next,
             <<phase, next>> \in {<<"backup", "enterStage">>, <<"stage", "enterVerify">>,
                                  <<"verify", "enterCutover">>},
             LeavePhase(phase, next)
      PROVE  Facts'
  <2>a. Positioned' /\ Synced' /\ BackupLoop' /\ CutoverLoop' /\ RollbackLoop'
    BY <1>5 DEF LeavePhase, disk, env, TypeOK, Facts, Positioned, Synced, BackupLoop, CutoverLoop,
       RollbackLoop, Later, Untouched
  <2>b. DestRange' /\ AppliedIsWhole'
    BY <1>5 DEF LeavePhase, disk, env, Facts, DestRange, AppliedIsWhole, Untouched
  <2>c. JournalOnDisk'
    <3>1. saved' = mem /\ pc # "idle"
      BY <1>5 DEF LeavePhase
    <3> QED BY <1>5, <3>1, SaveStep DEF LeavePhase, disk, env, TypeOK, Facts, JournalInMemory
  <2>d. JournalInMemory'
    <3>1. Backed(mem)
      <4>1. CASE pc = "backup"
        BY <1>5, <4>1 DEF LeavePhase, Facts, BackupLoop, Backed, Untouched, Files, TypeOK
      <4>2. CASE pc # "backup"
        BY <1>5, <4>2 DEF LeavePhase, Facts, JournalInMemory, Later
      <4> QED BY <4>1, <4>2
    <3> QED BY <1>5, <3>1 DEF LeavePhase, disk, env, Facts, JournalInMemory, FlagsSound, Backed,
                              Untouched
  <2> QED BY <2>a, <2>b, <2>c, <2>d DEF Facts
<1>6. CASE BackupOne
  <2>1. /\ OnlyEntry(mem, mem', i) /\ mem'.files[i].backup = TRUE
        /\ mem'.files[i].state = mem.files[i].state
        /\ dest[i] = "old" /\ Previous[i] = "old"
    BY <1>6, BackupUpdate DEF BackupOne, At, TypeOK
  <2>a. Positioned' /\ Synced' /\ BackupLoop' /\ CutoverLoop' /\ RollbackLoop'
    <3>1. pc = "backup" /\ pc' = "backup" /\ i \in Files /\ i' = i + 1 /\ touched' = touched
      BY <1>6 DEF BackupOne, At, env
    <3>2. BackupLoop'
      BY <2>1, <3>1 DEF Facts, BackupLoop, Untouched, OnlyEntry, Files
    <3> QED BY <3>1, <3>2 DEF Positioned, Synced, CutoverLoop, RollbackLoop, Later
  <2>b. DestRange' /\ AppliedIsWhole'
    BY <1>6 DEF BackupOne, At, env, Facts, DestRange, AppliedIsWhole, Untouched
  <2>c. JournalOnDisk'
    <3>1. /\ UNCHANGED <<dest, touched, saved>> /\ i \in Files /\ pc \notin {"idle", "fence"}
          /\ copy' = [copy EXCEPT ![i] = "old"]
      BY <1>6, <2>1 DEF BackupOne, At, env
    <3> QED BY <3>1 DEF TypeOK, Facts, JournalOnDisk, FlagsSound, Backed, InCutover, AsBefore, Untouched
  <2>d. JournalInMemory'
    <3>1. /\ UNCHANGED <<dest, touched, pc, resume>> /\ i \in Files /\ pc = "backup"
          /\ copy' = [copy EXCEPT ![i] = "old"]
      BY <1>6, <2>1 DEF BackupOne, At, env
    <3> QED BY <2>1, <3>1 DEF TypeOK, OnlyEntry, Facts, JournalInMemory, FlagsSound, Backed, InCutover,
                            Later, Untouched
  <2> QED BY <2>a, <2>b, <2>c, <2>d DEF Facts
<1>7. CASE StageOne
  <2>0. /\ OnlyEntry(mem, mem', i) /\ mem'.files[i].state = "staged"
        /\ mem'.files[i].backup = mem.files[i].backup
    <3>1. /\ mem \in Journal /\ i \in Files
          /\ mem' = [mem EXCEPT !.files[i].staged = TRUE, !.files[i].state = "staged"]
      BY <1>7 DEF StageOne, At, TypeOK
    <3> QED BY <3>1, StagedUpdate
  <2>1. SameFlags
    BY <2>0 DEF OnlyEntry, SameFlags
  <2>a. Positioned' /\ Synced' /\ BackupLoop' /\ CutoverLoop' /\ RollbackLoop'
    BY <1>7, <2>1 DEF StageOne, At, env, SameFlags, TypeOK, Facts, Positioned, Synced, BackupLoop,
       CutoverLoop, RollbackLoop, Later, Untouched
  <2>b. DestRange' /\ AppliedIsWhole'
    BY <1>7 DEF StageOne, At, env, Facts, DestRange, AppliedIsWhole, Untouched
  <2>c. JournalOnDisk'
    BY <1>7, KeepDisk DEF StageOne, At, env
  <2>d. JournalInMemory'
    BY <1>7, <2>1, KeepMem DEF StageOne, At, env
  <2> QED BY <2>a, <2>b, <2>c, <2>d DEF Facts
<1>8. CASE VerifyOne
  <2>1. SameFlags
    BY <1>8, StateUpdate DEF VerifyOne, At, TypeOK, OnlyEntry, SameFlags
  <2>a. Positioned' /\ Synced' /\ BackupLoop' /\ CutoverLoop' /\ RollbackLoop'
    BY <1>8, <2>1 DEF VerifyOne, At, disk, env, SameFlags, TypeOK, Facts, Positioned, Synced,
       BackupLoop, CutoverLoop, RollbackLoop, Later, Untouched
  <2>b. DestRange' /\ AppliedIsWhole'
    BY <1>8 DEF VerifyOne, At, disk, env, Facts, DestRange, AppliedIsWhole, Untouched
  <2>c. JournalOnDisk'
    BY <1>8, KeepDisk DEF VerifyOne, At, disk, env
  <2>d. JournalInMemory'
    BY <1>8, <2>1, KeepMem DEF VerifyOne, At, disk, env
  <2> QED BY <2>a, <2>b, <2>c, <2>d DEF Facts
<1>9. CASE SkipOne
  <2>a. Positioned' /\ Synced' /\ BackupLoop' /\ CutoverLoop' /\ RollbackLoop'
    <3>1. /\ pc \in {"backup", "stage", "verify"} /\ i \in Files /\ i' = i + 1
          /\ UNCHANGED <<pc, mem, saved, touched>>
          /\ pc = "backup" => IsCutOver(i) \/ Previous[i] = "absent"
      BY <1>9 DEF SkipOne, SkipFile, At, env
    <3>2. i \in Untouched /\ Previous[i] = "old" /\ pc = "backup" => mem.files[i].backup
      BY <3>1 DEF Facts, JournalInMemory, FlagsSound, IsCutOver
    <3>3. BackupLoop'
      BY <3>1, <3>2 DEF Facts, BackupLoop, Untouched, Files
    <3> QED BY <3>1, <3>3 DEF Facts, Positioned, Synced, CutoverLoop, RollbackLoop, Later
  <2>b. DestRange' /\ AppliedIsWhole'
    BY <1>9 DEF SkipOne, SkipFile, At, disk, env, Facts, DestRange, AppliedIsWhole, Untouched
  <2>c. JournalOnDisk'
    BY <1>9, KeepDisk DEF SkipOne, SkipFile, At, disk, env
  <2>d. JournalInMemory'
    BY <1>9, KeepMem DEF SkipOne, SkipFile, At, disk, env, SameFlags
  <2> QED BY <2>a, <2>b, <2>c, <2>d DEF Facts
<1>10. CASE CutoverOne
  <2>1. /\ pc = "cutover" /\ pc' = "save" /\ i \in Files
        /\ UNCHANGED <<copy, saved, i, touched, resume, result>>
    BY <1>10 DEF CutoverOne, At, env
  <2>2. /\ mem'.phase = mem.phase
        /\ \A f \in Files : /\ mem'.files[f].backup = mem.files[f].backup
                            /\ f # i => mem'.files[f] = mem.files[f]
    BY <1>10, <2>1, StateUpdate DEF CutoverOne, TypeOK, OnlyEntry
  <2>3. i \in Untouched /\ Previous[i] = "old" => mem.files[i].backup
    BY <2>1 DEF Facts, JournalInMemory, Backed, Later
  <2>a. Positioned' /\ Synced' /\ BackupLoop' /\ CutoverLoop' /\ RollbackLoop'
    <3>1. Synced'
      BY <2>1, <2>2 DEF Facts, Synced, Later
    <3>2. CutoverLoop'
      BY <1>10, <2>1 DEF CutoverOne, Facts, CutoverLoop, Untouched, TypeOK
    <3> QED BY <2>1, <3>1, <3>2 DEF Positioned, BackupLoop, RollbackLoop
  <2>b. DestRange' /\ AppliedIsWhole'
    BY <1>10, <2>1 DEF CutoverOne, TypeOK, Facts, DestRange, AppliedIsWhole, Untouched
  <2>c. JournalOnDisk'
    <3>1. i \in Untouched /\ Previous[i] = "old" => saved.files[i].backup
      BY <2>1, <2>3 DEF Facts, Synced, Later, Untouched
    <3>2. saved # NoJournal /\ saved.phase # "rollback"
      BY <2>1 DEF Facts, JournalOnDisk
    <3> QED BY <1>10, <2>1, <3>1, <3>2 DEF CutoverOne, TypeOK, Facts, JournalOnDisk, FlagsSound, Backed,
                                    InCutover, Untouched
  <2>d. JournalInMemory'
    BY <1>10, <2>1, <2>2, <2>3 DEF CutoverOne, TypeOK, Facts, JournalInMemory, FlagsSound, Backed,
       InCutover, Later,
           Untouched
  <2> QED BY <2>a, <2>b, <2>c, <2>d DEF Facts
<1>11. CASE SaveCutover
  <2>a. Positioned' /\ Synced' /\ BackupLoop' /\ CutoverLoop' /\ RollbackLoop'
    BY <1>11 DEF SaveCutover, disk, env, TypeOK, Files, Facts, Positioned, Synced, BackupLoop,
       CutoverLoop, RollbackLoop, Later, Untouched
  <2>b. DestRange' /\ AppliedIsWhole'
    BY <1>11 DEF SaveCutover, disk, env, Facts, DestRange, AppliedIsWhole, Untouched
  <2>c. JournalOnDisk'
    BY <1>11, SaveStep DEF SaveCutover, disk, env, TypeOK, Facts, JournalInMemory
  <2>d. JournalInMemory'
    BY <1>11, KeepMem DEF SaveCutover, disk, env, SameFlags, Later
  <2> QED BY <2>a, <2>b, <2>c, <2>d DEF Facts
<1>12. CASE CutoverRefused
  <2>a. Positioned' /\ Synced' /\ BackupLoop' /\ CutoverLoop' /\ RollbackLoop'
    BY <1>12 DEF CutoverRefused, At, disk, env, TypeOK, Facts, Positioned, Synced, BackupLoop,
       CutoverLoop, RollbackLoop, Later, Untouched
  <2>b. DestRange' /\ AppliedIsWhole'
    BY <1>12 DEF CutoverRefused, At, disk, env, Facts, DestRange, AppliedIsWhole, Untouched
  <2>c. JournalOnDisk'
    BY <1>12, KeepDisk DEF CutoverRefused, At, disk, env
  <2>d. JournalInMemory'
    BY <1>12, KeepMem DEF CutoverRefused, At, disk, env, SameFlags, Later
  <2> QED BY <2>a, <2>b, <2>c, <2>d DEF Facts
<1>13. CASE CutoverFails
  <2>1. /\ pc = "cutover" /\ pc' = "restore" /\ i \in Files /\ HasSource(i)
        /\ UNCHANGED <<copy, saved, mem, touched, resume, result>>
        /\ dest' = dest \/ dest' = [dest EXCEPT ![i] = "new"]
    BY <1>13 DEF CutoverFails, Fault, At
  <2>2. i \in Untouched /\ Previous[i] = "old" => mem.files[i].backup
    BY <2>1 DEF Facts, JournalInMemory, Backed, Later
  <2>a. Positioned' /\ Synced' /\ BackupLoop' /\ CutoverLoop' /\ RollbackLoop'
    BY <1>13 DEF CutoverFails, Fault, At, TypeOK, Facts, Positioned, Synced, BackupLoop,
       CutoverLoop, RollbackLoop, Later, Untouched
  <2>b. DestRange' /\ AppliedIsWhole'
    BY <1>13, <2>1 DEF TypeOK, Facts, DestRange, AppliedIsWhole, Untouched
  <2>c. JournalOnDisk'
    <3>1. i \in Untouched /\ Previous[i] = "old" => saved.files[i].backup
      BY <2>1, <2>2 DEF Facts, Synced, Later, Untouched
    <3>2. saved # NoJournal /\ saved.phase # "rollback"
      BY <2>1 DEF Facts, JournalOnDisk
    <3> QED BY <2>1, <3>1, <3>2 DEF TypeOK, Facts, JournalOnDisk, FlagsSound, Backed, InCutover,
                                    Untouched
  <2>d. JournalInMemory'
    BY <2>1, <2>2 DEF TypeOK, Facts, JournalInMemory, FlagsSound, Backed, InCutover, Later,
       Untouched
  <2> QED BY <2>a, <2>b, <2>c, <2>d DEF Facts
<1>14. CASE RestoreSkip
  <2>a. Positioned' /\ Synced' /\ BackupLoop' /\ CutoverLoop' /\ RollbackLoop'
    BY <1>14 DEF RestoreSkip, At, disk, env, TypeOK, Facts, Positioned, Synced, BackupLoop,
       CutoverLoop, RollbackLoop, Later, Untouched
  <2>b. DestRange' /\ AppliedIsWhole'
    BY <1>14 DEF RestoreSkip, At, disk, env, Facts, DestRange, AppliedIsWhole, Untouched
  <2>c. JournalOnDisk'
    BY <1>14, KeepDisk DEF RestoreSkip, At, disk, env
  <2>d. JournalInMemory'
    BY <1>14, KeepMem DEF RestoreSkip, At, disk, env, SameFlags
  <2> QED BY <2>a, <2>b, <2>c, <2>d DEF Facts
<1>15. CASE RestoreOne
  <2>1. /\ pc = "restore" /\ pc' = "unstage" /\ i \in Files
        /\ dest' = [dest EXCEPT ![i] = Undone(i)]
        /\ UNCHANGED <<copy, saved, mem, i, touched, resume, blocked>>
    BY <1>15 DEF RestoreOne, At, env
  <2>2. i \in Untouched => dest'[i] = Previous[i]
    <3>1. mem.files[i].backup \in BOOLEAN /\ Previous[i] \in {"old", "absent"}
      BY <2>1 DEF TypeOK, Journal, JournalFile
    <3>2. CASE mem.files[i].backup
      BY <2>1, <3>2 DEF TypeOK, Undone, Facts, JournalInMemory, FlagsSound
    <3>3. CASE ~mem.files[i].backup
      BY <2>1, <3>1, <3>3 DEF TypeOK, Undone, Facts, JournalInMemory, Backed, Later
    <3> QED BY <3>1, <3>2, <3>3
  <2>3. DestRange' /\ (AsBefore => AsBefore')
    BY <2>1, <2>2 DEF TypeOK, Facts, DestRange, AsBefore, Untouched
  <2>a. Positioned' /\ Synced' /\ BackupLoop' /\ CutoverLoop' /\ RollbackLoop'
    BY <2>1 DEF TypeOK, Facts, Positioned, Synced, BackupLoop, CutoverLoop, RollbackLoop, Later,
       Untouched
  <2>b. DestRange' /\ AppliedIsWhole'
    BY <2>1, <2>3 DEF AppliedIsWhole
  <2>c. JournalOnDisk'
    BY <2>1, <2>2 DEF TypeOK, Facts, JournalOnDisk, FlagsSound, Backed, InCutover, Untouched
  <2>d. JournalInMemory'
    BY <2>1, <2>2 DEF TypeOK, Facts, JournalInMemory, FlagsSound, Backed, InCutover, Later,
       Untouched
  <2> QED BY <2>a, <2>b, <2>c, <2>d DEF Facts
<1>16. CASE RestoreUnstage
  <2>1. SameFlags
    BY <1>16, StateUpdate DEF RestoreUnstage, TypeOK, OnlyEntry, SameFlags, Facts, Positioned
  <2>a. Positioned' /\ Synced' /\ BackupLoop' /\ CutoverLoop' /\ RollbackLoop'
    BY <1>16, <2>1 DEF RestoreUnstage, env, SameFlags, TypeOK, Facts, Positioned, Synced,
       BackupLoop, CutoverLoop, RollbackLoop, Later, Untouched
  <2>b. DestRange' /\ AppliedIsWhole'
    BY <1>16 DEF RestoreUnstage, env, Facts, DestRange, AppliedIsWhole, Untouched
  <2>c. JournalOnDisk'
    BY <1>16, KeepDisk DEF RestoreUnstage, env
  <2>d. JournalInMemory'
    BY <1>16, <2>1, KeepMem DEF RestoreUnstage, env, Later
  <2> QED BY <2>a, <2>b, <2>c, <2>d DEF Facts
<1>17. CASE RollbackUnstage
  <2>1. SameFlags
    BY <1>17, UnstageUpdate DEF RollbackUnstage, At, TypeOK, OnlyEntry, SameFlags
  <2>a. Positioned' /\ Synced' /\ BackupLoop' /\ CutoverLoop' /\ RollbackLoop'
    BY <1>17, <2>1 DEF RollbackUnstage, At, env, SameFlags, TypeOK, Facts, Positioned, Synced,
       BackupLoop, CutoverLoop, RollbackLoop, Later, Untouched
  <2>b. DestRange' /\ AppliedIsWhole'
    BY <1>17 DEF RollbackUnstage, At, env, Facts, DestRange, AppliedIsWhole, Untouched
  <2>c. JournalOnDisk'
    BY <1>17, KeepDisk DEF RollbackUnstage, At, env
  <2>d. JournalInMemory'
    BY <1>17, <2>1, KeepMem DEF RollbackUnstage, At, env, Later
  <2> QED BY <2>a, <2>b, <2>c, <2>d DEF Facts
<1>18. CASE RollbackSkip
  <2>a. Positioned' /\ Synced' /\ BackupLoop' /\ CutoverLoop' /\ RollbackLoop'
    <3>1. /\ pc = "rollbackDest" /\ pc' = "rollback" /\ i \in Files /\ i' = i + 1
          /\ UNCHANGED <<dest, mem, saved, touched>> /\ blocked \subseteq blocked'
          /\ i \notin blocked' => ~ToUndo(i)
      BY <1>18 DEF RollbackSkip, disk, env, Facts, Positioned
    <3>2. i \in Untouched /\ i \notin blocked' => dest[i] = Previous[i]
      BY <3>1 DEF ToUndo, HoldsOurBytes, Facts, DestRange
    <3>3. RollbackLoop'
      BY <3>1, <3>2 DEF Facts, RollbackLoop, Untouched, Files
    <3> QED BY <3>1, <3>3 DEF Facts, Positioned, Synced, BackupLoop, CutoverLoop, Later
  <2>b. DestRange' /\ AppliedIsWhole'
    BY <1>18 DEF RollbackSkip, disk, env, Facts, DestRange, AppliedIsWhole, Untouched
  <2>c. JournalOnDisk'
    BY <1>18, KeepDisk DEF RollbackSkip, disk, env
  <2>d. JournalInMemory'
    BY <1>18, KeepMem DEF RollbackSkip, disk, env, SameFlags, Later
  <2> QED BY <2>a, <2>b, <2>c, <2>d DEF Facts
<1>19. CASE RollbackOne
  <2>1. /\ pc = "rollbackDest" /\ pc' = "rollback" /\ i \in Files /\ i' = i + 1
        /\ dest' = [dest EXCEPT ![i] = Undone(i)]
        /\ UNCHANGED <<copy, saved, touched, resume, blocked>>
    BY <1>19 DEF RollbackOne, env, Facts, Positioned
  <2>2. i \in Untouched => dest'[i] = Previous[i]
    <3>1. mem.files[i].backup \in BOOLEAN /\ Previous[i] \in {"old", "absent"}
      BY <2>1 DEF TypeOK, Journal, JournalFile
    <3>2. CASE mem.files[i].backup
      BY <2>1, <3>2 DEF TypeOK, Undone, Facts, JournalInMemory, FlagsSound
    <3>3. CASE ~mem.files[i].backup
      BY <2>1, <3>1, <3>3 DEF TypeOK, Undone, Facts, JournalInMemory, Backed, Later
    <3> QED BY <3>1, <3>2, <3>3
  <2>3. DestRange' /\ (AsBefore => AsBefore')
    BY <2>1, <2>2 DEF TypeOK, Facts, DestRange, AsBefore, Untouched
  <2>4. SameFlags
    BY <1>19, <2>1, StateUpdate DEF RollbackOne, TypeOK, OnlyEntry, SameFlags
  <2>a. Positioned' /\ Synced' /\ BackupLoop' /\ CutoverLoop' /\ RollbackLoop'
    <3>1. RollbackLoop'
      BY <2>1, <2>2 DEF TypeOK, Facts, RollbackLoop, Untouched, Files
    <3>2. Synced'
      BY <2>1, <2>4 DEF SameFlags, Facts, Synced, Later
    <3> QED BY <2>1, <3>1, <3>2 DEF Positioned, BackupLoop, CutoverLoop
  <2>b. DestRange' /\ AppliedIsWhole'
    BY <2>1, <2>3 DEF AppliedIsWhole
  <2>c. JournalOnDisk'
    BY <2>1, <2>2 DEF TypeOK, Facts, JournalOnDisk, FlagsSound, Backed, InCutover, Untouched
  <2>d. JournalInMemory'
    BY <2>1, <2>2, <2>4 DEF SameFlags, TypeOK, Facts, JournalInMemory, FlagsSound, Backed,
       InCutover, Later,
           Untouched
  <2> QED BY <2>a, <2>b, <2>c, <2>d DEF Facts
<1>20. CASE Expire
  <2>a. Positioned' /\ Synced' /\ BackupLoop' /\ CutoverLoop' /\ RollbackLoop'
    BY <1>20 DEF Expire, disk, run, TypeOK, Facts, Positioned, Synced, BackupLoop, CutoverLoop,
       RollbackLoop, Later, Untouched
  <2>b. DestRange' /\ AppliedIsWhole'
    BY <1>20 DEF Expire, disk, run, Facts, DestRange, AppliedIsWhole, Untouched
  <2>c. JournalOnDisk'
    BY <1>20, KeepDisk DEF Expire, disk, run
  <2>d. JournalInMemory'
    BY <1>20 DEF Expire, disk, run, Facts, JournalInMemory, FlagsSound, Backed, InCutover, Later,
       Untouched
  <2> QED BY <2>a, <2>b, <2>c, <2>d DEF Facts
<1>21. CASE \E f \in Files, b \in {"other", "absent"} : Edit(f, b)
  <2>a. Positioned' /\ Synced' /\ BackupLoop' /\ CutoverLoop' /\ RollbackLoop'
    BY <1>21 DEF Edit, run, TypeOK, Facts, Positioned, Synced, BackupLoop, CutoverLoop,
       RollbackLoop, Later, Untouched
  <2>b. DestRange' /\ AppliedIsWhole'
    BY <1>21 DEF Edit, run, TypeOK, Facts, DestRange, AppliedIsWhole, Untouched
  <2>c. JournalOnDisk'
    BY <1>21 DEF Edit, run, TypeOK, Facts, JournalOnDisk, FlagsSound, Backed, InCutover, AsBefore,
       Untouched
  <2>d. JournalInMemory'
    BY <1>21 DEF Edit, run, TypeOK, Facts, JournalInMemory, FlagsSound, Backed, InCutover, Later,
       Untouched
  <2> QED BY <2>a, <2>b, <2>c, <2>d DEF Facts
<1>22. CASE UNCHANGED vars
  <2>a. Positioned' /\ Synced' /\ BackupLoop' /\ CutoverLoop' /\ RollbackLoop'
    BY <1>22 DEF vars, disk, run, env, TypeOK, Facts, Positioned, Synced, BackupLoop, CutoverLoop,
       RollbackLoop, Later, Untouched
  <2>b. DestRange' /\ AppliedIsWhole'
    BY <1>22 DEF vars, disk, run, env, Facts, DestRange, AppliedIsWhole, Untouched
  <2>c. JournalOnDisk'
    BY <1>22, KeepDisk DEF vars, disk, run, env
  <2>d. JournalInMemory'
    BY <1>22 DEF vars, disk, run, env, Facts, JournalInMemory, FlagsSound, Backed, InCutover,
       Later, Untouched
  <2> QED BY <2>a, <2>b, <2>c, <2>d DEF Facts
<1>23. CASE RefuseOne
  <2>1. EndRun("refused") /\ Refuse /\ pc # "idle" /\ UNCHANGED <<disk, env>>
    BY <1>23 DEF RefuseOne, RefuseFile, Refuse, At
  <2>2. Leaves(saved')
    BY <2>1 DEF Refuse, SaveQuietly, Leaves, Facts, JournalInMemory, TypeOK
  <2> QED BY <2>1, <2>2, EndStep DEF env, Results
<1>24. CASE PrepareFails
  <2>1. EndRun("refused") /\ Refuse /\ pc # "idle" /\ UNCHANGED <<disk, touched>>
    BY <1>24 DEF PrepareFails, Refuse, Fault
  <2>2. Leaves(saved')
    BY <2>1 DEF Refuse, SaveQuietly, Leaves, Facts, JournalInMemory, TypeOK
  <2> QED BY <2>1, <2>2, EndStep DEF Results
<1>25. CASE FenceRefused
  <2>1. EndRun("refused") /\ pc # "idle" /\ UNCHANGED <<disk, touched>>
    BY <1>25 DEF FenceRefused, Fault
  <2>2. Leaves(saved')
    BY <1>25, FenceUpdate DEF FenceRefused, SaveQuietly, Leaves, InCutover, TypeOK
  <2> QED BY <2>1, <2>2, EndStep DEF Results
<1>26. CASE Complete
  <2>1. EndRun("applied") /\ pc = "cutover" /\ UNCHANGED <<disk, touched>>
    BY <1>26 DEF Complete, env
  <2>2. Leaves(saved')
    BY <1>26, PhaseUpdate DEF Complete, Leaves, Facts, JournalInMemory, Later, Phases, TypeOK
  <2>3. \A f \in Untouched : HasSource(f) => dest[f] = "new"
    BY <1>26 DEF Complete, Facts, CutoverLoop, Untouched, Files, TypeOK
  <2> QED BY <2>1, <2>2, <2>3, EndStep DEF Results
<1>27. CASE RestoreDone
  <2>1. pc = "restore" /\ UNCHANGED <<disk, touched>> /\ mem \in Journal
    BY <1>27 DEF RestoreDone, env, TypeOK
  <2>3. mem.phase # "rollback" /\ (InCutover(mem) => Backed(mem))
    BY <2>1 DEF Facts, JournalInMemory
  <2>4. CASE blocked = {}
    <3>1. EndRun("restored") /\ SaveQuietly([mem EXCEPT !.phase = "verify"])
      BY <1>27, <2>4 DEF RestoreDone
    <3>2. CASE saved' = saved
      BY <2>1, <3>1, <3>2, EndStep DEF Leaves, Results
    <3>3. CASE saved' = [mem EXCEPT !.phase = "verify"]
      <4>1. saved' \in Journal /\ saved'.files = mem.files /\ saved'.phase = "verify"
        BY <2>1, <3>3, PhaseUpdate DEF Phases
      <4>2. Leaves(saved')
        BY <2>1, <4>1 DEF Leaves, InCutover
      <4> QED BY <2>1, <3>1, <4>2, EndStep DEF Results
    <3> QED BY <3>1, <3>2, <3>3 DEF SaveQuietly
  <2>5. CASE blocked # {}
    <3>1. EndRun("incomplete") /\ SaveQuietly(mem)
      BY <1>27, <2>5 DEF RestoreDone
    <3>2. Leaves(saved')
      BY <2>1, <2>3, <3>1 DEF SaveQuietly, Leaves
    <3> QED BY <2>1, <3>1, <3>2, EndStep DEF Results
  <2> QED BY <2>4, <2>5
<1>28. CASE RollbackDone
  <2>1. pc = "rollback" /\ UNCHANGED <<disk, touched>> /\ mem \in Journal
    BY <1>28 DEF RollbackDone, env, TypeOK
  <2>2. blocked = {} => AsBefore
    BY <1>28 DEF RollbackDone, Facts, RollbackLoop, AsBefore, Untouched, Files, TypeOK
  <2>3. mem.phase # "rollback" /\ (InCutover(mem) => Backed(mem))
    BY <2>1 DEF Facts, JournalInMemory
  <2>4. CASE blocked = {}
    <3>1. EndRun("rolledBack") /\ SaveQuietly([mem EXCEPT !.phase = "rollback"])
      BY <1>28, <2>4 DEF RollbackDone
    <3>2. CASE saved' = saved
      BY <2>1, <3>1, <3>2, EndStep DEF Leaves, Results
    <3>3. CASE saved' = [mem EXCEPT !.phase = "rollback"]
      <4>1. saved' \in Journal /\ saved'.files = mem.files /\ saved'.phase = "rollback"
        BY <2>1, <3>3, PhaseUpdate DEF Phases
      <4>2. Leaves(saved')
        BY <2>1, <2>2, <2>4, <4>1 DEF Leaves, InCutover
      <4> QED BY <2>1, <3>1, <4>2, EndStep DEF Results
    <3> QED BY <3>1, <3>2, <3>3 DEF SaveQuietly
  <2>5. CASE blocked # {}
    <3>1. EndRun("blocked") /\ SaveQuietly(mem)
      BY <1>28, <2>5 DEF RollbackDone
    <3>2. Leaves(saved')
      BY <2>1, <2>3, <3>1 DEF SaveQuietly, Leaves
    <3> QED BY <2>1, <3>1, <3>2, EndStep DEF Results
  <2> QED BY <2>4, <2>5
<1>29. CASE UndoFails
  <2>1. EndRun("refused") /\ UNCHANGED <<disk, touched>> /\ Leaves(saved')
    BY <1>29 DEF UndoFails, env, Leaves
  <2> QED BY <2>1, EndStep DEF Results
<1>30. CASE Crash
  <2>1. EndRun("none") /\ UNCHANGED <<disk, touched>> /\ Leaves(saved')
    BY <1>30 DEF Crash, Leaves
  <2> QED BY <2>1, EndStep DEF Results
<1> QED
  BY <1>1, <1>2, <1>3, <1>4, <1>5, <1>6, <1>7, <1>8, <1>9, <1>10, <1>11, <1>12, <1>13, <1>14,
     <1>15, <1>16, <1>17, <1>18, <1>19, <1>20, <1>21, <1>22, <1>23, <1>24, <1>25, <1>26, <1>27,
     <1>28, <1>29, <1>30
     DEF Next, RunStep

-----------------------------------------------------------------------------
\* The body of OrderInv.
Order ==
    /\ pc \notin {"restore", "unstage", "rollback", "rollbackDest"}
    /\ CutOverIsInPlace(mem)
    /\ saved # NoJournal => CutOverIsInPlace(saved)
    /\ saved # NoJournal => (InCutover(saved) => AllReady(saved))
    /\ pc \in Cutting \/ resume \/ (pc # "idle" /\ InCutover(mem)) => AllReady(mem)
    /\ pc = "verify" => \A f \in Files : f < i /\ HasSource(f) => Ready(mem, f)
    /\ HasSource(N) /\ dest[N] = "new" => \A f \in Files : HasSource(f) => dest[f] = "new"

LEMMA OrderBody == OrderInv <=> (Undisturbed => Order)
BY DEF OrderInv, Order, PointerIsLast

LEMMA OrderInit == Init => Order
BY PlanAssumption
   DEF Init, Order, CutOverIsInPlace, Cutting, Fresh, Files

\* A step that moves neither a destination nor a staged copy, and whose journals
\* are the ones there were, up to the phase.
LEMMA QuietOrder ==
    ASSUME TypeOK, Order, UNCHANGED <<dest, stage>>,
           NEW j \in Journal, mem' = j, j.files = mem.files \/ CutOverIsInPlace(j),
           saved' = saved \/ (saved' \in Journal /\ saved'.files = mem.files),
           saved' # saved => (InCutover(saved') => AllReady(mem)),
           pc' \notin {"restore", "unstage", "rollback", "rollbackDest"},
           pc' \in Cutting \/ resume' \/ (pc' # "idle" /\ InCutover(j)) => AllReady(j),
           pc' = "verify" => \A f \in Files : f < i' /\ HasSource(f) => Ready(j, f)
    PROVE  Order'
<1>1. CutOverIsInPlace(mem)'
  BY DEF Order, CutOverIsInPlace
<1>2. saved' # NoJournal => CutOverIsInPlace(saved)'
  BY JournalAssumption DEF Order, CutOverIsInPlace
<1>3. saved' # NoJournal => (InCutover(saved)' => AllReady(saved)')
  <2>1. CASE saved' = saved
    BY <2>1 DEF Order, InCutover, AllReady, Ready
  <2>2. CASE saved' # saved
    BY <2>2 DEF InCutover, AllReady, Ready
  <2> QED BY <2>1, <2>2
<1>4. pc' \in Cutting \/ resume' \/ (pc' # "idle" /\ InCutover(mem)') => AllReady(mem)'
  BY DEF InCutover, AllReady, Ready
<1>5. pc' = "verify" => \A f \in Files : f < i' /\ HasSource(f) => Ready(mem, f)'
  BY DEF Ready
<1> QED BY <1>1, <1>2, <1>3, <1>4, <1>5 DEF Order

LEMMA EndOrder ==
    ASSUME TypeOK, Order, NEW how, EndRun(how), UNCHANGED <<dest, stage>>,
           saved' = saved \/ (saved' \in Journal /\ saved'.files = mem.files),
           saved' # saved => (InCutover(saved') => AllReady(mem))
    PROVE  Order'
<1>1. CutOverIsInPlace(Fresh) /\ mem' = Fresh /\ pc' = "idle" /\ resume' = FALSE
  BY DEF EndRun, CutOverIsInPlace, Fresh
<1> QED BY <1>1, FreshIsJournal, QuietOrder DEF Cutting

\* Nobody interferes after the step, hence nobody did before it.
LEMMA StaysUndisturbed ==
    ASSUME TypeOK, [Next]_vars, Undisturbed'
    PROVE  /\ Undisturbed
           /\ ~StartRollback /\ ~FenceRefused /\ ~PrepareFails /\ ~CutoverFails
           /\ ~(\E f \in Files, b \in {"other", "absent"} : Edit(f, b))
<1> USE PlanAssumption
<1>1. ~StartRollback
  BY DEF StartRollback, Undisturbed, TypeOK
<1>2. ~FenceRefused /\ ~PrepareFails /\ ~CutoverFails
  BY DEF FenceRefused, PrepareFails, CutoverFails, Fault, Undisturbed, TypeOK
<1>3. ~(\E f \in Files, b \in {"other", "absent"} : Edit(f, b))
  BY DEF Edit, Undisturbed
<1>4. UNCHANGED <<touched, faults, rollbacks>>
  <2>1. CASE Crash \/ Expire
    BY <2>1 DEF Crash, Expire
  <2>2. CASE StartApply \/ RunStep
    BY <2>2 DEF StartApply, RunStep, env, FenceEstablished, EnterPhase, BackupOne, LeavePhase,
       StageOne,
        VerifyOne, SkipOne, SkipFile, RefuseOne, RefuseFile, CutoverOne, SaveCutover, CutoverRefused,
        Complete, RestoreSkip, RestoreOne, RestoreUnstage, RestoreDone, RollbackUnstage, RollbackSkip,
        RollbackOne, RollbackDone, UndoFails
  <2>3. CASE UNCHANGED vars
    BY <2>3 DEF vars, env
  <2> QED BY <1>1, <1>2, <1>3, <2>1, <2>2, <2>3 DEF Next
<1> QED BY <1>1, <1>2, <1>3, <1>4 DEF Undisturbed

LEMMA OrderStep ==
    ASSUME TypeOK, Facts, Order, Undisturbed, [Next]_vars, TypeOK', Undisturbed'
    PROVE  Order'
<1> USE PlanAssumption
<1>0. Untouched = Files /\ N \in Files
  BY DEF Undisturbed, Untouched, Files
<1>1. CASE StartApply
  <2>1. /\ UNCHANGED <<dest, stage, saved>> /\ pc' \in {"idle", "fence"} /\ mem' \in Journal
    BY <1>1 DEF StartApply, disk, TypeOK
  <2>2. CASE pc' = "idle"
    BY <1>1, <2>1, <2>2, QuietOrder DEF StartApply, Facts, Positioned, TypeOK, Cutting
  <2>3. CASE pc' = "fence" /\ mem' = Fresh
    <3>1. CutOverIsInPlace(Fresh) /\ resume' = FALSE /\ ~InCutover(Fresh)
      <4>1. mem' = Loaded /\ resume' = (Loaded.phase = "cutover")
        BY <1>1, <2>3 DEF StartApply
      <4>2. CutOverIsInPlace(Fresh) /\ Fresh.phase = "fence"
        BY DEF CutOverIsInPlace, Fresh
      <4> QED BY <2>3, <4>1, <4>2 DEF InCutover
    <3> QED BY <2>1, <2>3, <3>1, QuietOrder DEF Cutting
  <2>4. CASE pc' = "fence" /\ mem' # Fresh
    <3>1. mem' = saved /\ saved # NoJournal /\ (resume' => InCutover(saved))
      BY <1>1, <2>4 DEF StartApply, Loaded, InCutover
    <3>2. CutOverIsInPlace(saved) /\ (InCutover(saved) => AllReady(saved))
      BY <3>1 DEF Order
    <3> QED BY <2>1, <2>4, <3>1, <3>2, QuietOrder DEF Cutting
  <2> QED BY <2>1, <2>2, <2>3, <2>4
<1>2. CASE FenceEstablished
  <2>1. /\ mem' \in Journal /\ mem'.files = mem.files /\ mem'.phase = "fence"
        /\ saved' = mem' /\ UNCHANGED <<dest, stage, resume>>
        /\ pc' = IF resume THEN "enterCutover" ELSE "enterBackup"
    BY <1>2, FenceUpdate DEF FenceEstablished, TypeOK, disk
  <2>2. resume => AllReady(mem')
    BY <2>1 DEF Order, AllReady, Ready
  <2> QED BY <2>1, <2>2, QuietOrder DEF InCutover, Cutting, TypeOK
<1>3. ASSUME NEW at, NEW phase,
             <<at, phase>> \in {<<"enterBackup", "backup">>, <<"enterStage", "stage">>,
                                <<"enterVerify", "verify">>, <<"enterCutover", "cutover">>},
             EnterPhase(at, phase)
      PROVE  Order'
  <2>1. /\ phase \in {"backup", "stage", "verify", "cutover"} /\ phase \in Phases
        /\ phase = "cutover" => at = "enterCutover"
    BY <1>3 DEF Phases
  <2>2. /\ mem' \in Journal /\ mem'.files = mem.files /\ mem'.phase = phase /\ saved' = mem'
        /\ UNCHANGED <<dest, stage, resume>> /\ pc = at /\ pc' = phase /\ i' = 1
    BY <1>3, <2>1, PhaseUpdate DEF EnterPhase, TypeOK, disk
  <2>3. resume \/ phase = "cutover" => AllReady(mem) /\ AllReady(mem')
    BY <2>1, <2>2 DEF Order, Cutting, AllReady, Ready
  <2>4. \A f \in Files : ~(f < i')
    BY <2>2 DEF Files
  <2> QED BY <2>1, <2>2, <2>3, <2>4, QuietOrder DEF InCutover, Cutting
<1>4. ASSUME NEW phase, NEW next,
             <<phase, next>> \in {<<"backup", "enterStage">>, <<"stage", "enterVerify">>,
                                  <<"verify", "enterCutover">>},
             LeavePhase(phase, next)
      PROVE  Order'
  <2>1. /\ saved' = mem /\ UNCHANGED <<dest, stage, mem, resume>> /\ pc = phase /\ pc' = next /\ i > N
        /\ pc # "idle" /\ pc' \in {"enterStage", "enterVerify", "enterCutover"}
        /\ pc' = "enterCutover" => pc = "verify"
    BY <1>4 DEF LeavePhase, disk
  <2>2. pc = "verify" => AllReady(mem)
    <3>1. \A f \in Files : f < i
      BY <2>1 DEF Files, TypeOK
    <3> QED BY <3>1 DEF Order, AllReady
  <2> QED BY <2>1, <2>2, QuietOrder DEF Order, TypeOK, Cutting
<1>5. CASE BackupOne
  <2>1. /\ OnlyEntry(mem, mem', i) /\ mem'.files[i].state = mem.files[i].state
        /\ mem'.files[i].staged = mem.files[i].staged
        /\ UNCHANGED <<dest, stage, saved, pc, resume>> /\ pc = "backup"
    BY <1>5, BackupUpdate DEF BackupOne, At, TypeOK
  <2>2. CutOverIsInPlace(mem') /\ (AllReady(mem) => AllReady(mem'))
    BY <2>1 DEF Order, CutOverIsInPlace, AllReady, Ready, OnlyEntry
  <2> QED BY <2>1, <2>2, QuietOrder DEF Order, OnlyEntry, InCutover, Cutting
<1>6. CASE StageOne
  <2>1. /\ OnlyEntry(mem, mem', i) /\ mem'.files[i].state = "staged" /\ mem'.files[i].staged = TRUE
    <3>1. /\ mem \in Journal /\ i \in Files
          /\ mem' = [mem EXCEPT !.files[i].staged = TRUE, !.files[i].state = "staged"]
      BY <1>6 DEF StageOne, At, TypeOK
    <3> QED BY <3>1, StagedUpdate
  <2>2. /\ UNCHANGED <<dest, saved, pc, resume>> /\ pc = "stage" /\ i \in Files
        /\ stage' = [stage EXCEPT ![i] = "new"]
    BY <1>6 DEF StageOne, At
  <2>3. CutOverIsInPlace(mem)' /\ (AllReady(mem) => AllReady(mem)')
    BY <2>1, <2>2 DEF Order, CutOverIsInPlace, AllReady, Ready, OnlyEntry, TypeOK
  <2>4. saved # NoJournal => CutOverIsInPlace(saved)' /\ (AllReady(saved) => AllReady(saved)')
    BY <2>2 DEF Order, CutOverIsInPlace, AllReady, Ready, TypeOK
  <2> QED BY <2>1, <2>2, <2>3, <2>4 DEF Order, OnlyEntry, InCutover, Cutting
<1>7. CASE VerifyOne
  <2>0. /\ UNCHANGED <<dest, stage, saved, pc, resume>> /\ pc = "verify" /\ i \in Files /\ i' = i + 1
        /\ Verifiable(i) /\ mem' = [mem EXCEPT !.files[i].state = "verified"]
    BY <1>7 DEF VerifyOne, At, disk
  <2>1. /\ OnlyEntry(mem, mem', i) /\ mem'.files[i].state = "verified"
        /\ mem'.files[i].staged = mem.files[i].staged
    <3>1. mem \in Journal
      BY DEF TypeOK
    <3> QED BY <2>0, <3>1, StateUpdate
  <2>2. CutOverIsInPlace(mem') /\ (AllReady(mem) => AllReady(mem'))
    BY <2>0, <2>1 DEF Order, CutOverIsInPlace, AllReady, Ready, OnlyEntry
  <2>3. \A f \in Files : f < i' /\ HasSource(f) => Ready(mem', f)
    <3>1. Ready(mem', i)
      BY <2>0, <2>1 DEF Verifiable, Ready
    <3>2. \A f \in Files : f < i' => f < i \/ f = i
      BY <2>0, <2>1 DEF Files
    <3> QED BY <2>0, <2>1, <3>1, <3>2 DEF Order, OnlyEntry, Ready
  <2> QED BY <2>0, <2>1, <2>2, <2>3, QuietOrder DEF Order, OnlyEntry, InCutover, Cutting
<1>8. CASE SkipOne
  <2>1. /\ UNCHANGED <<dest, stage, saved, pc, mem, resume>> /\ i \in Files /\ i' = i + 1
        /\ pc \in {"backup", "stage", "verify"}
        /\ pc = "verify" => IsCutOver(i) \/ ~HasSource(i)
    BY <1>8 DEF SkipOne, SkipFile, At, disk
  <2>2. pc = "verify" => \A f \in Files : f < i' /\ HasSource(f) => Ready(mem, f)
    <3>1. pc = "verify" /\ HasSource(i) => Ready(mem, i)
      BY <2>1 DEF Order, CutOverIsInPlace, IsCutOver, Ready
    <3>2. \A f \in Files : f < i' => f < i \/ f = i
      BY <2>1 DEF Files
    <3> QED BY <3>1, <3>2 DEF Order
  <2> QED BY <2>1, <2>2, QuietOrder DEF Order, TypeOK
<1>9. CASE CutoverOne
  <2>1. /\ pc = "cutover" /\ pc' = "save" /\ i \in Files /\ UNCHANGED <<stage, saved, resume>>
        /\ dest' = IF HasSource(i) THEN [dest EXCEPT ![i] = "new"] ELSE dest
    BY <1>9 DEF CutoverOne, At
  <2>2. /\ OnlyEntry(mem, mem', i) /\ mem'.files[i].staged = mem.files[i].staged
        /\ mem'.files[i].state = IF HasSource(i) THEN "cutover" ELSE mem.files[i].state
    BY <1>9, <2>1, StateUpdate DEF CutoverOne, TypeOK, OnlyEntry
  <2>3. \A f \in Files : dest[f] = "new" => dest'[f] = "new"
    BY <2>1 DEF TypeOK
  <2>4. CutOverIsInPlace(mem)' /\ AllReady(mem)'
    BY <2>1, <2>2, <2>3 DEF Order, CutOverIsInPlace, AllReady, Ready, OnlyEntry, Cutting, TypeOK
  <2>5. saved # NoJournal => CutOverIsInPlace(saved)' /\ (AllReady(saved) => AllReady(saved)')
    BY <2>1, <2>3 DEF Order, CutOverIsInPlace, AllReady, Ready
  <2>6. HasSource(N) /\ dest'[N] = "new" => \A f \in Files : HasSource(f) => dest'[f] = "new"
    <3>1. CASE dest[N] = "new"
      BY <2>3, <3>1 DEF Order
    <3>2. CASE dest[N] # "new" /\ dest'[N] = "new"
      <4>1. i = N
        BY <1>0, <2>1, <3>2 DEF TypeOK
      <4>2. \A f \in Files : f = i \/ f < i
        BY <4>1 DEF Files
      <4>3. \A f \in Files : HasSource(f) /\ f < i => dest[f] = "new"
        BY <1>0, <2>1 DEF Facts, CutoverLoop
      <4> QED BY <2>3, <3>2, <4>1, <4>2, <4>3
    <3> QED BY <3>1, <3>2
  <2> QED BY <2>1, <2>4, <2>5, <2>6 DEF Order, InCutover
<1>10. CASE SaveCutover
  <2>1. saved' = mem /\ UNCHANGED <<dest, stage, mem, resume>> /\ pc = "save" /\ pc' = "cutover"
    BY <1>10 DEF SaveCutover, disk
  <2>2. AllReady(mem)
    BY <2>1 DEF Order, Cutting
  <2> QED BY <2>1, <2>2, QuietOrder DEF TypeOK
<1>11. ~CutoverRefused
  <2> SUFFICES ASSUME CutoverRefused PROVE FALSE
    OBVIOUS
  <2>1. pc = "cutover" /\ i \in Files /\ HasSource(i) /\ dest[i] # "new" /\ ~MayWrite(i)
    BY DEF CutoverRefused, At, InPlace
  <2>2. ~IsCutOver(i) /\ mem.files[i].staged /\ stage[i] = "new"
    BY <2>1 DEF Order, CutOverIsInPlace, AllReady, Ready, IsCutOver, Cutting
  <2>3. dest[i] = Previous[i]
    BY <1>0, <2>1 DEF Facts, DestRange
  <2> QED BY <2>1, <2>2, <2>3 DEF MayWrite, InPlace
<1>12. CASE RefuseOne
  <2>1. EndRun("refused") /\ SaveQuietly(mem) /\ pc # "idle" /\ UNCHANGED <<dest, stage>>
    BY <1>12 DEF RefuseOne, RefuseFile, Refuse, At, disk
  <2> QED BY <2>1, EndOrder DEF SaveQuietly, Order, TypeOK
<1>13. CASE Complete
  <2>1. /\ EndRun("applied") /\ pc = "cutover" /\ UNCHANGED <<dest, stage>>
        /\ saved' \in Journal /\ saved'.files = mem.files
    BY <1>13, PhaseUpdate DEF Complete, disk, TypeOK, Phases
  <2> QED BY <2>1, EndOrder DEF Order, Cutting
<1>14. CASE Crash
  <2>1. EndRun("none") /\ UNCHANGED <<dest, stage, saved>>
    BY <1>14 DEF Crash, disk
  <2> QED BY <2>1, EndOrder
<1>15. CASE Expire \/ UNCHANGED vars
  <2>1. UNCHANGED <<dest, stage, saved, mem, pc, i, resume>>
    BY <1>15 DEF Expire, vars, disk, run
  <2> QED BY <2>1, QuietOrder DEF Order, TypeOK
<1>16. /\ ~RestoreSkip /\ ~RestoreOne /\ ~RestoreUnstage /\ ~RestoreDone
       /\ ~RollbackUnstage /\ ~RollbackSkip /\ ~RollbackOne /\ ~RollbackDone /\ ~UndoFails
  BY DEF Order, RestoreSkip, RestoreOne, RestoreUnstage, RestoreDone, RollbackUnstage, RollbackSkip,
         RollbackOne, RollbackDone, UndoFails, At
<1> QED
  BY <1>1, <1>2, <1>3, <1>4, <1>5, <1>6, <1>7, <1>8, <1>9, <1>10, <1>11, <1>12, <1>13, <1>14,
     <1>15, <1>16, StaysUndisturbed
     DEF Next, RunStep

-----------------------------------------------------------------------------
\* The inductive invariant, for every plan.
THEOREM Inductive == Spec => []IInv
<1>1. Init => IInv
  BY TypeInit, SafeInit, OrderInit, OrderBody DEF IInv, SafeInv, Facts
<1>2. IInv /\ [Next]_vars => IInv'
  <2> SUFFICES ASSUME IInv, [Next]_vars PROVE IInv'
    OBVIOUS
  <2>1. TypeOK /\ Facts
    BY DEF IInv, SafeInv, Facts
  <2>2. TypeOK' /\ Facts'
    BY <2>1, TypeStep, SafeStep DEF Facts
  <2>3. OrderInv'
    <3>1. Undisturbed' => Undisturbed
      BY <2>1, StaysUndisturbed
    <3>2. Undisturbed /\ Undisturbed' => Order'
      BY <2>1, <2>2, OrderBody, OrderStep DEF IInv
    <3>3. OrderInv' <=> (Undisturbed' => Order')
      BY DEF OrderInv, Order, PointerIsLast, Undisturbed
    <3> QED BY <3>1, <3>2, <3>3
  <2> QED BY <2>2, <2>3 DEF IInv, SafeInv, Facts
<1> QED BY <1>1, <1>2, PTL DEF Spec

(* Type correctness of the files, the journals and the run (apply.rs).     *)
THEOREM MigrationTypes == Spec => []TypeOK
<1>1. IInv => TypeOK
  BY DEF IInv, SafeInv
<1> QED BY <1>1, Inductive, PTL

(* For every plan, and whatever is interrupted, fails or is rolled back,    *)
(* the previous bytes of an untouched destination are in place or in a      *)
(* backup the journal on disk records (backup_one, cutover_one).            *)
THEOREM PreviousBytesAreKept == Spec => []PreviousIsRecoverable
<1>1. IInv => PreviousIsRecoverable
  <2> SUFFICES ASSUME IInv, NEW f \in Untouched, Previous[f] = "old", dest[f] # "old"
               PROVE  /\ dest[f] = "new" /\ copy[f] = "old"
                      /\ saved # NoJournal /\ saved.files[f].backup
    BY DEF PreviousIsRecoverable
  <2>1. dest[f] = "new"
    BY DEF IInv, SafeInv, DestRange
  <2>2. saved # NoJournal
    BY DEF IInv, SafeInv, JournalOnDisk, AsBefore
  <2> QED BY <2>1, <2>2 DEF IInv, SafeInv, JournalOnDisk, FlagsSound
<1> QED BY <1>1, Inductive, PTL

(* A journal that says rolled back leaves no new bytes (rollback_journaled).*)
THEOREM RollbackIsClean == Spec => []RolledBackIsClean
<1>1. IInv => RolledBackIsClean
  BY DEF IInv, SafeInv, JournalOnDisk, AsBefore, RolledBackIsClean
<1> QED BY <1>1, Inductive, PTL

(* A run that reports success has put every destination in place            *)
(* (apply_journaled).                                                       *)
THEOREM SuccessIsWhole == Spec => []AppliedIsWhole
<1>1. IInv => AppliedIsWhole
  BY DEF IInv, SafeInv
<1> QED BY <1>1, Inductive, PTL

(* Crashes alone never leave the pointer in place before the generation it  *)
(* names (planned_writes).                                                  *)
THEOREM PointerComesLast == Spec => []PointerIsLast
<1>1. IInv => PointerIsLast
  BY DEF IInv, OrderInv, PointerIsLast
<1> QED BY <1>1, Inductive, PTL

(* No step of a run overwrites or removes bytes that somebody else wrote    *)
(* (cutover_one, restore, rollback_journaled).                              *)
THEOREM OthersBytesSurvive == Spec => HumanBytesSurvive
<1> DEFINE Kept == edits' = edits => \A f \in Files : dest[f] = "other" => dest'[f] = "other"
<1>1. TypeOK /\ [Next]_vars => [Kept]_vars
  <2> SUFFICES ASSUME TypeOK, [Next]_vars, edits' = edits,
                      NEW f \in Files, dest[f] = "other"
               PROVE  dest'[f] = "other"
    OBVIOUS
  <2> USE PlanAssumption
  <2>1. CASE dest' = dest
    BY <2>1
  <2>2. CASE CutoverOne
    BY <2>2 DEF CutoverOne, At, InPlace, MayWrite, TypeOK
  <2>3. CASE CutoverFails
    BY <2>3 DEF CutoverFails, At, MayWrite, TypeOK
  <2>4. CASE RestoreOne
    BY <2>4 DEF RestoreOne, RestoreBlocked, TypeOK
  <2>5. CASE RollbackOne
    BY <2>5 DEF RollbackOne, ToUndo, HoldsOurBytes, RollbackBlocked, TypeOK
  <2>6. CASE \E g \in Files, b \in {"other", "absent"} : Edit(g, b)
    BY <2>6 DEF Edit, TypeOK
  <2>7. CASE UNCHANGED vars
    BY <2>7 DEF vars, disk
  <2>8. CASE StartApply \/ StartRollback \/ FenceRefused \/ PrepareFails \/ Crash \/ Expire
    BY <2>8 DEF StartApply, StartRollback, FenceRefused, PrepareFails, Crash, Expire, disk
  <2>9. CASE RunStep /\ ~CutoverOne /\ ~RestoreOne /\ ~RollbackOne
    BY <2>9 DEF RunStep, disk, FenceEstablished, EnterPhase, BackupOne, LeavePhase, StageOne,
       VerifyOne,
        SkipOne, SkipFile, RefuseOne, RefuseFile, SaveCutover, CutoverRefused, Complete, RestoreSkip,
        RestoreUnstage, RestoreDone, RollbackUnstage, RollbackSkip, RollbackDone, UndoFails
  <2> QED BY <2>2, <2>3, <2>4, <2>5, <2>6, <2>7, <2>8, <2>9 DEF Next
<1> QED BY <1>1, MigrationTypes, PTL DEF Spec, HumanBytesSurvive

(* Recoverability, truth of the reports and the place of the pointer, for  *)
(* any plan and any number of interruptions (apply_journaled, restore,     *)
(* rollback_journaled).                                                    *)
THEOREM MigrationsRecover == Spec => []MigrationIsRecoverable
  BY MigrationTypes, PreviousBytesAreKept, RollbackIsClean, SuccessIsWhole, PointerComesLast, PTL
     DEF MigrationIsRecoverable
=============================================================================
