---------------------------- MODULE UpdateProofs ----------------------------
(***************************************************************************)
(* Proofs about the ecosystem transaction, for any number of transactions  *)
(* and versions and any crashes, failures and changes by hand; and about   *)
(* the ecosystem's removal, for any number of removals at once.            *)
(***************************************************************************)
EXTENDS Update, Uninstall, TLAPS

Placed == {"whole", "damaged"}

\* The payloads a pointer names were put in place, in core files f and skill directories d.
HasCore(f, c) == \A p \in PartsOf(c) : f[c.ver][p] # "absent"

HasSkills(d, s) == s # NoSkills => d[s] \in Placed

Kept(f, d, j) ==
    /\ HasCore(f, j.prevCore) /\ HasSkills(d, j.prevSkills)
    /\ j.actCore # NoPointer => HasCore(f, j.actCore) /\ HasSkills(d, j.actSkills)

\* What is in place stays in place.
Grows(f, g) ==
    \A v \in Versions, p \in Parts : f[v][p] # "absent" => g[v][p] # "absent"

SkillsGrow(d, e) == \A v \in Versions : d[v] \in Placed => e[v] \in Placed

\* What a journal of t calls activated is what t wrote, or found.
Sound(t, j) ==
    /\ j.actCore # NoPointer => /\ j.actCore = j.prevCore \/ j.actCore.txn = t
                                /\ j.actSkills \in {j.prevSkills, j.target}
    /\ j.state \in {"activated", "finalized"} => j.actCore # NoPointer

\* Two journals of one transaction.
SameUpdate(j, k) ==
    /\ j.target = k.target /\ j.owned = k.owned
    /\ j.prevCore = k.prevCore /\ j.prevSkills = k.prevSkills

\* Steps of an operation that has a journal.
JournalSteps == Steps \ {"idle", "stage", "check", "skillFiles", "skillManifest", "skillReuse",
                         "skillPointer", "place", "point", "corePointer"}

SkillSteps == {"skillFiles", "skillManifest", "skillReuse", "skillPointer"}

CoreSteps == {"place", "point", "corePointer"}

LateSteps == {"activate", "start", "finalize"}

RunShape ==
    /\ pc = "idle" => mem = NoJournal
    /\ pc # "idle" => txn \in Txns
    /\ pc \in JournalSteps => mem # NoJournal
    /\ mem # NoJournal => /\ journal[txn] # NoJournal /\ SameUpdate(mem, journal[txn])
                          /\ ver = mem.target

JournalsSound ==
    /\ \A t \in Txns : journal[t] # NoJournal => Sound(t, journal[t])
    /\ mem # NoJournal => Sound(txn, mem)
    /\ pc \in {"start", "finalize"} => mem.actCore # NoPointer

PayloadInv ==
    /\ HasCore(coreFile, core) /\ HasSkills(skillDir, skills)
    /\ \A t \in Txns : journal[t] # NoJournal => Kept(coreFile, skillDir, journal[t])
    /\ mem # NoJournal => Kept(coreFile, skillDir, mem)

Moving ==
    /\ pc \in SkillSteps \cup CoreSteps => \A p \in Parts \ pending : coreFile[ver][p] # "absent"
    /\ pc = "point" => \A p \in Parts : Turn(p) => coreFile[ver][p] # "absent"
    /\ pc = "corePointer" => pending = {}
    /\ pc = "skillFiles" => skillDir[ver] = "absent"
    /\ pc = "skillPointer" => skillDir[ver] \in Placed
    /\ pc \in SkillSteps /\ ~moveCore => core.part = 0 /\ core.ver = ver
    /\ pc \in CoreSteps \cup LateSteps => skills = ver
    /\ pc \in LateSteps => core.part = 0 /\ core.ver = ver

Owning ==
    mem # NoJournal =>
        /\ core = mem.prevCore \/ core.txn = txn
        /\ skills \in {mem.prevSkills, mem.target}
        /\ pc \in {"backSkills", "backJournal", "backStart", "close", "redoCore"} =>
             core = mem.prevCore
        /\ pc \in {"backJournal", "backStart", "close"} => skills = mem.prevSkills
        /\ pc \in {"redoCore", "redoSkills"} => mem.state \in {"activated", "finalized"}

QuietSteps == {"stage", "check", "activate", "start", "redoCore", "redoSkills"}
                \cup SkillSteps \cup CoreSteps

Serving ==
    mem # NoJournal /\ mem.owned =>
        /\ pc \in QuietSteps => service.on = Down
        /\ pc \in {"backCore", "backSkills"} => service.on = Down \/ Unmoved(mem)
        /\ /\ pc \in {"backCore", "backSkills", "backStart"}
           /\ mem.state \in {"activated", "finalized"}
           => service.on = Down
        /\ pc \in {"finalize", "close"} => service = [owned |-> TRUE, on |-> core]

\* The steps that close a journal, and the steps that move a pointer.
ClosingStep(u) ==
    /\ journal'[u].state = "rolled-back" => u = txn /\ Close
    /\ journal'[u].state = "finalized" => u = txn /\ Finalize

MovingActions ==
    SkillPointer \/ Point \/ CorePointer \/ UndoCore \/ UndoSkills \/ BackCore \/ BackSkills
      \/ RedoCore \/ RedoSkills

IInv == TypeOK /\ RunShape /\ JournalsSound /\ PayloadInv /\ Moving /\ Owning /\ Serving

-----------------------------------------------------------------------------
(* The assignments the code makes to a journal. *)
LEMMA StateUpdate ==
    ASSUME NEW j \in Journals, NEW s \in JournalStates
    PROVE  LET k == [j EXCEPT !.state = s] IN
           /\ k \in Journals /\ k.state = s /\ SameUpdate(j, k)
           /\ k.actCore = j.actCore /\ k.actSkills = j.actSkills /\ k.prevDir = j.prevDir
BY DEF Journals, SameUpdate

(* The record that apply writes once both pointers have moved. *)
LEMMA ActivateUpdate ==
    ASSUME NEW j \in Journals, NEW c \in Pointers, NEW s \in SkillPointers
    PROVE  LET k == [j EXCEPT !.state = "activated", !.actCore = c, !.actSkills = s] IN
           /\ k \in Journals /\ k.state = "activated" /\ SameUpdate(j, k)
           /\ k.actCore = c /\ k.actSkills = s
BY DEF Journals, JournalStates, OpenStates, SameUpdate

(* The types of a journal's fields. *)
LEMMA JournalFields ==
    ASSUME NEW j \in Journals
    PROVE  /\ j.state \in JournalStates /\ j.target \in Versions /\ j.owned \in BOOLEAN
           /\ j.prevCore \in Pointers /\ j.prevSkills \in SkillPointers
           /\ j.actCore \in Pointers \cup {NoPointer} /\ j.actSkills \in SkillPointers
BY DEF Journals

(* The service calls keep the type of the service. *)
LEMMA ServiceType ==
    ASSUME TypeOK, Drained \/ DrainFailed \/ Reinstalled \/ ReinstallFailed
    PROVE  service' \in [owned : BOOLEAN, on : Pointers \cup {Down}]
<1>1. service \in [owned : BOOLEAN, on : Pointers \cup {Down}] /\ core \in Pointers
  BY DEF TypeOK
<1>2. CASE Drained
  BY <1>2 DEF Drained
<1>3. CASE Reinstalled
  BY <1>1, <1>3 DEF Reinstalled
<1>4. CASE DrainFailed \/ ReinstallFailed
  <2>1. PICK on \in {service.on, Down} : service' = [service EXCEPT !.on = on]
    BY <1>4 DEF DrainFailed, ReinstallFailed
  <2> QED BY <1>1, <2>1
<1> QED BY <1>2, <1>3, <1>4

(* A pointer that an operation writes. *)
LEMMA NewPointer ==
    ASSUME NEW t \in Txns, NEW p \in Parts \cup {0}, NEW v \in Versions
    PROVE  [txn |-> t, part |-> p, ver |-> v] \in Pointers
BY DEF Pointers

(* A core pointer keeps its payloads while no file goes away. *)
LEMMA KeptCore ==
    ASSUME NEW f, NEW g, Grows(f, g), NEW c \in Pointers, HasCore(f, c)
    PROVE  HasCore(g, c)
BY DEF Grows, HasCore, Pointers, PartsOf, Parts, Graphd

(* The same for the skills pointer. *)
LEMMA KeptSkills ==
    ASSUME NEW d, NEW e, SkillsGrow(d, e), NEW s \in SkillPointers, HasSkills(d, s)
    PROVE  HasSkills(e, s)
BY DEF SkillsGrow, HasSkills, SkillPointers

(* The same for the pointers a journal names. *)
LEMMA KeptJournal ==
    ASSUME NEW f, NEW g, Grows(f, g), NEW d, NEW e, SkillsGrow(d, e),
           NEW j \in Journals, Kept(f, d, j)
    PROVE  Kept(g, e, j)
<1>1. j.prevCore \in Pointers /\ j.prevSkills \in SkillPointers /\ j.actSkills \in SkillPointers
  BY JournalFields
<1>2. j.actCore # NoPointer => j.actCore \in Pointers
  BY JournalFields
<1> QED BY <1>1, <1>2, KeptCore, KeptSkills DEF Kept

(* Every step keeps the types. *)
LEMMA TypeStep ==
    ASSUME TypeOK, RunShape, JournalsSound, Owning, [Next]_vars
    PROVE  TypeOK'
<1>1. ASSUME NEW t \in Txns, NEW v \in Versions, StartUpdate(t, v), UNCHANGED damages
      PROVE  TypeOK'
  <2> DEFINE j == [state |-> "prepared", target |-> v, owned |-> service.owned,
                   prevCore |-> core, prevSkills |-> skills, prevDir |-> DirOf(skills),
                   actCore |-> NoPointer, actSkills |-> NoSkills]
  <2>1. j \in Journals
    BY DEF TypeOK, Journals, JournalStates, OpenStates, DirOf, SkillPointers, Dirs
  <2> QED BY <1>1, UpdateAssumption, <2>1 DEF TypeOK, Steps, StartUpdate, files
<1>2. ASSUME NEW t \in Txns, NEW v \in Versions, StartInstall(t, v), UNCHANGED damages
      PROVE  TypeOK'
  BY <1>2, UpdateAssumption DEF TypeOK, Steps, StartInstall, files
<1>3. CASE Drain /\ UNCHANGED damages
  BY <1>3, ServiceType, UpdateAssumption DEF TypeOK, Steps, Drain, Goto, files
<1>4. CASE Stage /\ UNCHANGED damages
  BY <1>4, UpdateAssumption DEF TypeOK, Steps, Stage, Goto, Release, IsInstall, files
<1>5. CASE Check /\ UNCHANGED damages
  BY <1>5, UpdateAssumption DEF TypeOK, Steps, Check, Applied, Abort, Goto, Release, IsInstall,
     files
<1>6. CASE SkillFiles /\ UNCHANGED damages
  BY <1>6, UpdateAssumption DEF TypeOK, Steps, Dirs, SkillFiles, Abort, Goto, Release, IsInstall
<1>7. CASE SkillManifest /\ UNCHANGED damages
  BY <1>7, UpdateAssumption DEF TypeOK, Steps, Dirs, SkillManifest, Abort, Goto, Release,
     IsInstall
<1>8. CASE SkillReuse /\ UNCHANGED damages
  BY <1>8, UpdateAssumption DEF TypeOK, Steps, SkillReuse, Abort, Goto, Release, IsInstall,
     files
<1>9. CASE SkillPointer /\ UNCHANGED damages
  BY <1>9, UpdateAssumption DEF TypeOK, Steps, SkillPointers, SkillPointer, Applied, Abort,
     Goto, Release, IsInstall, files
<1>10. CASE Place /\ UNCHANGED damages
  <2>1. coreFile' \in [Versions -> [Parts -> Dirs]]
    <3>1. CASE UNCHANGED coreFile
      BY <3>1 DEF TypeOK
    <3>2. CASE ~UNCHANGED coreFile
      <4>1. PICK p \in Parts : coreFile' = [coreFile EXCEPT ![ver][p] = "whole"]
        BY <1>10, <3>2 DEF Place
      <4> QED BY <4>1 DEF TypeOK, Dirs
    <3> QED BY <3>1, <3>2
  <2> QED
    BY <1>10, <2>1, UpdateAssumption DEF TypeOK, Steps, Place, Abort, Goto, Release, IsInstall
<1>11. CASE Point /\ UNCHANGED damages
  <2>1. txn \in Txns
    BY <1>11 DEF Point, RunShape
  <2>2. core' \in Pointers
    <3>1. CASE UNCHANGED core
      BY <3>1 DEF TypeOK
    <3>2. CASE ~UNCHANGED core
      <4>1. PICK p \in Parts : core' = [txn |-> txn, part |-> p, ver |-> ver]
        BY <1>11, <3>2 DEF Point
      <4> QED BY <2>1, <4>1, NewPointer DEF TypeOK
    <3> QED BY <3>1, <3>2
  <2>3. pending' \subseteq Parts /\ moveCore' \in BOOLEAN /\ pc' \in Steps
    BY <1>11 DEF TypeOK, Steps, Point, Abort, Goto, Release
  <2> QED BY <1>11, <2>2, <2>3, UpdateAssumption DEF TypeOK, Point, Abort, Goto, Release, files
<1>12. CASE CorePointer /\ UNCHANGED damages
  <2>1. txn \in Txns
    BY <1>12 DEF CorePointer, RunShape
  <2>2. core' \in Pointers
    <3>1. [txn |-> txn, part |-> 0, ver |-> ver] \in Pointers
      BY <2>1, NewPointer DEF TypeOK
    <3> QED BY <1>12, <3>1 DEF CorePointer, TypeOK
  <2>3. pc' \in Steps
    BY <1>12 DEF Steps, CorePointer, Applied, Abort, Goto, Release
  <2> QED BY <1>12, <2>2, <2>3, UpdateAssumption
          DEF TypeOK, CorePointer, Applied, Abort, Goto, Release, files
<1>13. CASE Activate /\ UNCHANGED damages
  <2>1. mem \in Journals /\ txn \in Txns
    BY <1>13 DEF Activate, TypeOK, RunShape, JournalSteps, Steps
  <2> DEFINE j == [mem EXCEPT !.state = "activated", !.actCore = core, !.actSkills = skills]
  <2>2. j \in Journals
    BY <2>1, ActivateUpdate DEF TypeOK
  <2> QED
    BY <1>13, UpdateAssumption, <2>1, <2>2 DEF TypeOK, Steps, Activate, Record, Abort, Goto,
       Release, IsInstall, files
<1>14. CASE Start /\ UNCHANGED damages
  BY <1>14, ServiceType, UpdateAssumption DEF TypeOK, Steps, Start, Goto, files
<1>15. CASE Finalize /\ UNCHANGED damages
  <2>1. mem \in Journals /\ txn \in Txns
    BY <1>15 DEF Finalize, TypeOK, RunShape, JournalSteps, Steps
  <2> DEFINE j == [mem EXCEPT !.state = "finalized"]
  <2>2. j \in Journals
    BY <2>1, StateUpdate DEF JournalStates, OpenStates
  <2>3. journal' \in [Txns -> Journals \cup {NoJournal}] /\ mem' \in Journals \cup {NoJournal}
    BY <1>15, <2>1, <2>2 DEF TypeOK, Finalize, Goto, Release, files
  <2> QED BY <1>15, <2>3, UpdateAssumption DEF TypeOK, Steps, Finalize, Goto, Release, files
<1>16. CASE UndoCore /\ UNCHANGED damages
  <2>1. mem \in Journals /\ txn \in Txns
    BY <1>16 DEF UndoCore, TypeOK, RunShape, JournalSteps, Steps
  <2> QED BY <1>16, UpdateAssumption, <2>1, JournalFields DEF TypeOK, Steps, UndoCore, Goto, files
<1>17. CASE UndoSkills /\ UNCHANGED damages
  <2>1. mem \in Journals /\ txn \in Txns
    BY <1>17 DEF UndoSkills, TypeOK, RunShape, JournalSteps, Steps
  <2> QED
    BY <1>17, UpdateAssumption, <2>1, JournalFields DEF TypeOK, Steps, UndoSkills, Goto, files
<1>18. CASE UndoJournal /\ UNCHANGED damages
  <2>1. mem \in Journals /\ txn \in Txns
    BY <1>18 DEF UndoJournal, TypeOK, RunShape, JournalSteps, Steps
  <2> DEFINE j == [mem EXCEPT !.state = "restored-after-service-failure"]
  <2>2. j \in Journals
    BY <2>1, StateUpdate DEF JournalStates, OpenStates
  <2> QED
    BY <1>18, UpdateAssumption, <2>1, <2>2 DEF TypeOK, Steps, UndoJournal, Record, Goto, files
<1>19. CASE FailJournal /\ UNCHANGED damages
  <2>1. mem \in Journals /\ txn \in Txns
    BY <1>19 DEF FailJournal, TypeOK, RunShape, JournalSteps, Steps
  <2> DEFINE j == [mem EXCEPT !.state = "service-recovery-required"]
  <2>2. j \in Journals
    BY <2>1, StateUpdate DEF JournalStates, OpenStates
  <2> QED
    BY <1>19, UpdateAssumption, <2>1, <2>2 DEF TypeOK, Steps, FailJournal, Record, Goto, files
<1>20. CASE UndoStart /\ UNCHANGED damages
  <2>1. service' \in [owned : BOOLEAN, on : Pointers \cup {Down}]
    BY <1>20, ServiceType DEF UndoStart, TypeOK
  <2> QED BY <1>20, <2>1, UpdateAssumption DEF TypeOK, Steps, UndoStart, Release, files
<1>21. ASSUME NEW t \in Txns, StartRollback(t), UNCHANGED damages
      PROVE  TypeOK'
  BY <1>21, JournalFields DEF TypeOK, Steps, StartRollback, RollbackAccepted, files
<1>22. CASE BackDrain /\ UNCHANGED damages
  BY <1>22, ServiceType, UpdateAssumption DEF TypeOK, Steps, BackDrain, Goto, Release, files
<1>23. CASE BackCore /\ UNCHANGED damages
  <2>1. mem \in Journals /\ txn \in Txns
    BY <1>23 DEF BackCore, TypeOK, RunShape, JournalSteps, Steps
  <2> QED
    BY <1>23, UpdateAssumption, <2>1, JournalFields DEF TypeOK, Steps, BackCore, Goto, Release,
       files
<1>24. CASE BackSkills /\ UNCHANGED damages
  <2>1. mem \in Journals /\ txn \in Txns
    BY <1>24 DEF BackSkills, TypeOK, RunShape, JournalSteps, Steps
  <2> QED
    BY <1>24, UpdateAssumption, <2>1, JournalFields DEF TypeOK, Steps, BackSkills, Goto,
       Release, files
<1>25. CASE BackJournal /\ UNCHANGED damages
  <2>1. mem \in Journals /\ txn \in Txns
    BY <1>25 DEF BackJournal, TypeOK, RunShape, JournalSteps, Steps
  <2> DEFINE j == [mem EXCEPT !.state = "restored-after-service-failure"]
  <2>2. j \in Journals
    BY <2>1, StateUpdate DEF JournalStates, OpenStates
  <2>3. journal' \in [Txns -> Journals \cup {NoJournal}] /\ mem' \in Journals \cup {NoJournal}
    BY <1>25, <2>1, <2>2 DEF TypeOK, BackJournal, Goto, Release, files
  <2> QED BY <1>25, <2>3, UpdateAssumption DEF TypeOK, Steps, BackJournal, Goto, Release, files
<1>26. CASE BackStart /\ UNCHANGED damages
  <2>1. service' \in [owned : BOOLEAN, on : Pointers \cup {Down}]
    BY <1>26, ServiceType DEF BackStart, TypeOK
  <2> QED BY <1>26, <2>1, UpdateAssumption DEF TypeOK, Steps, BackStart, Goto, Release, files
<1>27. CASE RedoCore /\ UNCHANGED damages
  <2>1. mem \in Journals /\ txn \in Txns
    BY <1>27 DEF RedoCore, TypeOK, RunShape, JournalSteps, Steps
  <2>2. mem.actCore \in Pointers
    BY <1>27, <2>1, JournalFields DEF RedoCore, RunShape, JournalSteps, Steps, Owning,
       JournalsSound, Sound
  <2> QED
    BY <1>27, UpdateAssumption, <2>1, <2>2, JournalFields DEF TypeOK, Steps, RedoCore, Goto,
       Release, files
<1>28. CASE RedoSkills /\ UNCHANGED damages
  <2>1. mem \in Journals /\ txn \in Txns
    BY <1>28 DEF RedoSkills, TypeOK, RunShape, JournalSteps, Steps
  <2> QED
    BY <1>28, UpdateAssumption, <2>1, JournalFields DEF TypeOK, Steps, RedoSkills, Goto,
       Release, files
<1>29. CASE Close /\ UNCHANGED damages
  <2>1. mem \in Journals /\ txn \in Txns
    BY <1>29 DEF Close, TypeOK, RunShape, JournalSteps, Steps
  <2> DEFINE j == [mem EXCEPT !.state = "rolled-back"]
  <2>2. j \in Journals
    BY <2>1, StateUpdate DEF JournalStates, OpenStates
  <2> QED BY <1>29, UpdateAssumption, <2>1, <2>2 DEF TypeOK, Steps, Close, Release, files
<1>30. CASE Crash /\ UNCHANGED damages
  BY <1>30, UpdateAssumption DEF TypeOK, Steps, Crash, Release, files
<1>31. CASE OperateService /\ UNCHANGED damages
  BY <1>31, ServiceType, UpdateAssumption DEF TypeOK, Steps, OperateService, files, run
<1>32. CASE Damage
  BY <1>32, UpdateAssumption DEF TypeOK, Steps, Dirs, Damage, run
<1>33. CASE UNCHANGED vars
  BY <1>33 DEF TypeOK, vars, files, run
<1> QED BY <1>1, <1>2, <1>3, <1>4, <1>5, <1>6, <1>7, <1>8, <1>9, <1>10, <1>11, <1>12, <1>13,
   <1>14, <1>15, <1>16, <1>17, <1>18, <1>19, <1>20, <1>21, <1>22, <1>23, <1>24, <1>25, <1>26,
   <1>27, <1>28, <1>29, <1>30, <1>31, <1>32, <1>33 DEF Next, Apply, Recover, Rollback

(* Only an operation with a transaction has a journal, and it is the one on disk. *)
LEMMA RunShapeStep ==
    ASSUME TypeOK, RunShape, [Next]_vars
    PROVE  RunShape'
<1>1. ASSUME NEW t \in Txns, NEW v \in Versions, StartUpdate(t, v)
      PROVE  RunShape'
  <2> DEFINE j == [state |-> "prepared", target |-> v, owned |-> service.owned,
                   prevCore |-> core, prevSkills |-> skills, prevDir |-> DirOf(skills),
                   actCore |-> NoPointer, actSkills |-> NoSkills]
  <2>2. /\ j \in Journals /\ j.state = "prepared" /\ j.target = v /\ j.owned = service.owned
        /\ j.prevCore = core /\ j.prevSkills = skills /\ j.actCore = NoPointer
    BY DEF TypeOK, Journals, JournalStates, OpenStates, DirOf, SkillPointers, Dirs
  <2>3. mem' = j /\ journal' = [journal EXCEPT ![t] = j]
    BY <1>1 DEF StartUpdate
  <2> HIDE DEF j
  <2> QED
    BY <1>1, <2>2, <2>3, UpdateAssumption DEF TypeOK, RunShape, JournalSteps, Steps,
       SameUpdate, StartUpdate, files
<1>2. ASSUME NEW t \in Txns, NEW v \in Versions, StartInstall(t, v)
      PROVE  RunShape'
  BY <1>2, UpdateAssumption DEF TypeOK, RunShape, JournalSteps, Steps, SameUpdate, StartInstall,
     files
<1>3. CASE Drain
  BY <1>3, UpdateAssumption DEF TypeOK, RunShape, JournalSteps, Steps, SameUpdate, Drain, Goto,
     Drained, DrainFailed, files
<1>4. CASE Stage
  BY <1>4, UpdateAssumption DEF TypeOK, RunShape, JournalSteps, Steps, SameUpdate, Stage, Goto,
     Release, IsInstall, files
<1>5. CASE Check
  BY <1>5, UpdateAssumption DEF TypeOK, RunShape, JournalSteps, Steps, SameUpdate, Check,
     Applied, Abort, Goto, Release, IsInstall, files
<1>6. CASE SkillFiles
  BY <1>6, UpdateAssumption DEF TypeOK, RunShape, JournalSteps, Steps, SameUpdate, SkillFiles,
     Abort, Goto, Release, IsInstall
<1>7. CASE SkillManifest
  BY <1>7, UpdateAssumption DEF TypeOK, RunShape, JournalSteps, Steps, SameUpdate,
     SkillManifest, Abort, Goto, Release, IsInstall
<1>8. CASE SkillReuse
  BY <1>8, UpdateAssumption DEF TypeOK, RunShape, JournalSteps, Steps, SameUpdate, SkillReuse,
     Abort, Goto, Release, IsInstall, files
<1>9. CASE SkillPointer
  BY <1>9, UpdateAssumption DEF TypeOK, RunShape, JournalSteps, Steps, SameUpdate, SkillPointer,
     Applied, Abort, Goto, Release, IsInstall, files
<1>10. CASE Place
  BY <1>10, UpdateAssumption DEF TypeOK, RunShape, JournalSteps, Steps, SameUpdate, Place,
     Abort, Goto, Release, IsInstall
<1>11. CASE Point
  BY <1>11, UpdateAssumption DEF TypeOK, RunShape, JournalSteps, Steps, SameUpdate, Point,
     Abort, Goto, Release, IsInstall, files
<1>12. CASE CorePointer
  BY <1>12, UpdateAssumption DEF TypeOK, RunShape, JournalSteps, Steps, SameUpdate, CorePointer,
     Applied, Abort, Goto, Release, IsInstall, files
<1>13. CASE Activate
  <2>1. mem \in Journals /\ txn \in Txns
    BY <1>13 DEF Activate, TypeOK, RunShape, JournalSteps, Steps
  <2> DEFINE j == [mem EXCEPT !.state = "activated", !.actCore = core, !.actSkills = skills]
  <2>2. /\ j \in Journals /\ j.state = "activated" /\ SameUpdate(mem, j)
        /\ j.actCore = core /\ j.actSkills = skills
    <3>1. core \in Pointers /\ skills \in SkillPointers
      BY DEF TypeOK
    <3> QED BY <2>1, <3>1 DEF Journals, JournalStates, OpenStates, SameUpdate
  <2>3. \/ /\ mem' = j /\ journal' = [journal EXCEPT ![txn] = j]
           /\ Goto(IF mem.owned THEN "start" ELSE "finalize")
        \/ mem' = j /\ Goto("undoCore") /\ UNCHANGED journal
        \/ Abort /\ UNCHANGED journal
    BY <1>13 DEF Activate, Record
  <2> HIDE DEF j
  <2> QED
    BY <1>13, <2>2, <2>3, <2>1, UpdateAssumption DEF TypeOK, RunShape, JournalSteps, Steps,
       SameUpdate, Activate, Abort, Goto, Release, IsInstall, files
<1>14. CASE Start
  BY <1>14, UpdateAssumption DEF TypeOK, RunShape, JournalSteps, Steps, SameUpdate, Start, Goto,
     Reinstalled, ReinstallFailed, files
<1>15. CASE Finalize
  <2>1. mem \in Journals /\ txn \in Txns
    BY <1>15 DEF Finalize, TypeOK, RunShape, JournalSteps, Steps
  <2> DEFINE j == [mem EXCEPT !.state = "finalized"]
  <2>2. /\ j \in Journals /\ j.state = "finalized" /\ SameUpdate(mem, j)
        /\ j.actCore = mem.actCore /\ j.actSkills = mem.actSkills
    BY <2>1, StateUpdate DEF JournalStates, OpenStates
  <2>3. \/ journal' = [journal EXCEPT ![txn] = j] /\ Release
        \/ mem' = j /\ Goto("undoCore") /\ UNCHANGED journal
    BY <1>15 DEF Finalize
  <2> HIDE DEF j
  <2> QED
    BY <1>15, <2>2, <2>3, <2>1, UpdateAssumption DEF TypeOK, RunShape, JournalSteps, Steps,
       SameUpdate, Finalize, Goto, Release, files
<1>16. CASE UndoCore
  BY <1>16, UpdateAssumption DEF TypeOK, RunShape, JournalSteps, Steps, SameUpdate, UndoCore,
     Goto, files
<1>17. CASE UndoSkills
  BY <1>17, UpdateAssumption DEF TypeOK, RunShape, JournalSteps, Steps, SameUpdate, UndoSkills,
     Goto, files
<1>18. CASE UndoJournal
  <2>1. mem \in Journals /\ txn \in Txns
    BY <1>18 DEF UndoJournal, TypeOK, RunShape, JournalSteps, Steps
  <2> DEFINE j == [mem EXCEPT !.state = "restored-after-service-failure"]
  <2>2. /\ j \in Journals /\ j.state = "restored-after-service-failure" /\ SameUpdate(mem, j)
        /\ j.actCore = mem.actCore /\ j.actSkills = mem.actSkills
    BY <2>1, StateUpdate DEF JournalStates, OpenStates
  <2>3. \/ mem' = j /\ journal' = [journal EXCEPT ![txn] = j] /\ Goto("undoStart")
        \/ mem' = j /\ Goto("undoStart") /\ UNCHANGED journal
    BY <1>18 DEF UndoJournal, Record
  <2> HIDE DEF j
  <2> QED
    BY <1>18, <2>2, <2>3, <2>1, UpdateAssumption DEF TypeOK, RunShape, JournalSteps, Steps,
       SameUpdate, UndoJournal, Goto, files
<1>19. CASE FailJournal
  <2>1. mem \in Journals /\ txn \in Txns
    BY <1>19 DEF FailJournal, TypeOK, RunShape, JournalSteps, Steps
  <2> DEFINE j == [mem EXCEPT !.state = "service-recovery-required"]
  <2>2. /\ j \in Journals /\ j.state = "service-recovery-required" /\ SameUpdate(mem, j)
        /\ j.actCore = mem.actCore /\ j.actSkills = mem.actSkills
    BY <2>1, StateUpdate DEF JournalStates, OpenStates
  <2>3. \/ mem' = j /\ journal' = [journal EXCEPT ![txn] = j] /\ Goto("undoStart")
        \/ mem' = j /\ Goto("undoStart") /\ UNCHANGED journal
    BY <1>19 DEF FailJournal, Record
  <2> HIDE DEF j
  <2> QED
    BY <1>19, <2>2, <2>3, <2>1, UpdateAssumption DEF TypeOK, RunShape, JournalSteps, Steps,
       SameUpdate, FailJournal, Goto, files
<1>20. CASE UndoStart
  BY <1>20, UpdateAssumption DEF TypeOK, RunShape, JournalSteps, Steps, SameUpdate, UndoStart,
     Release, Reinstalled, ReinstallFailed, files
<1>21. ASSUME NEW t \in Txns, StartRollback(t)
      PROVE  RunShape'
  BY <1>21, UpdateAssumption DEF TypeOK, RunShape, JournalSteps, Steps, SameUpdate,
     StartRollback, RollbackAccepted, files
<1>22. CASE BackDrain
  BY <1>22, UpdateAssumption DEF TypeOK, RunShape, JournalSteps, Steps, SameUpdate, BackDrain,
     Goto, Release, Drained, DrainFailed, files
<1>23. CASE BackCore
  BY <1>23, UpdateAssumption DEF TypeOK, RunShape, JournalSteps, Steps, SameUpdate, BackCore,
     Goto, Release, files
<1>24. CASE BackSkills
  BY <1>24, UpdateAssumption DEF TypeOK, RunShape, JournalSteps, Steps, SameUpdate, BackSkills,
     Goto, Release, files
<1>25. CASE BackJournal
  <2>1. mem \in Journals /\ txn \in Txns
    BY <1>25 DEF BackJournal, TypeOK, RunShape, JournalSteps, Steps
  <2> DEFINE j == [mem EXCEPT !.state = "restored-after-service-failure"]
  <2>2. /\ j \in Journals /\ j.state = "restored-after-service-failure" /\ SameUpdate(mem, j)
        /\ j.actCore = mem.actCore /\ j.actSkills = mem.actSkills
    BY <2>1, StateUpdate DEF JournalStates, OpenStates
  <2>3. \/ mem' = j /\ journal' = [journal EXCEPT ![txn] = j] /\ Goto("backStart")
        \/ UNCHANGED journal /\ Release
    BY <1>25 DEF BackJournal
  <2> HIDE DEF j
  <2> QED
    BY <1>25, <2>2, <2>3, <2>1, UpdateAssumption DEF TypeOK, RunShape, JournalSteps, Steps,
       SameUpdate, BackJournal, Goto, Release, files
<1>26. CASE BackStart
  BY <1>26, UpdateAssumption DEF TypeOK, RunShape, JournalSteps, Steps, SameUpdate, BackStart,
     Goto, Release, Reinstalled, ReinstallFailed, files
<1>27. CASE RedoCore
  BY <1>27, UpdateAssumption DEF TypeOK, RunShape, JournalSteps, Steps, SameUpdate, RedoCore,
     Goto, Release, files
<1>28. CASE RedoSkills
  BY <1>28, UpdateAssumption DEF TypeOK, RunShape, JournalSteps, Steps, SameUpdate, RedoSkills,
     Goto, Release, files
<1>29. CASE Close
  <2>1. mem \in Journals /\ txn \in Txns
    BY <1>29 DEF Close, TypeOK, RunShape, JournalSteps, Steps
  <2> DEFINE j == [mem EXCEPT !.state = "rolled-back"]
  <2>2. /\ j \in Journals /\ j.state = "rolled-back" /\ SameUpdate(mem, j)
        /\ j.actCore = mem.actCore /\ j.actSkills = mem.actSkills
    BY <2>1, StateUpdate DEF JournalStates, OpenStates
  <2>3. \/ journal' = journal /\ Release
        \/ journal' = [journal EXCEPT ![txn] = j] /\ Release
    BY <1>29 DEF Close
  <2> HIDE DEF j
  <2> QED
    BY <1>29, <2>2, <2>3, <2>1, UpdateAssumption DEF TypeOK, RunShape, JournalSteps, Steps,
       SameUpdate, Close, Release, files
<1>30. CASE Crash
  BY <1>30, UpdateAssumption DEF TypeOK, RunShape, JournalSteps, Steps, SameUpdate, Crash,
     Release, files
<1>31. CASE OperateService
  BY <1>31, UpdateAssumption DEF TypeOK, RunShape, JournalSteps, Steps, SameUpdate,
     OperateService, Drained, Reinstalled, files, run
<1>32. CASE Damage
  BY <1>32, UpdateAssumption DEF TypeOK, RunShape, JournalSteps, Steps, SameUpdate, Damage, run
<1>33. CASE UNCHANGED vars
  BY <1>33 DEF RunShape, vars, files, run
<1> QED BY <1>1, <1>2, <1>3, <1>4, <1>5, <1>6, <1>7, <1>8, <1>9, <1>10, <1>11, <1>12, <1>13,
   <1>14, <1>15, <1>16, <1>17, <1>18, <1>19, <1>20, <1>21, <1>22, <1>23, <1>24, <1>25, <1>26,
   <1>27, <1>28, <1>29, <1>30, <1>31, <1>32, <1>33 DEF Next, Apply, Recover, Rollback

(* What a journal calls activated is what its update wrote, or found. *)
LEMMA JournalsStep ==
    ASSUME TypeOK, RunShape, JournalsSound, Owning, [Next]_vars
    PROVE  JournalsSound'
<1>1. ASSUME NEW t \in Txns, NEW v \in Versions, StartUpdate(t, v)
      PROVE  JournalsSound'
  <2> DEFINE j == [state |-> "prepared", target |-> v, owned |-> service.owned,
                   prevCore |-> core, prevSkills |-> skills, prevDir |-> DirOf(skills),
                   actCore |-> NoPointer, actSkills |-> NoSkills]
  <2>2. /\ j \in Journals /\ j.state = "prepared" /\ j.target = v /\ j.owned = service.owned
        /\ j.prevCore = core /\ j.prevSkills = skills /\ j.actCore = NoPointer
    BY DEF TypeOK, Journals, JournalStates, OpenStates, DirOf, SkillPointers, Dirs
  <2>3. mem' = j /\ journal' = [journal EXCEPT ![t] = j]
    BY <1>1 DEF StartUpdate
  <2> HIDE DEF j
  <2> QED
    BY <1>1, <2>2, <2>3, UpdateAssumption DEF TypeOK, RunShape, JournalsSound, Sound, Owning,
       SameUpdate, StartUpdate, files
<1>2. ASSUME NEW t \in Txns, NEW v \in Versions, StartInstall(t, v)
      PROVE  JournalsSound'
  BY <1>2 DEF RunShape, JournalsSound, Sound, StartInstall, files
<1>3. CASE Drain
  BY <1>3 DEF RunShape, JournalsSound, Sound, Drain, Goto, Drained, DrainFailed, files
<1>4. CASE Stage
  BY <1>4 DEF RunShape, JournalsSound, Sound, Stage, Goto, Release, IsInstall, files
<1>5. CASE Check
  BY <1>5 DEF RunShape, JournalsSound, Sound, Check, Applied, Abort, Goto, Release, IsInstall,
     files
<1>6. CASE SkillFiles
  BY <1>6 DEF RunShape, JournalsSound, Sound, SkillFiles, Abort, Goto, Release, IsInstall
<1>7. CASE SkillManifest
  BY <1>7 DEF RunShape, JournalsSound, Sound, SkillManifest, Abort, Goto, Release, IsInstall
<1>8. CASE SkillReuse
  BY <1>8 DEF RunShape, JournalsSound, Sound, SkillReuse, Abort, Goto, Release, IsInstall, files
<1>9. CASE SkillPointer
  BY <1>9 DEF RunShape, JournalsSound, Sound, SkillPointer, Applied, Abort, Goto, Release,
     IsInstall, files
<1>10. CASE Place
  BY <1>10 DEF RunShape, JournalsSound, Sound, Place, Abort, Goto, Release, IsInstall
<1>11. CASE Point
  BY <1>11 DEF RunShape, JournalsSound, Sound, Point, Abort, Goto, Release, IsInstall, files
<1>12. CASE CorePointer
  BY <1>12 DEF RunShape, JournalsSound, Sound, CorePointer, Applied, Abort, Goto, Release,
     IsInstall, files
<1>13. CASE Activate
  <2>1. mem \in Journals /\ txn \in Txns
    BY <1>13 DEF Activate, TypeOK, RunShape, JournalSteps, Steps
  <2> DEFINE j == [mem EXCEPT !.state = "activated", !.actCore = core, !.actSkills = skills]
  <2>2. /\ j \in Journals /\ j.state = "activated" /\ SameUpdate(mem, j)
        /\ j.actCore = core /\ j.actSkills = skills
    <3>1. core \in Pointers /\ skills \in SkillPointers
      BY DEF TypeOK
    <3> QED BY <2>1, <3>1 DEF Journals, JournalStates, OpenStates, SameUpdate
  <2>3. \/ /\ mem' = j /\ journal' = [journal EXCEPT ![txn] = j]
           /\ Goto(IF mem.owned THEN "start" ELSE "finalize")
        \/ mem' = j /\ Goto("undoCore") /\ UNCHANGED journal
        \/ Abort /\ UNCHANGED journal
    BY <1>13 DEF Activate, Record
  <2> HIDE DEF j
  <2> QED
    BY <1>13, <2>2, <2>3, <2>1, UpdateAssumption DEF TypeOK, RunShape, JournalsSound, Sound,
       Owning, SameUpdate, Activate, Abort, Goto, Release, IsInstall, files
<1>14. CASE Start
  BY <1>14 DEF RunShape, JournalsSound, Sound, Start, Goto, Reinstalled, ReinstallFailed, files
<1>15. CASE Finalize
  <2>1. mem \in Journals /\ txn \in Txns
    BY <1>15 DEF Finalize, TypeOK, RunShape, JournalSteps, Steps
  <2> DEFINE j == [mem EXCEPT !.state = "finalized"]
  <2>2. /\ j \in Journals /\ j.state = "finalized" /\ SameUpdate(mem, j)
        /\ j.actCore = mem.actCore /\ j.actSkills = mem.actSkills
    BY <2>1, StateUpdate DEF JournalStates, OpenStates
  <2>3. \/ journal' = [journal EXCEPT ![txn] = j] /\ Release
        \/ mem' = j /\ Goto("undoCore") /\ UNCHANGED journal
    BY <1>15 DEF Finalize
  <2> HIDE DEF j
  <2> QED
    BY <1>15, <2>2, <2>3, <2>1, UpdateAssumption DEF TypeOK, RunShape, JournalsSound, Sound,
       Owning, SameUpdate, Finalize, Goto, Release, files
<1>16. CASE UndoCore
  BY <1>16 DEF RunShape, JournalsSound, Sound, UndoCore, Goto, files
<1>17. CASE UndoSkills
  BY <1>17 DEF RunShape, JournalsSound, Sound, UndoSkills, Goto, files
<1>18. CASE UndoJournal
  <2>1. mem \in Journals /\ txn \in Txns
    BY <1>18 DEF UndoJournal, TypeOK, RunShape, JournalSteps, Steps
  <2> DEFINE j == [mem EXCEPT !.state = "restored-after-service-failure"]
  <2>2. /\ j \in Journals /\ j.state = "restored-after-service-failure" /\ SameUpdate(mem, j)
        /\ j.actCore = mem.actCore /\ j.actSkills = mem.actSkills
    BY <2>1, StateUpdate DEF JournalStates, OpenStates
  <2>3. \/ mem' = j /\ journal' = [journal EXCEPT ![txn] = j] /\ Goto("undoStart")
        \/ mem' = j /\ Goto("undoStart") /\ UNCHANGED journal
    BY <1>18 DEF UndoJournal, Record
  <2> HIDE DEF j
  <2> QED
    BY <1>18, <2>2, <2>3, <2>1, UpdateAssumption DEF TypeOK, RunShape, JournalsSound, Sound,
       Owning, SameUpdate, UndoJournal, Goto, files
<1>19. CASE FailJournal
  <2>1. mem \in Journals /\ txn \in Txns
    BY <1>19 DEF FailJournal, TypeOK, RunShape, JournalSteps, Steps
  <2> DEFINE j == [mem EXCEPT !.state = "service-recovery-required"]
  <2>2. /\ j \in Journals /\ j.state = "service-recovery-required" /\ SameUpdate(mem, j)
        /\ j.actCore = mem.actCore /\ j.actSkills = mem.actSkills
    BY <2>1, StateUpdate DEF JournalStates, OpenStates
  <2>3. \/ mem' = j /\ journal' = [journal EXCEPT ![txn] = j] /\ Goto("undoStart")
        \/ mem' = j /\ Goto("undoStart") /\ UNCHANGED journal
    BY <1>19 DEF FailJournal, Record
  <2> HIDE DEF j
  <2> QED
    BY <1>19, <2>2, <2>3, <2>1, UpdateAssumption DEF TypeOK, RunShape, JournalsSound, Sound,
       Owning, SameUpdate, FailJournal, Goto, files
<1>20. CASE UndoStart
  BY <1>20 DEF RunShape, JournalsSound, Sound, UndoStart, Release, Reinstalled, ReinstallFailed,
     files
<1>21. ASSUME NEW t \in Txns, StartRollback(t)
      PROVE  JournalsSound'
  BY <1>21 DEF RunShape, JournalsSound, Sound, StartRollback, RollbackAccepted, files
<1>22. CASE BackDrain
  BY <1>22 DEF RunShape, JournalsSound, Sound, BackDrain, Goto, Release, Drained, DrainFailed,
     files
<1>23. CASE BackCore
  BY <1>23 DEF RunShape, JournalsSound, Sound, BackCore, Goto, Release, files
<1>24. CASE BackSkills
  BY <1>24 DEF RunShape, JournalsSound, Sound, BackSkills, Goto, Release, files
<1>25. CASE BackJournal
  <2>1. mem \in Journals /\ txn \in Txns
    BY <1>25 DEF BackJournal, TypeOK, RunShape, JournalSteps, Steps
  <2> DEFINE j == [mem EXCEPT !.state = "restored-after-service-failure"]
  <2>2. /\ j \in Journals /\ j.state = "restored-after-service-failure" /\ SameUpdate(mem, j)
        /\ j.actCore = mem.actCore /\ j.actSkills = mem.actSkills
    BY <2>1, StateUpdate DEF JournalStates, OpenStates
  <2>3. \/ mem' = j /\ journal' = [journal EXCEPT ![txn] = j] /\ Goto("backStart")
        \/ UNCHANGED journal /\ Release
    BY <1>25 DEF BackJournal
  <2> HIDE DEF j
  <2> QED
    BY <1>25, <2>2, <2>3, <2>1, UpdateAssumption DEF TypeOK, RunShape, JournalsSound, Sound,
       Owning, SameUpdate, BackJournal, Goto, Release, files
<1>26. CASE BackStart
  BY <1>26 DEF RunShape, JournalsSound, Sound, BackStart, Goto, Release, Reinstalled,
     ReinstallFailed, files
<1>27. CASE RedoCore
  BY <1>27 DEF RunShape, JournalsSound, Sound, RedoCore, Goto, Release, files
<1>28. CASE RedoSkills
  BY <1>28 DEF RunShape, JournalsSound, Sound, RedoSkills, Goto, Release, files
<1>29. CASE Close
  <2>1. mem \in Journals /\ txn \in Txns
    BY <1>29 DEF Close, TypeOK, RunShape, JournalSteps, Steps
  <2> DEFINE j == [mem EXCEPT !.state = "rolled-back"]
  <2>2. /\ j \in Journals /\ j.state = "rolled-back" /\ SameUpdate(mem, j)
        /\ j.actCore = mem.actCore /\ j.actSkills = mem.actSkills
    BY <2>1, StateUpdate DEF JournalStates, OpenStates
  <2>3. \/ journal' = journal /\ Release
        \/ journal' = [journal EXCEPT ![txn] = j] /\ Release
    BY <1>29 DEF Close
  <2> HIDE DEF j
  <2> QED
    BY <1>29, <2>2, <2>3, <2>1, UpdateAssumption DEF TypeOK, RunShape, JournalsSound, Sound,
       Owning, SameUpdate, Close, Release, files
<1>30. CASE Crash
  BY <1>30 DEF RunShape, JournalsSound, Sound, Crash, Release, files
<1>31. CASE OperateService
  BY <1>31 DEF RunShape, JournalsSound, Sound, OperateService, Drained, Reinstalled, files, run
<1>32. CASE Damage
  BY <1>32 DEF RunShape, JournalsSound, Sound, Damage, run
<1>33. CASE UNCHANGED vars
  BY <1>33 DEF JournalsSound, Sound, vars, files, run
<1> QED BY <1>1, <1>2, <1>3, <1>4, <1>5, <1>6, <1>7, <1>8, <1>9, <1>10, <1>11, <1>12, <1>13,
   <1>14, <1>15, <1>16, <1>17, <1>18, <1>19, <1>20, <1>21, <1>22, <1>23, <1>24, <1>25, <1>26,
   <1>27, <1>28, <1>29, <1>30, <1>31, <1>32, <1>33 DEF Next, Apply, Recover, Rollback

(* No step takes a payload away. *)
LEMMA FilesStep ==
    ASSUME TypeOK, Moving, [Next]_vars
    PROVE  Grows(coreFile, coreFile') /\ SkillsGrow(skillDir, skillDir')
<1>1. ASSUME NEW t \in Txns, NEW v \in Versions, StartUpdate(t, v)
      PROVE  Grows(coreFile, coreFile') /\ SkillsGrow(skillDir, skillDir')
  BY <1>1 DEF Grows, SkillsGrow, StartUpdate, files
<1>2. ASSUME NEW t \in Txns, NEW v \in Versions, StartInstall(t, v)
      PROVE  Grows(coreFile, coreFile') /\ SkillsGrow(skillDir, skillDir')
  BY <1>2 DEF Grows, SkillsGrow, StartInstall, files
<1>3. CASE Drain
  BY <1>3 DEF Grows, SkillsGrow, Drain, Goto, Drained, DrainFailed, files
<1>4. CASE Stage
  BY <1>4 DEF Grows, SkillsGrow, Stage, Goto, Release, IsInstall, files
<1>5. CASE Check
  BY <1>5 DEF Grows, SkillsGrow, Check, Applied, Abort, Goto, Release, IsInstall, files
<1>6. CASE SkillFiles
  BY <1>6 DEF Grows, SkillsGrow, Moving, TypeOK, Placed, SkillFiles
<1>7. CASE SkillManifest
  BY <1>7 DEF Grows, SkillsGrow, TypeOK, Placed, SkillManifest
<1>8. CASE SkillReuse
  BY <1>8 DEF Grows, SkillsGrow, SkillReuse, Abort, Goto, Release, IsInstall, files
<1>9. CASE SkillPointer
  BY <1>9 DEF Grows, SkillsGrow, SkillPointer, Applied, Abort, Goto, Release, IsInstall, files
<1>10. CASE Place
  <2>1. CASE UNCHANGED coreFile
    BY <1>10, <2>1 DEF Place, Grows, SkillsGrow
  <2>2. CASE ~UNCHANGED coreFile
    <3>1. PICK p \in Parts : coreFile' = [coreFile EXCEPT ![ver][p] = "whole"]
      BY <1>10, <2>2 DEF Place
    <3> QED BY <1>10, <3>1 DEF Place, TypeOK, Grows, SkillsGrow
  <2> QED BY <2>1, <2>2
<1>11. CASE Point
  BY <1>11 DEF Grows, SkillsGrow, Point, Abort, Goto, Release, IsInstall, files
<1>12. CASE CorePointer
  BY <1>12 DEF Grows, SkillsGrow, CorePointer, Applied, Abort, Goto, Release, IsInstall, files
<1>13. CASE Activate
  BY <1>13 DEF Grows, SkillsGrow, Activate, Record, Abort, Goto, Release, IsInstall, files
<1>14. CASE Start
  BY <1>14 DEF Grows, SkillsGrow, Start, Goto, Reinstalled, ReinstallFailed, files
<1>15. CASE Finalize
  BY <1>15 DEF Grows, SkillsGrow, Finalize, Goto, Release, files
<1>16. CASE UndoCore
  BY <1>16 DEF Grows, SkillsGrow, UndoCore, Goto, files
<1>17. CASE UndoSkills
  BY <1>17 DEF Grows, SkillsGrow, UndoSkills, Goto, files
<1>18. CASE UndoJournal
  BY <1>18 DEF Grows, SkillsGrow, UndoJournal, Record, Goto, files
<1>19. CASE FailJournal
  BY <1>19 DEF Grows, SkillsGrow, FailJournal, Record, Goto, files
<1>20. CASE UndoStart
  BY <1>20 DEF Grows, SkillsGrow, UndoStart, Release, Reinstalled, ReinstallFailed, files
<1>21. ASSUME NEW t \in Txns, StartRollback(t)
      PROVE  Grows(coreFile, coreFile') /\ SkillsGrow(skillDir, skillDir')
  BY <1>21 DEF Grows, SkillsGrow, StartRollback, RollbackAccepted, files
<1>22. CASE BackDrain
  BY <1>22 DEF Grows, SkillsGrow, BackDrain, Goto, Release, Drained, DrainFailed, files
<1>23. CASE BackCore
  BY <1>23 DEF Grows, SkillsGrow, BackCore, Goto, Release, files
<1>24. CASE BackSkills
  BY <1>24 DEF Grows, SkillsGrow, BackSkills, Goto, Release, files
<1>25. CASE BackJournal
  BY <1>25 DEF Grows, SkillsGrow, BackJournal, Goto, Release, files
<1>26. CASE BackStart
  BY <1>26 DEF Grows, SkillsGrow, BackStart, Goto, Release, Reinstalled, ReinstallFailed, files
<1>27. CASE RedoCore
  BY <1>27 DEF Grows, SkillsGrow, RedoCore, Goto, Release, files
<1>28. CASE RedoSkills
  BY <1>28 DEF Grows, SkillsGrow, RedoSkills, Goto, Release, files
<1>29. CASE Close
  BY <1>29 DEF Grows, SkillsGrow, Close, Release, files
<1>30. CASE Crash
  BY <1>30 DEF Grows, SkillsGrow, Crash, Release, files
<1>31. CASE OperateService
  BY <1>31 DEF Grows, SkillsGrow, OperateService, Drained, Reinstalled, files, run
<1>32. CASE Damage
  <2>1. ASSUME NEW v \in Versions, NEW p \in Parts,
               coreFile' = [coreFile EXCEPT ![v][p] = "damaged"], UNCHANGED skillDir
        PROVE  Grows(coreFile, coreFile') /\ SkillsGrow(skillDir, skillDir')
    BY <2>1 DEF TypeOK, Grows, SkillsGrow
  <2>2. ASSUME NEW v \in Versions,
               skillDir' = [skillDir EXCEPT ![v] = "damaged"], UNCHANGED coreFile
        PROVE  Grows(coreFile, coreFile') /\ SkillsGrow(skillDir, skillDir')
    BY <2>2 DEF TypeOK, Grows, SkillsGrow, Placed
  <2> QED BY <1>32, <2>1, <2>2 DEF Damage
<1>33. CASE UNCHANGED vars
  BY <1>33 DEF Grows, SkillsGrow, vars, files, run
<1> QED BY <1>1, <1>2, <1>3, <1>4, <1>5, <1>6, <1>7, <1>8, <1>9, <1>10, <1>11, <1>12, <1>13,
   <1>14, <1>15, <1>16, <1>17, <1>18, <1>19, <1>20, <1>21, <1>22, <1>23, <1>24, <1>25, <1>26,
   <1>27, <1>28, <1>29, <1>30, <1>31, <1>32, <1>33 DEF Next, Apply, Recover, Rollback

(* Every pointer, on disk or in a journal, keeps the payloads it names. *)
LEMMA PayloadsStep ==
    ASSUME IInv, [Next]_vars
    PROVE  PayloadInv'
<1>. USE DEF IInv, PayloadInv
<1>1. /\ \A c \in Pointers : HasCore(coreFile, c) => HasCore(coreFile', c)
      /\ \A s \in SkillPointers : HasSkills(skillDir, s) => HasSkills(skillDir', s)
      /\ \A j \in Journals :
            Kept(coreFile, skillDir, j) => Kept(coreFile', skillDir', j)
  BY FilesStep, KeptCore, KeptSkills, KeptJournal
<1>2. ASSUME NEW t \in Txns, NEW v \in Versions, StartUpdate(t, v)
      PROVE  PayloadInv'
  <2> DEFINE j == [state |-> "prepared", target |-> v, owned |-> service.owned,
                   prevCore |-> core, prevSkills |-> skills, prevDir |-> DirOf(skills),
                   actCore |-> NoPointer, actSkills |-> NoSkills]
  <2>2. /\ j \in Journals /\ j.state = "prepared" /\ j.target = v /\ j.owned = service.owned
        /\ j.prevCore = core /\ j.prevSkills = skills /\ j.actCore = NoPointer
    BY DEF TypeOK, Journals, JournalStates, OpenStates, DirOf, SkillPointers, Dirs
  <2>3. mem' = j /\ journal' = [journal EXCEPT ![t] = j]
    BY <1>2 DEF StartUpdate
  <2> HIDE DEF j
  <2> QED
    BY <1>2, <2>2, <2>3, <1>1 DEF TypeOK, RunShape, Kept, StartUpdate, files
<1>3. ASSUME NEW t \in Txns, NEW v \in Versions, StartInstall(t, v)
      PROVE  PayloadInv'
  BY <1>3, <1>1 DEF RunShape, TypeOK, StartInstall, files
<1>4. CASE Drain
  BY <1>4, <1>1 DEF RunShape, TypeOK, Drain, Goto, Drained, DrainFailed, files
<1>5. CASE Stage
  BY <1>5, <1>1 DEF RunShape, TypeOK, Stage, Goto, Release, IsInstall, files
<1>6. CASE Check
  BY <1>6, <1>1 DEF RunShape, TypeOK, Check, Applied, Abort, Goto, Release, IsInstall, files
<1>7. CASE SkillFiles
  BY <1>7, <1>1 DEF RunShape, TypeOK, SkillFiles, Abort, Goto, Release, IsInstall
<1>8. CASE SkillManifest
  BY <1>8, <1>1 DEF RunShape, TypeOK, SkillManifest, Abort, Goto, Release, IsInstall
<1>9. CASE SkillReuse
  BY <1>9, <1>1 DEF RunShape, TypeOK, SkillReuse, Abort, Goto, Release, IsInstall, files
<1>10. CASE SkillPointer
  <2>1. HasSkills(skillDir', skills')
    BY <1>10, <1>1 DEF TypeOK, SkillPointer, files, Moving, HasSkills
  <2> QED
    BY <1>10, <1>1, <2>1 DEF TypeOK, SkillPointer, Applied, Abort, Goto, Release, IsInstall,
       files
<1>11. CASE Place
  BY <1>11, <1>1 DEF RunShape, TypeOK, Place, Abort, Goto, Release, IsInstall
<1>12. CASE Point
  <2>1. HasCore(coreFile', core')
    <3>1. CASE UNCHANGED core
      BY <1>1, <3>1 DEF TypeOK
    <3>2. CASE ~UNCHANGED core
      <4>1. PICK p \in Parts : Turn(p) /\ core' = [txn |-> txn, part |-> p, ver |-> ver]
        BY <1>12, <3>2 DEF Point
      <4>2. coreFile' = coreFile /\ coreFile[ver][p] # "absent" /\ p # 0
        BY <1>12, <4>1 DEF Point, files, Moving, Parts, Graphd
      <4> QED BY <4>1, <4>2 DEF HasCore, PartsOf
    <3> QED BY <3>1, <3>2
  <2> QED BY <1>12, <1>1, <2>1 DEF TypeOK, Point, Abort, Goto, Release, IsInstall, files
<1>13. CASE CorePointer
  <2>1. HasCore(coreFile', core')
    <3>1. CASE UNCHANGED core
      BY <1>1, <3>1 DEF TypeOK
    <3>2. CASE ~UNCHANGED core
      BY <1>13, <3>2 DEF CorePointer, files, Moving, CoreSteps, HasCore, PartsOf
    <3> QED BY <3>1, <3>2
  <2> QED
    BY <1>13, <1>1, <2>1 DEF TypeOK, CorePointer, Applied, Abort, Goto, Release, IsInstall,
       files
<1>14. CASE Activate
  <2>1. mem \in Journals /\ txn \in Txns
    BY <1>14 DEF Activate, TypeOK, RunShape, JournalSteps, Steps
  <2> DEFINE j == [mem EXCEPT !.state = "activated", !.actCore = core, !.actSkills = skills]
  <2>2. /\ j \in Journals /\ j.state = "activated" /\ SameUpdate(mem, j)
        /\ j.actCore = core /\ j.actSkills = skills
    <3>1. core \in Pointers /\ skills \in SkillPointers
      BY DEF TypeOK
    <3> QED BY <2>1, <3>1 DEF Journals, JournalStates, OpenStates, SameUpdate
  <2>3. \/ /\ mem' = j /\ journal' = [journal EXCEPT ![txn] = j]
           /\ Goto(IF mem.owned THEN "start" ELSE "finalize")
        \/ mem' = j /\ Goto("undoCore") /\ UNCHANGED journal
        \/ Abort /\ UNCHANGED journal
    BY <1>14 DEF Activate, Record
  <2> HIDE DEF j
  <2> QED
    BY <1>14, <2>2, <2>3, <2>1, <1>1, UpdateAssumption DEF TypeOK, RunShape, SameUpdate, Kept,
       Activate, Abort, Goto, Release, IsInstall, files
<1>15. CASE Start
  BY <1>15, <1>1 DEF RunShape, TypeOK, Start, Goto, Reinstalled, ReinstallFailed, files
<1>16. CASE Finalize
  <2>1. mem \in Journals /\ txn \in Txns
    BY <1>16 DEF Finalize, TypeOK, RunShape, JournalSteps, Steps
  <2> DEFINE j == [mem EXCEPT !.state = "finalized"]
  <2>2. /\ j \in Journals /\ j.state = "finalized" /\ SameUpdate(mem, j)
        /\ j.actCore = mem.actCore /\ j.actSkills = mem.actSkills
    BY <2>1, StateUpdate DEF JournalStates, OpenStates
  <2>3. \/ journal' = [journal EXCEPT ![txn] = j] /\ Release
        \/ mem' = j /\ Goto("undoCore") /\ UNCHANGED journal
    BY <1>16 DEF Finalize
  <2> HIDE DEF j
  <2> QED
    BY <1>16, <2>2, <2>3, <2>1, <1>1, UpdateAssumption DEF TypeOK, RunShape, SameUpdate, Kept,
       Finalize, Goto, Release, files
<1>17. CASE UndoCore
  <2>1. mem \in Journals /\ txn \in Txns
    BY <1>17 DEF UndoCore, TypeOK, RunShape, JournalSteps, Steps
  <2> QED BY <1>17, <1>1, <2>1, UpdateAssumption DEF TypeOK, Kept, UndoCore, Goto, files
<1>18. CASE UndoSkills
  <2>1. mem \in Journals /\ txn \in Txns
    BY <1>18 DEF UndoSkills, TypeOK, RunShape, JournalSteps, Steps
  <2> QED BY <1>18, <1>1, <2>1, UpdateAssumption DEF TypeOK, Kept, UndoSkills, Goto, files
<1>19. CASE UndoJournal
  <2>1. mem \in Journals /\ txn \in Txns
    BY <1>19 DEF UndoJournal, TypeOK, RunShape, JournalSteps, Steps
  <2> DEFINE j == [mem EXCEPT !.state = "restored-after-service-failure"]
  <2>2. /\ j \in Journals /\ j.state = "restored-after-service-failure" /\ SameUpdate(mem, j)
        /\ j.actCore = mem.actCore /\ j.actSkills = mem.actSkills
    BY <2>1, StateUpdate DEF JournalStates, OpenStates
  <2>3. \/ mem' = j /\ journal' = [journal EXCEPT ![txn] = j] /\ Goto("undoStart")
        \/ mem' = j /\ Goto("undoStart") /\ UNCHANGED journal
    BY <1>19 DEF UndoJournal, Record
  <2> HIDE DEF j
  <2> QED
    BY <1>19, <2>2, <2>3, <2>1, <1>1, UpdateAssumption DEF TypeOK, RunShape, SameUpdate, Kept,
       UndoJournal, Goto, files
<1>20. CASE FailJournal
  <2>1. mem \in Journals /\ txn \in Txns
    BY <1>20 DEF FailJournal, TypeOK, RunShape, JournalSteps, Steps
  <2> DEFINE j == [mem EXCEPT !.state = "service-recovery-required"]
  <2>2. /\ j \in Journals /\ j.state = "service-recovery-required" /\ SameUpdate(mem, j)
        /\ j.actCore = mem.actCore /\ j.actSkills = mem.actSkills
    BY <2>1, StateUpdate DEF JournalStates, OpenStates
  <2>3. \/ mem' = j /\ journal' = [journal EXCEPT ![txn] = j] /\ Goto("undoStart")
        \/ mem' = j /\ Goto("undoStart") /\ UNCHANGED journal
    BY <1>20 DEF FailJournal, Record
  <2> HIDE DEF j
  <2> QED
    BY <1>20, <2>2, <2>3, <2>1, <1>1, UpdateAssumption DEF TypeOK, RunShape, SameUpdate, Kept,
       FailJournal, Goto, files
<1>21. CASE UndoStart
  BY <1>21, <1>1 DEF RunShape, TypeOK, UndoStart, Release, Reinstalled, ReinstallFailed, files
<1>22. ASSUME NEW t \in Txns, StartRollback(t)
      PROVE  PayloadInv'
  BY <1>22, <1>1 DEF TypeOK, StartRollback, RollbackAccepted, files
<1>23. CASE BackDrain
  BY <1>23, <1>1 DEF RunShape, TypeOK, BackDrain, Goto, Release, Drained, DrainFailed, files
<1>24. CASE BackCore
  <2>1. mem \in Journals /\ txn \in Txns
    BY <1>24 DEF BackCore, TypeOK, RunShape, JournalSteps, Steps
  <2> QED BY <1>24, <1>1, <2>1, UpdateAssumption DEF TypeOK, Kept, BackCore, Goto, Release, files
<1>25. CASE BackSkills
  <2>1. mem \in Journals /\ txn \in Txns
    BY <1>25 DEF BackSkills, TypeOK, RunShape, JournalSteps, Steps
  <2> QED
    BY <1>25, <1>1, <2>1, UpdateAssumption DEF TypeOK, Kept, BackSkills, Goto, Release, files
<1>26. CASE BackJournal
  <2>1. mem \in Journals /\ txn \in Txns
    BY <1>26 DEF BackJournal, TypeOK, RunShape, JournalSteps, Steps
  <2> DEFINE j == [mem EXCEPT !.state = "restored-after-service-failure"]
  <2>2. /\ j \in Journals /\ j.state = "restored-after-service-failure" /\ SameUpdate(mem, j)
        /\ j.actCore = mem.actCore /\ j.actSkills = mem.actSkills
    BY <2>1, StateUpdate DEF JournalStates, OpenStates
  <2>3. \/ mem' = j /\ journal' = [journal EXCEPT ![txn] = j] /\ Goto("backStart")
        \/ UNCHANGED journal /\ Release
    BY <1>26 DEF BackJournal
  <2> HIDE DEF j
  <2> QED
    BY <1>26, <2>2, <2>3, <2>1, <1>1, UpdateAssumption DEF TypeOK, RunShape, SameUpdate, Kept,
       BackJournal, Goto, Release, files
<1>27. CASE BackStart
  BY <1>27, <1>1 DEF RunShape, TypeOK, BackStart, Goto, Release, Reinstalled, ReinstallFailed,
     files
<1>28. CASE RedoCore
  <2>1. mem \in Journals /\ txn \in Txns
    BY <1>28 DEF RedoCore, TypeOK, RunShape, JournalSteps, Steps
  <2>2. mem.actCore # NoPointer
    BY <1>28, <2>1, UpdateAssumption DEF RedoCore, Owning, JournalsSound, Sound
  <2> QED
    BY <1>28, <1>1, <2>1, <2>2, UpdateAssumption DEF TypeOK, Kept, RedoCore, Goto, Release,
       files
<1>29. CASE RedoSkills
  <2>1. mem \in Journals /\ txn \in Txns
    BY <1>29 DEF RedoSkills, TypeOK, RunShape, JournalSteps, Steps
  <2>2. mem.actCore # NoPointer
    BY <1>29, <2>1, UpdateAssumption DEF RedoSkills, Owning, JournalsSound, Sound
  <2> QED
    BY <1>29, <1>1, <2>1, <2>2, UpdateAssumption DEF TypeOK, Kept, RedoSkills, Goto, Release,
       files
<1>30. CASE Close
  <2>1. mem \in Journals /\ txn \in Txns
    BY <1>30 DEF Close, TypeOK, RunShape, JournalSteps, Steps
  <2> DEFINE j == [mem EXCEPT !.state = "rolled-back"]
  <2>2. /\ j \in Journals /\ j.state = "rolled-back" /\ SameUpdate(mem, j)
        /\ j.actCore = mem.actCore /\ j.actSkills = mem.actSkills
    BY <2>1, StateUpdate DEF JournalStates, OpenStates
  <2>3. \/ journal' = journal /\ Release
        \/ journal' = [journal EXCEPT ![txn] = j] /\ Release
    BY <1>30 DEF Close
  <2> HIDE DEF j
  <2> QED
    BY <1>30, <2>2, <2>3, <2>1, <1>1, UpdateAssumption DEF TypeOK, RunShape, SameUpdate, Kept,
       Close, Release, files
<1>31. CASE Crash
  BY <1>31, <1>1 DEF RunShape, TypeOK, Crash, Release, files
<1>32. CASE OperateService
  BY <1>32, <1>1 DEF RunShape, TypeOK, OperateService, Drained, Reinstalled, files, run
<1>33. CASE Damage
  BY <1>33, <1>1 DEF RunShape, TypeOK, Damage, run
<1>34. CASE UNCHANGED vars
  BY <1>34 DEF vars, files, run
<1> QED BY <1>2, <1>3, <1>4, <1>5, <1>6, <1>7, <1>8, <1>9, <1>10, <1>11, <1>12, <1>13, <1>14,
   <1>15, <1>16, <1>17, <1>18, <1>19, <1>20, <1>21, <1>22, <1>23, <1>24, <1>25, <1>26, <1>27,
   <1>28, <1>29, <1>30, <1>31, <1>32, <1>33, <1>34 DEF Next, Apply, Recover, Rollback

(* A pointer is written after the payloads it names, and an apply ends with both moved. *)
LEMMA MovingStep ==
    ASSUME IInv, [Next]_vars
    PROVE  Moving'
<1>. USE DEF IInv
<1>1. ASSUME NEW t \in Txns, NEW v \in Versions, StartUpdate(t, v)
      PROVE  Moving'
  BY <1>1 DEF Moving, SkillSteps, CoreSteps, LateSteps, StartUpdate, files
<1>2. ASSUME NEW t \in Txns, NEW v \in Versions, StartInstall(t, v)
      PROVE  Moving'
  BY <1>2 DEF Moving, SkillSteps, CoreSteps, LateSteps, StartInstall, files
<1>3. CASE Drain
  BY <1>3 DEF Moving, SkillSteps, CoreSteps, LateSteps, Drain, Goto, Drained, DrainFailed, files
<1>4. CASE Stage
  BY <1>4 DEF Moving, SkillSteps, CoreSteps, LateSteps, Stage, Goto, Release, IsInstall, files
<1>5. CASE Check
  BY <1>5 DEF Moving, SkillSteps, CoreSteps, LateSteps, SkillsReady, Parts, Graphd, Check,
     Applied, Abort, Goto, Release, IsInstall, files
<1>6. CASE SkillFiles
  BY <1>6 DEF Moving, SkillSteps, CoreSteps, LateSteps, SkillFiles, Abort, Goto, Release,
     IsInstall
<1>7. CASE SkillManifest
  BY <1>7 DEF Moving, SkillSteps, CoreSteps, LateSteps, Placed, TypeOK, SkillManifest, Abort,
     Goto, Release, IsInstall
<1>8. CASE SkillReuse
  BY <1>8 DEF Moving, SkillSteps, CoreSteps, LateSteps, Placed, TypeOK, SkillReuse, Abort, Goto,
     Release, IsInstall, files
<1>9. CASE SkillPointer
  BY <1>9 DEF Moving, SkillSteps, CoreSteps, LateSteps, SkillPointer, Applied, Abort, Goto,
     Release, IsInstall, files
<1>10. CASE Place
  <2>1. PICK p \in Parts : Turn(p)
    BY <1>10 DEF Place
  <2>2. \A q \in Parts : Turn(q) => q = p
    BY <2>1 DEF Turn, TypeOK, Parts, Graphd
  <2>3. CASE UNCHANGED coreFile
    BY <1>10, <2>1, <2>2, <2>3 DEF Moving, SkillSteps, CoreSteps, LateSteps, TypeOK, Place,
       Abort, Goto, Release, IsInstall
  <2>4. CASE ~UNCHANGED coreFile
    <3>1. PICK q \in Parts : /\ Turn(q) /\ coreFile' = [coreFile EXCEPT ![ver][q] = "whole"]
                             /\ Goto("point") /\ UNCHANGED mem
      BY <1>10, <2>4 DEF Place
    <3>2. coreFile'[ver][p] # "absent"
      BY <2>2, <3>1 DEF TypeOK
    <3>3. \A r \in Parts \ pending : coreFile'[ver][r] # "absent"
      BY <1>10, <3>1 DEF Place, Moving, CoreSteps, TypeOK
    <3> QED
      BY <1>10, <2>2, <3>1, <3>2, <3>3
         DEF Place, Goto, Moving, SkillSteps, CoreSteps, LateSteps, Turn
  <2> QED BY <2>3, <2>4
<1>11. CASE Point
  BY <1>11 DEF Moving, SkillSteps, CoreSteps, LateSteps, Point, Abort, Goto, Release, IsInstall,
     files
<1>12. CASE CorePointer
  BY <1>12 DEF Moving, SkillSteps, CoreSteps, LateSteps, CorePointer, Applied, Abort, Goto,
     Release, IsInstall, files
<1>13. CASE Activate
  BY <1>13 DEF Moving, SkillSteps, CoreSteps, LateSteps, Activate, Record, Abort, Goto, Release,
     IsInstall, files
<1>14. CASE Start
  BY <1>14 DEF Moving, SkillSteps, CoreSteps, LateSteps, Start, Goto, Reinstalled,
     ReinstallFailed, files
<1>15. CASE Finalize
  BY <1>15 DEF Moving, SkillSteps, CoreSteps, LateSteps, Finalize, Goto, Release, files
<1>16. CASE UndoCore
  BY <1>16 DEF Moving, SkillSteps, CoreSteps, LateSteps, UndoCore, Goto, files
<1>17. CASE UndoSkills
  BY <1>17 DEF Moving, SkillSteps, CoreSteps, LateSteps, UndoSkills, Goto, files
<1>18. CASE UndoJournal
  BY <1>18 DEF Moving, SkillSteps, CoreSteps, LateSteps, UndoJournal, Record, Goto, files
<1>19. CASE FailJournal
  BY <1>19 DEF Moving, SkillSteps, CoreSteps, LateSteps, FailJournal, Record, Goto, files
<1>20. CASE UndoStart
  BY <1>20 DEF Moving, SkillSteps, CoreSteps, LateSteps, UndoStart, Release, Reinstalled,
     ReinstallFailed, files
<1>21. ASSUME NEW t \in Txns, StartRollback(t)
      PROVE  Moving'
  BY <1>21 DEF Moving, SkillSteps, CoreSteps, LateSteps, StartRollback, RollbackAccepted, files
<1>22. CASE BackDrain
  BY <1>22 DEF Moving, SkillSteps, CoreSteps, LateSteps, BackDrain, Goto, Release, Drained,
     DrainFailed, files
<1>23. CASE BackCore
  BY <1>23 DEF Moving, SkillSteps, CoreSteps, LateSteps, BackCore, Goto, Release, files
<1>24. CASE BackSkills
  BY <1>24 DEF Moving, SkillSteps, CoreSteps, LateSteps, BackSkills, Goto, Release, files
<1>25. CASE BackJournal
  BY <1>25 DEF Moving, SkillSteps, CoreSteps, LateSteps, BackJournal, Goto, Release, files
<1>26. CASE BackStart
  BY <1>26 DEF Moving, SkillSteps, CoreSteps, LateSteps, BackStart, Goto, Release, Reinstalled,
     ReinstallFailed, files
<1>27. CASE RedoCore
  BY <1>27 DEF Moving, SkillSteps, CoreSteps, LateSteps, RedoCore, Goto, Release, files
<1>28. CASE RedoSkills
  BY <1>28 DEF Moving, SkillSteps, CoreSteps, LateSteps, RedoSkills, Goto, Release, files
<1>29. CASE Close
  BY <1>29 DEF Moving, SkillSteps, CoreSteps, LateSteps, Close, Release, files
<1>30. CASE Crash
  BY <1>30 DEF Moving, SkillSteps, CoreSteps, LateSteps, Crash, Release, files
<1>31. CASE OperateService
  BY <1>31 DEF Moving, SkillSteps, CoreSteps, LateSteps, OperateService, Drained, Reinstalled,
     files, run
<1>32. CASE Damage
  <2>1. Grows(coreFile, coreFile') /\ SkillsGrow(skillDir, skillDir')
    BY FilesStep
  <2>2. skillDir[ver] = "absent" => skillDir'[ver] = "absent"
    BY <1>32 DEF Damage, TypeOK
  <2> QED
    BY <1>32, <2>1, <2>2 DEF Damage, run, Moving, SkillSteps, CoreSteps, LateSteps, Turn, TypeOK,
       Grows, SkillsGrow
<1>33. CASE UNCHANGED vars
  BY <1>33 DEF Moving, Turn, vars, files, run
<1> QED BY <1>1, <1>2, <1>3, <1>4, <1>5, <1>6, <1>7, <1>8, <1>9, <1>10, <1>11, <1>12, <1>13,
   <1>14, <1>15, <1>16, <1>17, <1>18, <1>19, <1>20, <1>21, <1>22, <1>23, <1>24, <1>25, <1>26,
   <1>27, <1>28, <1>29, <1>30, <1>31, <1>32, <1>33 DEF Next, Apply, Recover, Rollback

(* The pointers are the ones the update found or the ones it wrote. *)
LEMMA OwningStep ==
    ASSUME IInv, [Next]_vars
    PROVE  Owning'
<1>. USE DEF IInv
<1>1. ASSUME NEW t \in Txns, NEW v \in Versions, StartUpdate(t, v)
      PROVE  Owning'
  <2> DEFINE j == [state |-> "prepared", target |-> v, owned |-> service.owned,
                   prevCore |-> core, prevSkills |-> skills, prevDir |-> DirOf(skills),
                   actCore |-> NoPointer, actSkills |-> NoSkills]
  <2>2. /\ j \in Journals /\ j.state = "prepared" /\ j.target = v /\ j.owned = service.owned
        /\ j.prevCore = core /\ j.prevSkills = skills /\ j.actCore = NoPointer
    BY DEF TypeOK, Journals, JournalStates, OpenStates, DirOf, SkillPointers, Dirs
  <2>3. mem' = j /\ journal' = [journal EXCEPT ![t] = j]
    BY <1>1 DEF StartUpdate
  <2> HIDE DEF j
  <2> QED
    BY <1>1, <2>2, <2>3, UpdateAssumption DEF TypeOK, RunShape, Owning, SameUpdate,
       StartUpdate, files
<1>2. ASSUME NEW t \in Txns, NEW v \in Versions, StartInstall(t, v)
      PROVE  Owning'
  BY <1>2 DEF Owning, RunShape, StartInstall, files
<1>3. CASE Drain
  BY <1>3 DEF Owning, RunShape, Drain, Goto, Drained, DrainFailed, files
<1>4. CASE Stage
  BY <1>4 DEF Owning, RunShape, Stage, Goto, Release, IsInstall, files
<1>5. CASE Check
  BY <1>5 DEF Owning, RunShape, Check, Applied, Abort, Goto, Release, IsInstall, files
<1>6. CASE SkillFiles
  BY <1>6 DEF Owning, RunShape, SkillFiles, Abort, Goto, Release, IsInstall
<1>7. CASE SkillManifest
  BY <1>7 DEF Owning, RunShape, SkillManifest, Abort, Goto, Release, IsInstall
<1>8. CASE SkillReuse
  BY <1>8 DEF Owning, RunShape, SkillReuse, Abort, Goto, Release, IsInstall, files
<1>9. CASE SkillPointer
  BY <1>9 DEF Owning, RunShape, SkillPointer, Applied, Abort, Goto, Release, IsInstall, files
<1>10. CASE Place
  BY <1>10 DEF Owning, RunShape, Place, Abort, Goto, Release, IsInstall
<1>11. CASE Point
  BY <1>11 DEF Owning, RunShape, Point, Abort, Goto, Release, IsInstall, files
<1>12. CASE CorePointer
  BY <1>12 DEF Owning, RunShape, CorePointer, Applied, Abort, Goto, Release, IsInstall, files
<1>13. CASE Activate
  <2>1. mem \in Journals /\ txn \in Txns
    BY <1>13 DEF Activate, TypeOK, RunShape, JournalSteps, Steps
  <2> DEFINE j == [mem EXCEPT !.state = "activated", !.actCore = core, !.actSkills = skills]
  <2>2. /\ j \in Journals /\ j.state = "activated" /\ SameUpdate(mem, j)
        /\ j.actCore = core /\ j.actSkills = skills
    <3>1. core \in Pointers /\ skills \in SkillPointers
      BY DEF TypeOK
    <3> QED BY <2>1, <3>1 DEF Journals, JournalStates, OpenStates, SameUpdate
  <2>3. \/ /\ mem' = j /\ journal' = [journal EXCEPT ![txn] = j]
           /\ Goto(IF mem.owned THEN "start" ELSE "finalize")
        \/ mem' = j /\ Goto("undoCore") /\ UNCHANGED journal
        \/ Abort /\ UNCHANGED journal
    BY <1>13 DEF Activate, Record
  <2> HIDE DEF j
  <2> QED
    BY <1>13, <2>2, <2>3, <2>1, UpdateAssumption DEF TypeOK, RunShape, Owning, SameUpdate,
       Activate, Abort, Goto, Release, IsInstall, files
<1>14. CASE Start
  BY <1>14 DEF Owning, RunShape, Start, Goto, Reinstalled, ReinstallFailed, files
<1>15. CASE Finalize
  <2>1. mem \in Journals /\ txn \in Txns
    BY <1>15 DEF Finalize, TypeOK, RunShape, JournalSteps, Steps
  <2> DEFINE j == [mem EXCEPT !.state = "finalized"]
  <2>2. /\ j \in Journals /\ j.state = "finalized" /\ SameUpdate(mem, j)
        /\ j.actCore = mem.actCore /\ j.actSkills = mem.actSkills
    BY <2>1, StateUpdate DEF JournalStates, OpenStates
  <2>3. \/ journal' = [journal EXCEPT ![txn] = j] /\ Release
        \/ mem' = j /\ Goto("undoCore") /\ UNCHANGED journal
    BY <1>15 DEF Finalize
  <2> HIDE DEF j
  <2> QED
    BY <1>15, <2>2, <2>3, <2>1, UpdateAssumption DEF TypeOK, RunShape, Owning, SameUpdate,
       Finalize, Goto, Release, files
<1>16. CASE UndoCore
  BY <1>16 DEF Owning, RunShape, UndoCore, Goto, files
<1>17. CASE UndoSkills
  BY <1>17 DEF Owning, RunShape, UndoSkills, Goto, files
<1>18. CASE UndoJournal
  <2>1. mem \in Journals /\ txn \in Txns
    BY <1>18 DEF UndoJournal, TypeOK, RunShape, JournalSteps, Steps
  <2> DEFINE j == [mem EXCEPT !.state = "restored-after-service-failure"]
  <2>2. /\ j \in Journals /\ j.state = "restored-after-service-failure" /\ SameUpdate(mem, j)
        /\ j.actCore = mem.actCore /\ j.actSkills = mem.actSkills
    BY <2>1, StateUpdate DEF JournalStates, OpenStates
  <2>3. \/ mem' = j /\ journal' = [journal EXCEPT ![txn] = j] /\ Goto("undoStart")
        \/ mem' = j /\ Goto("undoStart") /\ UNCHANGED journal
    BY <1>18 DEF UndoJournal, Record
  <2> HIDE DEF j
  <2> QED
    BY <1>18, <2>2, <2>3, <2>1, UpdateAssumption DEF TypeOK, RunShape, Owning, SameUpdate,
       UndoJournal, Goto, files
<1>19. CASE FailJournal
  <2>1. mem \in Journals /\ txn \in Txns
    BY <1>19 DEF FailJournal, TypeOK, RunShape, JournalSteps, Steps
  <2> DEFINE j == [mem EXCEPT !.state = "service-recovery-required"]
  <2>2. /\ j \in Journals /\ j.state = "service-recovery-required" /\ SameUpdate(mem, j)
        /\ j.actCore = mem.actCore /\ j.actSkills = mem.actSkills
    BY <2>1, StateUpdate DEF JournalStates, OpenStates
  <2>3. \/ mem' = j /\ journal' = [journal EXCEPT ![txn] = j] /\ Goto("undoStart")
        \/ mem' = j /\ Goto("undoStart") /\ UNCHANGED journal
    BY <1>19 DEF FailJournal, Record
  <2> HIDE DEF j
  <2> QED
    BY <1>19, <2>2, <2>3, <2>1, UpdateAssumption DEF TypeOK, RunShape, Owning, SameUpdate,
       FailJournal, Goto, files
<1>20. CASE UndoStart
  BY <1>20 DEF Owning, RunShape, UndoStart, Release, Reinstalled, ReinstallFailed, files
<1>21. ASSUME NEW t \in Txns, StartRollback(t)
      PROVE  Owning'
  <2>1. journal[t] \in Journals /\ Sound(t, journal[t])
    BY <1>21 DEF StartRollback, RollbackAccepted, TypeOK, JournalsSound
  <2>2. /\ core = journal[t].prevCore \/ core.txn = t
        /\ skills \in {journal[t].prevSkills, journal[t].target}
    BY <1>21, <2>1, UpdateAssumption DEF StartRollback, RollbackAccepted, MayRestore, Unmoved,
       IsActivated, CandidateCore, CandidateSkills, Sound, TypeOK
  <2> QED BY <1>21, <2>1, <2>2 DEF StartRollback, Owning
<1>22. CASE BackDrain
  BY <1>22 DEF Owning, RunShape, BackDrain, Goto, Release, Drained, DrainFailed, files
<1>23. CASE BackCore
  BY <1>23 DEF Owning, RunShape, BackCore, Goto, Release, files
<1>24. CASE BackSkills
  BY <1>24 DEF Owning, RunShape, BackSkills, Goto, Release, files
<1>25. CASE BackJournal
  <2>1. mem \in Journals /\ txn \in Txns
    BY <1>25 DEF BackJournal, TypeOK, RunShape, JournalSteps, Steps
  <2> DEFINE j == [mem EXCEPT !.state = "restored-after-service-failure"]
  <2>2. /\ j \in Journals /\ j.state = "restored-after-service-failure" /\ SameUpdate(mem, j)
        /\ j.actCore = mem.actCore /\ j.actSkills = mem.actSkills
    BY <2>1, StateUpdate DEF JournalStates, OpenStates
  <2>3. \/ mem' = j /\ journal' = [journal EXCEPT ![txn] = j] /\ Goto("backStart")
        \/ UNCHANGED journal /\ Release
    BY <1>25 DEF BackJournal
  <2> HIDE DEF j
  <2> QED
    BY <1>25, <2>2, <2>3, <2>1, UpdateAssumption DEF TypeOK, RunShape, Owning, SameUpdate,
       BackJournal, Goto, Release, files
<1>26. CASE BackStart
  BY <1>26 DEF Owning, RunShape, BackStart, Goto, Release, Reinstalled, ReinstallFailed, files
<1>27. CASE RedoCore
  <2>1. mem \in Journals /\ txn \in Txns
    BY <1>27 DEF RedoCore, TypeOK, RunShape, JournalSteps, Steps
  <2>2. /\ mem.actCore = mem.prevCore \/ mem.actCore.txn = txn
        /\ mem.actSkills \in {mem.prevSkills, mem.target}
    BY <1>27, <2>1, UpdateAssumption DEF RedoCore, Owning, JournalsSound, Sound
  <2> QED
    BY <1>27, <2>1, <2>2, UpdateAssumption DEF Owning, RunShape, RedoCore, Goto, Release, files
<1>28. CASE RedoSkills
  <2>1. mem \in Journals /\ txn \in Txns
    BY <1>28 DEF RedoSkills, TypeOK, RunShape, JournalSteps, Steps
  <2>2. /\ mem.actCore = mem.prevCore \/ mem.actCore.txn = txn
        /\ mem.actSkills \in {mem.prevSkills, mem.target}
    BY <1>28, <2>1, UpdateAssumption DEF RedoSkills, Owning, JournalsSound, Sound
  <2> QED
    BY <1>28, <2>1, <2>2, UpdateAssumption DEF Owning, RunShape, RedoSkills, Goto, Release,
       files
<1>29. CASE Close
  <2>1. mem \in Journals /\ txn \in Txns
    BY <1>29 DEF Close, TypeOK, RunShape, JournalSteps, Steps
  <2> DEFINE j == [mem EXCEPT !.state = "rolled-back"]
  <2>2. /\ j \in Journals /\ j.state = "rolled-back" /\ SameUpdate(mem, j)
        /\ j.actCore = mem.actCore /\ j.actSkills = mem.actSkills
    BY <2>1, StateUpdate DEF JournalStates, OpenStates
  <2>3. \/ journal' = journal /\ Release
        \/ journal' = [journal EXCEPT ![txn] = j] /\ Release
    BY <1>29 DEF Close
  <2> HIDE DEF j
  <2> QED
    BY <1>29, <2>2, <2>3, <2>1, UpdateAssumption DEF TypeOK, RunShape, Owning, SameUpdate,
       Close, Release, files
<1>30. CASE Crash
  BY <1>30 DEF Owning, RunShape, Crash, Release, files
<1>31. CASE OperateService
  BY <1>31 DEF Owning, RunShape, OperateService, Drained, Reinstalled, files, run
<1>32. CASE Damage
  BY <1>32 DEF Owning, RunShape, Damage, run
<1>33. CASE UNCHANGED vars
  BY <1>33 DEF Owning, vars, files, run
<1> QED BY <1>1, <1>2, <1>3, <1>4, <1>5, <1>6, <1>7, <1>8, <1>9, <1>10, <1>11, <1>12, <1>13,
   <1>14, <1>15, <1>16, <1>17, <1>18, <1>19, <1>20, <1>21, <1>22, <1>23, <1>24, <1>25, <1>26,
   <1>27, <1>28, <1>29, <1>30, <1>31, <1>32, <1>33 DEF Next, Apply, Recover, Rollback

(* An owned service is down while pointers move, and up from the new ones afterwards. *)
LEMMA ServingStep ==
    ASSUME IInv, [Next]_vars
    PROVE  Serving'
<1>. USE DEF IInv
<1>1. ASSUME NEW t \in Txns, NEW v \in Versions, StartUpdate(t, v)
      PROVE  Serving'
  <2> DEFINE j == [state |-> "prepared", target |-> v, owned |-> service.owned,
                   prevCore |-> core, prevSkills |-> skills, prevDir |-> DirOf(skills),
                   actCore |-> NoPointer, actSkills |-> NoSkills]
  <2>2. /\ j \in Journals /\ j.state = "prepared" /\ j.target = v /\ j.owned = service.owned
        /\ j.prevCore = core /\ j.prevSkills = skills /\ j.actCore = NoPointer
    BY DEF TypeOK, Journals, JournalStates, OpenStates, DirOf, SkillPointers, Dirs
  <2>3. mem' = j /\ journal' = [journal EXCEPT ![t] = j]
    BY <1>1 DEF StartUpdate
  <2> HIDE DEF j
  <2> QED
    BY <1>1, <2>2, <2>3, UpdateAssumption DEF TypeOK, RunShape, Owning, Serving, QuietSteps,
       SkillSteps, CoreSteps, Unmoved, SameUpdate, StartUpdate, files
<1>2. ASSUME NEW t \in Txns, NEW v \in Versions, StartInstall(t, v)
      PROVE  Serving'
  BY <1>2 DEF Serving, QuietSteps, SkillSteps, CoreSteps, RunShape, Unmoved, StartInstall, files
<1>3. CASE Drain
  BY <1>3 DEF Serving, QuietSteps, SkillSteps, CoreSteps, RunShape, Unmoved, Drain, Goto,
     Drained, DrainFailed, files
<1>4. CASE Stage
  BY <1>4 DEF Serving, QuietSteps, SkillSteps, CoreSteps, RunShape, Unmoved, Stage, Goto,
     Release, IsInstall, files
<1>5. CASE Check
  BY <1>5 DEF Serving, QuietSteps, SkillSteps, CoreSteps, RunShape, Unmoved, Check, Applied,
     Abort, Goto, Release, IsInstall, files
<1>6. CASE SkillFiles
  BY <1>6 DEF Serving, QuietSteps, SkillSteps, CoreSteps, RunShape, Unmoved, SkillFiles, Abort,
     Goto, Release, IsInstall
<1>7. CASE SkillManifest
  BY <1>7 DEF Serving, QuietSteps, SkillSteps, CoreSteps, RunShape, Unmoved, SkillManifest,
     Abort, Goto, Release, IsInstall
<1>8. CASE SkillReuse
  BY <1>8 DEF Serving, QuietSteps, SkillSteps, CoreSteps, RunShape, Unmoved, SkillReuse, Abort,
     Goto, Release, IsInstall, files
<1>9. CASE SkillPointer
  BY <1>9 DEF Serving, QuietSteps, SkillSteps, CoreSteps, RunShape, Unmoved, SkillPointer,
     Applied, Abort, Goto, Release, IsInstall, files
<1>10. CASE Place
  BY <1>10 DEF Serving, QuietSteps, SkillSteps, CoreSteps, RunShape, Unmoved, Place, Abort,
     Goto, Release, IsInstall
<1>11. CASE Point
  BY <1>11 DEF Serving, QuietSteps, SkillSteps, CoreSteps, RunShape, Unmoved, Point, Abort,
     Goto, Release, IsInstall, files
<1>12. CASE CorePointer
  BY <1>12 DEF Serving, QuietSteps, SkillSteps, CoreSteps, RunShape, Unmoved, CorePointer,
     Applied, Abort, Goto, Release, IsInstall, files
<1>13. CASE Activate
  <2>1. mem \in Journals /\ txn \in Txns
    BY <1>13 DEF Activate, TypeOK, RunShape, JournalSteps, Steps
  <2> DEFINE j == [mem EXCEPT !.state = "activated", !.actCore = core, !.actSkills = skills]
  <2>2. /\ j \in Journals /\ j.state = "activated" /\ SameUpdate(mem, j)
        /\ j.actCore = core /\ j.actSkills = skills
    <3>1. core \in Pointers /\ skills \in SkillPointers
      BY DEF TypeOK
    <3> QED BY <2>1, <3>1 DEF Journals, JournalStates, OpenStates, SameUpdate
  <2>3. \/ /\ mem' = j /\ journal' = [journal EXCEPT ![txn] = j]
           /\ Goto(IF mem.owned THEN "start" ELSE "finalize")
        \/ mem' = j /\ Goto("undoCore") /\ UNCHANGED journal
        \/ Abort /\ UNCHANGED journal
    BY <1>13 DEF Activate, Record
  <2> HIDE DEF j
  <2> QED
    BY <1>13, <2>2, <2>3, <2>1, UpdateAssumption DEF TypeOK, RunShape, Owning, Serving,
       QuietSteps, SkillSteps, CoreSteps, Unmoved, SameUpdate, Activate, Abort, Goto,
       Release, IsInstall, files
<1>14. CASE Start
  BY <1>14 DEF Serving, QuietSteps, SkillSteps, CoreSteps, RunShape, Unmoved, Start, Goto,
     Reinstalled, ReinstallFailed, files
<1>15. CASE Finalize
  <2>1. mem \in Journals /\ txn \in Txns
    BY <1>15 DEF Finalize, TypeOK, RunShape, JournalSteps, Steps
  <2> DEFINE j == [mem EXCEPT !.state = "finalized"]
  <2>2. /\ j \in Journals /\ j.state = "finalized" /\ SameUpdate(mem, j)
        /\ j.actCore = mem.actCore /\ j.actSkills = mem.actSkills
    BY <2>1, StateUpdate DEF JournalStates, OpenStates
  <2>3. \/ journal' = [journal EXCEPT ![txn] = j] /\ Release
        \/ mem' = j /\ Goto("undoCore") /\ UNCHANGED journal
    BY <1>15 DEF Finalize
  <2> HIDE DEF j
  <2> QED
    BY <1>15, <2>2, <2>3, <2>1, UpdateAssumption DEF TypeOK, RunShape, Owning, Serving,
       QuietSteps, SkillSteps, CoreSteps, Unmoved, SameUpdate, Finalize, Goto, Release,
       files
<1>16. CASE UndoCore
  BY <1>16 DEF Serving, QuietSteps, SkillSteps, CoreSteps, RunShape, Unmoved, UndoCore, Goto,
     files
<1>17. CASE UndoSkills
  BY <1>17 DEF Serving, QuietSteps, SkillSteps, CoreSteps, RunShape, Unmoved, UndoSkills, Goto,
     files
<1>18. CASE UndoJournal
  <2>1. mem \in Journals /\ txn \in Txns
    BY <1>18 DEF UndoJournal, TypeOK, RunShape, JournalSteps, Steps
  <2> DEFINE j == [mem EXCEPT !.state = "restored-after-service-failure"]
  <2>2. /\ j \in Journals /\ j.state = "restored-after-service-failure" /\ SameUpdate(mem, j)
        /\ j.actCore = mem.actCore /\ j.actSkills = mem.actSkills
    BY <2>1, StateUpdate DEF JournalStates, OpenStates
  <2>3. \/ mem' = j /\ journal' = [journal EXCEPT ![txn] = j] /\ Goto("undoStart")
        \/ mem' = j /\ Goto("undoStart") /\ UNCHANGED journal
    BY <1>18 DEF UndoJournal, Record
  <2> HIDE DEF j
  <2> QED
    BY <1>18, <2>2, <2>3, <2>1, UpdateAssumption DEF TypeOK, RunShape, Owning, Serving,
       QuietSteps, SkillSteps, CoreSteps, Unmoved, SameUpdate, UndoJournal, Goto, files
<1>19. CASE FailJournal
  <2>1. mem \in Journals /\ txn \in Txns
    BY <1>19 DEF FailJournal, TypeOK, RunShape, JournalSteps, Steps
  <2> DEFINE j == [mem EXCEPT !.state = "service-recovery-required"]
  <2>2. /\ j \in Journals /\ j.state = "service-recovery-required" /\ SameUpdate(mem, j)
        /\ j.actCore = mem.actCore /\ j.actSkills = mem.actSkills
    BY <2>1, StateUpdate DEF JournalStates, OpenStates
  <2>3. \/ mem' = j /\ journal' = [journal EXCEPT ![txn] = j] /\ Goto("undoStart")
        \/ mem' = j /\ Goto("undoStart") /\ UNCHANGED journal
    BY <1>19 DEF FailJournal, Record
  <2> HIDE DEF j
  <2> QED
    BY <1>19, <2>2, <2>3, <2>1, UpdateAssumption DEF TypeOK, RunShape, Owning, Serving,
       QuietSteps, SkillSteps, CoreSteps, Unmoved, SameUpdate, FailJournal, Goto, files
<1>20. CASE UndoStart
  BY <1>20 DEF Serving, QuietSteps, SkillSteps, CoreSteps, RunShape, Unmoved, UndoStart,
     Release, Reinstalled, ReinstallFailed, files
<1>21. ASSUME NEW t \in Txns, StartRollback(t)
      PROVE  Serving'
  <2>1. journal[t] \in Journals /\ journal[t].state \in JournalStates
    BY <1>21, JournalFields DEF StartRollback, RollbackAccepted, TypeOK
  <2> QED
    BY <1>21, <2>1 DEF StartRollback, RollbackAccepted, MayRestore, MustDrain, Unmoved,
       IsActivated,
       Serving, QuietSteps, SkillSteps, CoreSteps
<1>22. CASE BackDrain
  BY <1>22 DEF Serving, QuietSteps, SkillSteps, CoreSteps, RunShape, Unmoved, BackDrain, Goto,
     Release, Drained, DrainFailed, files
<1>23. CASE BackCore
  BY <1>23 DEF Serving, QuietSteps, SkillSteps, CoreSteps, RunShape, Unmoved, BackCore, Goto,
     Release, files
<1>24. CASE BackSkills
  BY <1>24 DEF Serving, QuietSteps, SkillSteps, CoreSteps, RunShape, Unmoved, BackSkills, Goto,
     Release, files
<1>25. CASE BackJournal
  <2>1. mem \in Journals /\ txn \in Txns
    BY <1>25 DEF BackJournal, TypeOK, RunShape, JournalSteps, Steps
  <2> DEFINE j == [mem EXCEPT !.state = "restored-after-service-failure"]
  <2>2. /\ j \in Journals /\ j.state = "restored-after-service-failure" /\ SameUpdate(mem, j)
        /\ j.actCore = mem.actCore /\ j.actSkills = mem.actSkills
    BY <2>1, StateUpdate DEF JournalStates, OpenStates
  <2>3. \/ mem' = j /\ journal' = [journal EXCEPT ![txn] = j] /\ Goto("backStart")
        \/ UNCHANGED journal /\ Release
    BY <1>25 DEF BackJournal
  <2> HIDE DEF j
  <2> QED
    BY <1>25, <2>2, <2>3, <2>1, UpdateAssumption DEF TypeOK, RunShape, Owning, Serving,
       QuietSteps, SkillSteps, CoreSteps, Unmoved, SameUpdate, BackJournal, Goto, Release,
       files
<1>26. CASE BackStart
  <2>1. CASE Release
    BY <2>1 DEF Release, Serving
  <2>2. CASE ~mem.owned
    BY <1>26, <2>2 DEF BackStart, Goto, Release, Serving
  <2>3. CASE mem.owned /\ Reinstalled /\ Goto("close") /\ UNCHANGED mem
    BY <1>26, <2>3 DEF BackStart, Goto, Reinstalled, Serving, QuietSteps, SkillSteps, CoreSteps
  <2>4. CASE /\ mem.owned /\ ReinstallFailed /\ mem.state \in {"activated", "finalized"}
             /\ Goto("redoCore") /\ UNCHANGED mem
    <3>1. service.on = Down
      BY <1>26, <2>4 DEF BackStart, Serving, RunShape, JournalSteps, Steps
    <3>2. service'.on = Down
      BY <2>4, <3>1 DEF ReinstallFailed, TypeOK
    <3> QED BY <2>4, <3>2 DEF Goto, Serving, QuietSteps, SkillSteps, CoreSteps
  <2> QED BY <1>26, <2>1, <2>2, <2>3, <2>4 DEF BackStart
<1>27. CASE RedoCore
  BY <1>27 DEF Serving, QuietSteps, SkillSteps, CoreSteps, RunShape, Unmoved, RedoCore, Goto,
     Release, files
<1>28. CASE RedoSkills
  BY <1>28 DEF Serving, QuietSteps, SkillSteps, CoreSteps, RunShape, Unmoved, RedoSkills, Goto,
     Release, files
<1>29. CASE Close
  <2>1. mem \in Journals /\ txn \in Txns
    BY <1>29 DEF Close, TypeOK, RunShape, JournalSteps, Steps
  <2> DEFINE j == [mem EXCEPT !.state = "rolled-back"]
  <2>2. /\ j \in Journals /\ j.state = "rolled-back" /\ SameUpdate(mem, j)
        /\ j.actCore = mem.actCore /\ j.actSkills = mem.actSkills
    BY <2>1, StateUpdate DEF JournalStates, OpenStates
  <2>3. \/ journal' = journal /\ Release
        \/ journal' = [journal EXCEPT ![txn] = j] /\ Release
    BY <1>29 DEF Close
  <2> HIDE DEF j
  <2> QED
    BY <1>29, <2>2, <2>3, <2>1, UpdateAssumption DEF TypeOK, RunShape, Owning, Serving,
       QuietSteps, SkillSteps, CoreSteps, Unmoved, SameUpdate, Close, Release, files
<1>30. CASE Crash
  BY <1>30 DEF Serving, QuietSteps, SkillSteps, CoreSteps, RunShape, Unmoved, Crash, Release,
     files
<1>31. CASE OperateService
  BY <1>31 DEF Serving, QuietSteps, SkillSteps, CoreSteps, RunShape, Unmoved, OperateService,
     Drained, Reinstalled, files, run
<1>32. CASE Damage
  BY <1>32 DEF Serving, QuietSteps, SkillSteps, CoreSteps, RunShape, Unmoved, Damage, run
<1>33. CASE UNCHANGED vars
  BY <1>33 DEF Serving, Unmoved, vars, files, run
<1> QED BY <1>1, <1>2, <1>3, <1>4, <1>5, <1>6, <1>7, <1>8, <1>9, <1>10, <1>11, <1>12, <1>13,
   <1>14, <1>15, <1>16, <1>17, <1>18, <1>19, <1>20, <1>21, <1>22, <1>23, <1>24, <1>25, <1>26,
   <1>27, <1>28, <1>29, <1>30, <1>31, <1>32, <1>33 DEF Next, Apply, Recover, Rollback

(* Only the last step of a rollback writes rolled-back, and of an apply finalized. *)
LEMMA ClosedJournals ==
    ASSUME IInv, NEW u \in Txns, journal'[u] # journal[u], [Next]_vars
    PROVE  ClosingStep(u)
<1>. USE DEF IInv
<1>1. ASSUME NEW t \in Txns, NEW v \in Versions, StartUpdate(t, v)
      PROVE  ClosingStep(u)
  <2> DEFINE j == [state |-> "prepared", target |-> v, owned |-> service.owned,
                   prevCore |-> core, prevSkills |-> skills, prevDir |-> DirOf(skills),
                   actCore |-> NoPointer, actSkills |-> NoSkills]
  <2>2. /\ j \in Journals /\ j.state = "prepared" /\ j.target = v /\ j.owned = service.owned
        /\ j.prevCore = core /\ j.prevSkills = skills /\ j.actCore = NoPointer
    BY DEF TypeOK, Journals, JournalStates, OpenStates, DirOf, SkillPointers, Dirs
  <2>3. mem' = j /\ journal' = [journal EXCEPT ![t] = j]
    BY <1>1 DEF StartUpdate
  <2> HIDE DEF j
  <2> QED
    BY <1>1, <2>2, <2>3 DEF TypeOK, ClosingStep, StartUpdate, files
<1>2. ASSUME NEW t \in Txns, NEW v \in Versions, StartInstall(t, v)
      PROVE  ClosingStep(u)
  BY <1>2 DEF StartInstall
<1>3. CASE Drain
  BY <1>3 DEF Drain
<1>4. CASE Stage
  BY <1>4 DEF Stage
<1>5. CASE Check
  BY <1>5 DEF Check
<1>6. CASE SkillFiles
  BY <1>6 DEF SkillFiles
<1>7. CASE SkillManifest
  BY <1>7 DEF SkillManifest
<1>8. CASE SkillReuse
  BY <1>8 DEF SkillReuse
<1>9. CASE SkillPointer
  BY <1>9 DEF SkillPointer
<1>10. CASE Place
  BY <1>10 DEF Place
<1>11. CASE Point
  BY <1>11 DEF Point
<1>12. CASE CorePointer
  BY <1>12 DEF CorePointer
<1>13. CASE Activate
  <2>1. mem \in Journals /\ txn \in Txns
    BY <1>13 DEF Activate, TypeOK, RunShape, JournalSteps, Steps
  <2> DEFINE j == [mem EXCEPT !.state = "activated", !.actCore = core, !.actSkills = skills]
  <2>2. /\ j \in Journals /\ j.state = "activated" /\ SameUpdate(mem, j)
        /\ j.actCore = core /\ j.actSkills = skills
    <3>1. core \in Pointers /\ skills \in SkillPointers
      BY DEF TypeOK
    <3> QED BY <2>1, <3>1 DEF Journals, JournalStates, OpenStates, SameUpdate
  <2>3. \/ /\ mem' = j /\ journal' = [journal EXCEPT ![txn] = j]
           /\ Goto(IF mem.owned THEN "start" ELSE "finalize")
        \/ mem' = j /\ Goto("undoCore") /\ UNCHANGED journal
        \/ Abort /\ UNCHANGED journal
    BY <1>13 DEF Activate, Record
  <2> HIDE DEF j
  <2> QED
    BY <1>13, <2>2, <2>3, <2>1 DEF TypeOK, ClosingStep, Activate, Abort, Goto, Release,
       IsInstall, files
<1>14. CASE Start
  BY <1>14 DEF Start
<1>15. CASE Finalize
  <2>1. mem \in Journals /\ txn \in Txns
    BY <1>15 DEF Finalize, TypeOK, RunShape, JournalSteps, Steps
  <2> DEFINE j == [mem EXCEPT !.state = "finalized"]
  <2>2. /\ j \in Journals /\ j.state = "finalized" /\ SameUpdate(mem, j)
        /\ j.actCore = mem.actCore /\ j.actSkills = mem.actSkills
    BY <2>1, StateUpdate DEF JournalStates, OpenStates
  <2>3. \/ journal' = [journal EXCEPT ![txn] = j] /\ Release
        \/ mem' = j /\ Goto("undoCore") /\ UNCHANGED journal
    BY <1>15 DEF Finalize
  <2> HIDE DEF j
  <2>4. u = txn /\ journal'[u] = j
    BY <1>15, <2>1, <2>3 DEF TypeOK
  <2> QED BY <1>15, <2>2, <2>4 DEF ClosingStep
<1>16. CASE UndoCore
  BY <1>16 DEF UndoCore
<1>17. CASE UndoSkills
  BY <1>17 DEF UndoSkills
<1>18. CASE UndoJournal
  <2>1. mem \in Journals /\ txn \in Txns
    BY <1>18 DEF UndoJournal, TypeOK, RunShape, JournalSteps, Steps
  <2> DEFINE j == [mem EXCEPT !.state = "restored-after-service-failure"]
  <2>2. /\ j \in Journals /\ j.state = "restored-after-service-failure" /\ SameUpdate(mem, j)
        /\ j.actCore = mem.actCore /\ j.actSkills = mem.actSkills
    BY <2>1, StateUpdate DEF JournalStates, OpenStates
  <2>3. \/ mem' = j /\ journal' = [journal EXCEPT ![txn] = j] /\ Goto("undoStart")
        \/ mem' = j /\ Goto("undoStart") /\ UNCHANGED journal
    BY <1>18 DEF UndoJournal, Record
  <2> HIDE DEF j
  <2> QED
    BY <1>18, <2>2, <2>3, <2>1 DEF TypeOK, ClosingStep, UndoJournal, Goto, files
<1>19. CASE FailJournal
  <2>1. mem \in Journals /\ txn \in Txns
    BY <1>19 DEF FailJournal, TypeOK, RunShape, JournalSteps, Steps
  <2> DEFINE j == [mem EXCEPT !.state = "service-recovery-required"]
  <2>2. /\ j \in Journals /\ j.state = "service-recovery-required" /\ SameUpdate(mem, j)
        /\ j.actCore = mem.actCore /\ j.actSkills = mem.actSkills
    BY <2>1, StateUpdate DEF JournalStates, OpenStates
  <2>3. \/ mem' = j /\ journal' = [journal EXCEPT ![txn] = j] /\ Goto("undoStart")
        \/ mem' = j /\ Goto("undoStart") /\ UNCHANGED journal
    BY <1>19 DEF FailJournal, Record
  <2> HIDE DEF j
  <2> QED
    BY <1>19, <2>2, <2>3, <2>1 DEF TypeOK, ClosingStep, FailJournal, Goto, files
<1>20. CASE UndoStart
  BY <1>20 DEF UndoStart
<1>21. ASSUME NEW t \in Txns, StartRollback(t)
      PROVE  ClosingStep(u)
  BY <1>21 DEF StartRollback
<1>22. CASE BackDrain
  BY <1>22 DEF BackDrain
<1>23. CASE BackCore
  BY <1>23 DEF BackCore
<1>24. CASE BackSkills
  BY <1>24 DEF BackSkills
<1>25. CASE BackJournal
  <2>1. mem \in Journals /\ txn \in Txns
    BY <1>25 DEF BackJournal, TypeOK, RunShape, JournalSteps, Steps
  <2> DEFINE j == [mem EXCEPT !.state = "restored-after-service-failure"]
  <2>2. /\ j \in Journals /\ j.state = "restored-after-service-failure" /\ SameUpdate(mem, j)
        /\ j.actCore = mem.actCore /\ j.actSkills = mem.actSkills
    BY <2>1, StateUpdate DEF JournalStates, OpenStates
  <2>3. \/ mem' = j /\ journal' = [journal EXCEPT ![txn] = j] /\ Goto("backStart")
        \/ UNCHANGED journal /\ Release
    BY <1>25 DEF BackJournal
  <2> HIDE DEF j
  <2> QED
    BY <1>25, <2>2, <2>3, <2>1 DEF TypeOK, ClosingStep, BackJournal, Goto, Release, files
<1>26. CASE BackStart
  BY <1>26 DEF BackStart
<1>27. CASE RedoCore
  BY <1>27 DEF RedoCore
<1>28. CASE RedoSkills
  BY <1>28 DEF RedoSkills
<1>29. CASE Close
  <2>1. mem \in Journals /\ txn \in Txns
    BY <1>29 DEF Close, TypeOK, RunShape, JournalSteps, Steps
  <2> DEFINE j == [mem EXCEPT !.state = "rolled-back"]
  <2>2. /\ j \in Journals /\ j.state = "rolled-back" /\ SameUpdate(mem, j)
        /\ j.actCore = mem.actCore /\ j.actSkills = mem.actSkills
    BY <2>1, StateUpdate DEF JournalStates, OpenStates
  <2>3. \/ journal' = journal /\ Release
        \/ journal' = [journal EXCEPT ![txn] = j] /\ Release
    BY <1>29 DEF Close
  <2> HIDE DEF j
  <2>4. u = txn /\ journal'[u] = j
    BY <1>29, <2>1, <2>3 DEF TypeOK
  <2> QED BY <1>29, <2>2, <2>4 DEF ClosingStep
<1>30. CASE Crash
  BY <1>30 DEF Crash
<1>31. CASE OperateService
  BY <1>31 DEF OperateService
<1>32. CASE Damage
  BY <1>32 DEF Damage
<1>33. CASE UNCHANGED vars
  BY <1>33 DEF vars
<1> QED BY <1>1, <1>2, <1>3, <1>4, <1>5, <1>6, <1>7, <1>8, <1>9, <1>10, <1>11, <1>12, <1>13,
   <1>14, <1>15, <1>16, <1>17, <1>18, <1>19, <1>20, <1>21, <1>22, <1>23, <1>24, <1>25, <1>26,
   <1>27, <1>28, <1>29, <1>30, <1>31, <1>32, <1>33 DEF Next, Apply, Recover, Rollback

-----------------------------------------------------------------------------
(* The installation a first install leaves satisfies the invariant. *)
LEMMA Initially == Init => IInv
<1> SUFFICES ASSUME Init PROVE IInv
  OBVIOUS
<1>1. core \in Pointers
  BY UpdateAssumption DEF Init, Pointers, Parts, Graphd
<1>2. TypeOK
  <2>1. coreFile \in [Versions -> [Parts -> Dirs]] /\ skillDir \in [Versions -> Dirs]
    BY DEF Init, Dirs
  <2>2. service \in [owned : BOOLEAN, on : Pointers \cup {Down}]
    <3>1. service \in {[owned |-> TRUE, on |-> core], [owned |-> FALSE, on |-> Down]}
      BY DEF Init
    <3>2. CASE service = [owned |-> TRUE, on |-> core]
      BY <1>1, <3>2
    <3>3. CASE service = [owned |-> FALSE, on |-> Down]
      BY <3>3
    <3> QED BY <3>1, <3>2, <3>3
  <2> QED BY <1>1, <2>1, <2>2, UpdateAssumption DEF Init, TypeOK, SkillPointers, Steps
<1>3. RunShape /\ JournalsSound /\ Owning /\ Serving
  BY DEF Init, RunShape, JournalsSound, Owning, Serving, JournalSteps
<1>4. Moving
  BY DEF Init, Moving, SkillSteps, CoreSteps, LateSteps
<1>5. PayloadInv
  BY UpdateAssumption
     DEF Init, PayloadInv, HasCore, HasSkills, PartsOf, Parts, Graphd, Placed
<1> QED BY <1>2, <1>3, <1>4, <1>5 DEF IInv

(* The invariant holds in every reachable state. *)
LEMMA Inductive == Spec => []IInv
<1>1. IInv /\ [Next]_vars => IInv'
  BY TypeStep, RunShapeStep, JournalsStep, PayloadsStep, MovingStep, OwningStep, ServingStep
     DEF IInv
<1> QED BY Initially, <1>1, PTL DEF Spec

(* Pointers, payloads, journals and the state of an operation keep their types. *)
THEOREM UpdateTypes == Spec => []TypeOK
<1>1. IInv => TypeOK
  BY DEF IInv
<1> QED BY Inductive, <1>1, PTL

(* Both pointers always name payloads that were put in place completely, for any number of     *)
(* versions, updates, installs and rollbacks, wherever they were interrupted.                  *)
THEOREM PayloadsArePlaced == Spec => []PayloadsBehindPointers
<1>1. IInv => PayloadsBehindPointers
  BY DEF IInv, PayloadInv, HasCore, HasSkills, Placed, PayloadsBehindPointers
<1> QED BY Inductive, <1>1, PTL

(* A journal closed as rolled-back leaves the pointers the update found, with its service       *)
(* running from them, whatever was interrupted before (rollback).                              *)
THEOREM RollbackIsTrue == Spec => RollbackRestores
<1>1. ASSUME IInv, [Next]_vars, NEW t \in Txns, journal'[t] # journal[t],
             journal'[t].state = "rolled-back"
      PROVE  /\ core' = journal[t].prevCore /\ skills' = journal[t].prevSkills
             /\ journal[t].owned => service' = [owned |-> TRUE, on |-> core']
  <2>1. t = txn /\ Close
    BY <1>1, ClosedJournals DEF ClosingStep
  <2>2. mem # NoJournal /\ SameUpdate(mem, journal[txn])
    BY <1>1, <2>1 DEF Close, IInv, RunShape, JournalSteps, Steps
  <2> QED BY <1>1, <2>1, <2>2 DEF Close, IInv, Owning, Serving, SameUpdate
<1>2. IInv /\ [Next]_vars =>
        [\A t \in Txns :
            journal'[t] # journal[t] /\ journal'[t].state = "rolled-back" =>
                /\ core' = journal[t].prevCore /\ skills' = journal[t].prevSkills
                /\ journal[t].owned => service' = [owned |-> TRUE, on |-> core']]_vars
  BY <1>1
<1> QED BY Inductive, <1>2, PTL DEF Spec, RollbackRestores

(* A journal closed as finalized has both components and the skills of its target active and    *)
(* an owned service running from them (apply), also over payloads of earlier attempts.         *)
THEOREM FinishIsWhole == Spec => FinishedUpdateIsWhole
<1>1. ASSUME IInv, [Next]_vars, NEW t \in Txns, journal'[t] # journal[t],
             journal'[t].state = "finalized"
      PROVE  /\ core'.part = 0 /\ core'.ver = journal[t].target
             /\ skills' = journal[t].target
             /\ journal[t].owned => service' = [owned |-> TRUE, on |-> core']
  <2>1. t = txn /\ Finalize
    BY <1>1, ClosedJournals DEF ClosingStep
  <2>2. mem # NoJournal /\ SameUpdate(mem, journal[txn]) /\ ver = mem.target
    BY <1>1, <2>1 DEF Finalize, IInv, RunShape, JournalSteps, Steps
  <2> QED BY <1>1, <2>1, <2>2 DEF Finalize, IInv, Moving, LateSteps, Serving, SameUpdate
<1>2. IInv /\ [Next]_vars =>
        [\A t \in Txns :
            journal'[t] # journal[t] /\ journal'[t].state = "finalized" =>
                /\ core'.part = 0 /\ core'.ver = journal[t].target
                /\ skills' = journal[t].target
                /\ journal[t].owned => service' = [owned |-> TRUE, on |-> core']]_vars
  BY <1>1
<1> QED BY Inductive, <1>2, PTL DEF Spec, FinishedUpdateIsWhole

(* A recovery or a rollback overwrites only a pointer its update found or wrote                 *)
(* (recover_after_activation, rollback).                                                       *)
THEOREM OthersPointersSurvive == Spec => OnlyOwnPointersAreReplaced
<1>1. ASSUME IInv, [Next]_vars, Recover \/ Rollback
      PROVE  /\ core' # core => core = mem.prevCore \/ core.txn = txn
             /\ skills' # skills => skills \in {mem.prevSkills, mem.target}
  <2>1. core' # core \/ skills' # skills => mem # NoJournal
    BY <1>1 DEF Recover, Rollback, UndoCore, UndoSkills, UndoJournal, FailJournal, UndoStart,
       StartRollback, BackDrain, BackCore, BackSkills, BackJournal, BackStart, RedoCore,
       RedoSkills, Close, IInv, RunShape, JournalSteps, Steps
  <2> QED BY <1>1, <2>1 DEF IInv, Owning
<1>2. IInv /\ [Next]_vars =>
        [Recover \/ Rollback =>
            /\ core' # core => core = mem.prevCore \/ core.txn = txn
            /\ skills' # skills => skills \in {mem.prevSkills, mem.target}]_vars
  BY <1>1
<1> QED BY Inductive, <1>2, PTL DEF Spec, OnlyOwnPointersAreReplaced

(* Every other step leaves both pointers alone. *)
LEMMA PointersMoveIn ==
    ASSUME [Next]_vars, core' # core \/ skills' # skills
    PROVE  MovingActions
BY DEF MovingActions, Next, Apply, Recover, Rollback, vars, StartUpdate, StartInstall, Drain,
   Stage, Check, SkillFiles, SkillManifest, SkillReuse, Place, Activate, Start, Finalize,
   UndoJournal, FailJournal, UndoStart, StartRollback, BackDrain, BackJournal, BackStart, Close,
   Crash, OperateService, Damage

(* An owned service is down whenever an update or a rollback moves a pointer, except in the     *)
(* restoration of a failed apply (ServiceLifecycle::drain).                                    *)
THEOREM MovesAreDrained == Spec => PointersMoveDrained
<1>1. ASSUME IInv, [Next]_vars, core' # core \/ skills' # skills,
             ~IsInstall, pc \notin {"undoCore", "undoSkills"}, mem.owned
      PROVE  service.on = Down
  <2>1. MovingActions
    BY <1>1, PointersMoveIn
  <2>2. CASE BackCore \/ BackSkills
    BY <1>1, <2>2 DEF BackCore, BackSkills, IInv, Serving, Owning, Unmoved, IsInstall
  <2>3. CASE SkillPointer \/ Point \/ CorePointer \/ RedoCore \/ RedoSkills
    BY <1>1, <2>3 DEF SkillPointer, Point, CorePointer, RedoCore, RedoSkills, IInv, Serving,
       QuietSteps, SkillSteps, CoreSteps, IsInstall
  <2> QED BY <1>1, <2>1, <2>2, <2>3 DEF MovingActions, UndoCore, UndoSkills
<1>2. IInv /\ [Next]_vars =>
        [/\ core' # core \/ skills' # skills
         /\ ~IsInstall /\ pc \notin {"undoCore", "undoSkills"}
         => (mem.owned => service.on = Down)]_vars
  BY <1>1
<1> QED BY Inductive, <1>2, PTL DEF Spec, PointersMoveDrained

(* Both closing states of a journal are true, after any history of         *)
(* transactions (finalize, rollback, recover_after_activation).            *)
THEOREM JournalsCloseTrue == Spec => ClosedJournalIsTrue
  BY RollbackIsTrue, FinishIsWhole, PTL DEF ClosedJournalIsTrue

(* Pointers have their payloads, are their own update's and move drained,  *)
(* for any transactions and versions (apply, rollback, apply_ecosystem).   *)
THEOREM PointersAreSafe == Spec => PointersMoveSafely
  BY PayloadsArePlaced, OthersPointersSurvive, MovesAreDrained, PTL DEF PointersMoveSafely
-----------------------------------------------------------------------------
(* The ecosystem's removal.                                                *)

OperatorRecords == [step : RemovalSteps, rec : Recoveries \cup {NoRecovery},
                    file : Payloads \cup {NoPayload}, saw : {"absent", "own", "edited"}]

\* What a running removal works on is there.
OperatorShape(p) ==
    /\ ops[p].step # "idle" => ops[p].rec \in Recoveries
    /\ ops[p].step \in {"remove", "note"} => ops[p].file \in Left(ops[p].rec)

RemovalTypes ==
    /\ UninstallTypeOK
    /\ ops \in [Operators -> OperatorRecords]
    /\ \A p \in Operators : OperatorShape(p)
    /\ \A n \in DOMAIN activations : activations[n].from < n

\* What the journals hold.
LEMMA ActivationsAreTyped ==
    ASSUME UninstallTypeOK
    PROVE  /\ activations \in Seq(ActivationRecords)
           /\ DOMAIN activations = 1..Len(activations) /\ Len(activations) \in Nat
           /\ \A n \in 1..Len(activations) : activations[n] \in ActivationRecords
BY DEF UninstallTypeOK

\* The plan of the present state is one of the plans.
LEMMA BuildIsAPlan ==
    ASSUME UninstallTypeOK, current # 0
    PROVE  Build \in RemovalPlans
<1> USE UninstallAssumption
<1>a. /\ DOMAIN activations = 1..Len(activations) /\ Len(activations) \in Nat
      /\ \A n \in 1..Len(activations) : activations[n] \in ActivationRecords
  BY ActivationsAreTyped
<1>b. 1..Len(activations) \subseteq 1..MaxActivations
  BY <1>a DEF UninstallTypeOK
<1>1. Owned \subseteq DOMAIN activations
  BY DEF Owned
<1>2. \A n \in Owned : <<n, activations[n].undone>> \in (1..MaxActivations) \X BOOLEAN
  BY <1>1, <1>a, <1>b DEF ActivationRecords
<1>3. \A acts \in SUBSET DOMAIN activations : ReleasesOf(acts) \subseteq Releases
  BY <1>a DEF ReleasesOf, ActivationRecords
<1>4. ReleasesOf(Owned) \X {"versions"} \cup OwnedSkills \subseteq Payloads
  BY <1>1, <1>3 DEF OwnedSkills, Payloads, Kinds
<1>5. current \in 1..MaxActivations /\ skillsAt \in Releases \cup {0} /\ unit \in 0..MaxActivations
  BY <1>a DEF UninstallTypeOK
<1>6. {<<n, activations[n].undone>> : n \in Owned} \in SUBSET ((1..MaxActivations) \X BOOLEAN)
  BY <1>2
<1> QED BY <1>4, <1>5, <1>6 DEF Build, RemovalPlans

\* The operators that do not move keep their record, the one that does gets one of the right shape.
LEMMA OneMoves ==
    ASSUME NEW p \in Operators, RemovalTypes,
           NEW new \in OperatorRecords, ops' = [ops EXCEPT ![p] = new],
           new.step # "idle" => new.rec \in Recoveries,
           new.step \in {"remove", "note"} => new.file \in Left(new.rec)
    PROVE  /\ ops' \in [Operators -> OperatorRecords]
           /\ \A q \in Operators : OperatorShape(q)'
<1>1. ops' \in [Operators -> OperatorRecords]
  BY DEF RemovalTypes
<1>2. \A q \in Operators : q # p => ops'[q] = ops[q]
  BY DEF RemovalTypes
<1>3. ops'[p] = new
  BY DEF RemovalTypes
<1>4. \A q \in Operators : OperatorShape(q)'
  BY <1>2, <1>3 DEF RemovalTypes, OperatorShape, Left
<1> QED BY <1>1, <1>4

LEMMA RemovalStepTypes ==
    ASSUME RemovalTypes, UninstallNext
    PROVE  RemovalTypes'
<1> USE UninstallAssumption
<1> DEFINE Typed(x) == x \in [Operators -> OperatorRecords]
<1>0. (ops' \in [Operators -> OperatorRecords]) =>
        \A p \in Operators :
          /\ ops'[p].step \in RemovalSteps
          /\ ops'[p].rec = NoRecovery \/ ops'[p].rec \in Recoveries
          /\ ops'[p].file \in Payloads \cup {NoPayload} /\ ops'[p].saw \in {"absent", "own", "edited"}
  BY DEF OperatorRecords
<1>a. \A p \in Operators : ops[p] \in OperatorRecords /\ OperatorShape(p)
  BY DEF RemovalTypes
<1>b. Idle \in OperatorRecords /\ Idle.step = "idle"
  BY DEF Idle, OperatorRecords, RemovalSteps
<1>c. \A s \in RemovalSteps, rec \in Recoveries :
        [step |-> s, rec |-> rec, file |-> NoPayload, saw |-> "absent"] \in OperatorRecords
  BY DEF OperatorRecords
<1>1. CASE Review
  BY <1>1, BuildIsAPlan DEF Review, RemovalTypes, UninstallTypeOK, installed, ghosts, OperatorShape, Left
<1>2. CASE RefusedAtOnce
  BY <1>2 DEF RefusedAtOnce, uninstallVars, RemovalTypes, UninstallTypeOK, installed, ghosts, OperatorShape, Left
<1>3. CASE InstallDies
  BY <1>3 DEF InstallDies, RemovalTypes, UninstallTypeOK, installed, ghosts, OperatorShape, Left
<1>4. CASE InstallUnit
  <2>1. lateUnit' \in BOOLEAN
    BY <1>4, Zenon DEF InstallUnit, RemovalTypes, UninstallTypeOK
  <2> QED BY <1>4, <2>1 DEF InstallUnit, RemovalTypes, UninstallTypeOK, installed, ghosts, OperatorShape, Left
<1>5. CASE \E f \in Payloads : EditPayload(f)
  BY <1>5 DEF EditPayload, RemovalTypes, UninstallTypeOK, installed, ghosts, OperatorShape, Left
<1>6. ASSUME NEW p \in Operators, NEW s \in RemovalSteps, NEW rec \in Recoveries, Move(p, s, rec),
             s \notin {"remove", "note"}
      PROVE  (\A q \in Operators : OperatorShape(q)') /\ ops' \in [Operators -> OperatorRecords]
  BY <1>6, <1>c, OneMoves DEF Move
<1>7. ASSUME NEW p \in Operators, Refused(p)
      PROVE  /\ (\A q \in Operators : OperatorShape(q)') /\ ops' \in [Operators -> OperatorRecords]
             /\ holder' \in Operators \cup {NoOperator}
  <2>1. (\A q \in Operators : OperatorShape(q)') /\ ops' \in [Operators -> OperatorRecords]
    BY <1>7, <1>b, OneMoves DEF Refused
  <2> QED BY <1>7, <2>1 DEF Refused, RemovalTypes, UninstallTypeOK
<1>8. \A plan \in RemovalPlans : FreshRecord(plan) \in Recoveries
  BY DEF FreshRecord, Recoveries
<1>9. ASSUME NEW p \in Operators, ReadRecovery(p)
      PROVE  RemovalTypes'
  <2>1. PICK rec \in Recoveries : Move(p, "lock", rec)
    BY <1>9, <1>8 DEF ReadRecovery, RemovalTypes, UninstallTypeOK
  <2>2. (\A q \in Operators : OperatorShape(q)') /\ ops' \in [Operators -> OperatorRecords]
    BY <1>6, <2>1 DEF RemovalSteps
  <2> QED BY <1>9, <1>0, <2>2 DEF ReadRecovery, RemovalTypes, UninstallTypeOK, installed, ghosts
<1>10. ASSUME NEW p \in Operators, Lock(p)
       PROVE  RemovalTypes'
  <2>1. ops[p].rec \in Recoveries
    BY <1>10, <1>a DEF Lock, Stands, OperatorShape
  <2>2. /\ (\A q \in Operators : OperatorShape(q)') /\ ops' \in [Operators -> OperatorRecords]
        /\ holder' \in Operators \cup {NoOperator}
    BY <1>10, <1>6, <1>7, <2>1 DEF Lock, Begin, RemovalSteps
  <2>3. recovery' \in {recovery, ops[p].rec} 
    BY <1>10 DEF Lock, Begin
  <2>4. rewound' \in BOOLEAN
    BY <1>10, Zenon DEF Lock, Begin, Acts, RemovalTypes, UninstallTypeOK
  <2> QED BY <1>10, <1>0, <2>1, <2>2, <2>3, <2>4 DEF Lock, RemovalTypes, UninstallTypeOK, installed
<1>11. ASSUME NEW p \in Operators, RemoveUnit(p)
       PROVE  RemovalTypes'
  <2> DEFINE gone == [ops[p].rec EXCEPT !.unitGone = TRUE]
  <2>1. ops[p].rec \in Recoveries /\ gone \in Recoveries
    BY <1>11, <1>a DEF RemoveUnit, Stands, OperatorShape, Recoveries
  <2>2. (Move(p, "noteUnit", gone) /\ UNCHANGED holder) \/ Refused(p)
    BY <1>11 DEF RemoveUnit
  <2> HIDE DEF gone
  <2>3. /\ (\A q \in Operators : OperatorShape(q)') /\ ops' \in [Operators -> OperatorRecords]
        /\ holder' \in Operators \cup {NoOperator}
    BY <1>6, <1>7, <2>1, <2>2 DEF RemovalSteps, RemovalTypes, UninstallTypeOK
  <2>4. unit' \in {0, unit}
    BY <1>11 DEF RemoveUnit
  <2> QED BY <1>11, <1>0, <2>3, <2>4, ActivationsAreTyped DEF RemoveUnit, RemovalTypes, UninstallTypeOK, ghosts
<1>12. ASSUME NEW p \in Operators, NoteUnit(p)
       PROVE  RemovalTypes'
  <2>1. ops[p].rec \in Recoveries
    BY <1>12, <1>a DEF NoteUnit, Stands, OperatorShape
  <2>2. (\A q \in Operators : OperatorShape(q)') /\ ops' \in [Operators -> OperatorRecords]
    BY <1>12, <1>6, <2>1 DEF NoteUnit, RemovalSteps
  <2> QED BY <1>12, <1>0, <2>1, <2>2 DEF NoteUnit, RemovalTypes, UninstallTypeOK, ghosts, installed
<1>13. ASSUME NEW p \in Operators, Look(p)
       PROVE  RemovalTypes'
  <2>1. ops[p].rec \in Recoveries /\ ops[p] \in OperatorRecords
    BY <1>13, <1>a DEF Look, Stands, OperatorShape
  <2>2. PICK f \in Left(ops[p].rec) : Looked(p, f, IF payload[f] = "own" THEN "remove" ELSE "note", payload[f])
    BY <1>13 DEF Look
  <2>3. f \in Payloads
    BY <2>1, <2>2 DEF Left, Recoveries, RemovalPlans
  <2> DEFINE step == IF payload[f] = "own" THEN "remove" ELSE "note"
             new == [ops[p] EXCEPT !.step = step, !.file = f, !.saw = payload[f]]
  <2>4. new \in OperatorRecords /\ new.rec = ops[p].rec /\ new.file = f
    BY <2>1, <2>3 DEF OperatorRecords, RemovalSteps, RemovalTypes, UninstallTypeOK
  <2>5. ops' = [ops EXCEPT ![p] = new]
    BY <2>2 DEF Looked
  <2> HIDE DEF new
  <2>6. (\A q \in Operators : OperatorShape(q)') /\ ops' \in [Operators -> OperatorRecords]
    BY <2>1, <2>2, <2>4, <2>5, OneMoves
  <2> QED BY <1>13, <1>0, <2>6 DEF Look, RemovalTypes, UninstallTypeOK, ghosts, installed
<1>14. ASSUME NEW p \in Operators, Remove(p)
       PROVE  RemovalTypes'
  <2> DEFINE new == [ops[p] EXCEPT !.step = "note"]
  <2>1. /\ ops[p] \in OperatorRecords /\ ops[p].rec \in Recoveries /\ ops[p].file \in Left(ops[p].rec)
    BY <1>14, <1>a DEF Remove, Stands, OperatorShape
  <2>2. new \in OperatorRecords /\ new.rec = ops[p].rec /\ new.file = ops[p].file /\ new.step = "note"
    BY <2>1 DEF OperatorRecords, RemovalSteps
  <2>3. ops' = [ops EXCEPT ![p] = new]
    BY <1>14 DEF Remove
  <2> HIDE DEF new
  <2>4. (\A q \in Operators : OperatorShape(q)') /\ ops' \in [Operators -> OperatorRecords]
    BY <2>1, <2>2, <2>3, OneMoves
  <2> QED BY <1>14, <1>0, <2>4 DEF Remove, RemovalTypes, UninstallTypeOK, ghosts, installed
<1>15. ASSUME NEW p \in Operators, Note(p)
       PROVE  RemovalTypes'
  <2>1. ops[p].rec \in Recoveries /\ ops[p].file \in Left(ops[p].rec)
    BY <1>15, <1>a DEF Note, Stands, OperatorShape
  <2>2. ops[p].file \in Payloads
    BY <2>1 DEF Left, Recoveries, RemovalPlans
  <2>3. PICK rec \in Recoveries : recovery' = rec /\ Move(p, "look", rec)
    BY <1>15, <2>1, <2>2 DEF Note, Recoveries
  <2>4. (\A q \in Operators : OperatorShape(q)') /\ ops' \in [Operators -> OperatorRecords]
    BY <1>6, <2>3 DEF RemovalSteps
  <2> QED BY <1>15, <1>0, <2>3, <2>4 DEF Note, RemovalTypes, UninstallTypeOK, ghosts, installed
<1>16. ASSUME NEW p \in Operators, CompleteRemoval(p)
       PROVE  RemovalTypes'
  <2>1. ops[p].rec \in Recoveries
    BY <1>16, <1>a DEF CompleteRemoval, Stands, OperatorShape
  <2>2. PICK rec \in Recoveries : recovery' = rec /\ Move(p, "pointer", rec)
    BY <1>16, <2>1 DEF CompleteRemoval, Recoveries
  <2>3. (\A q \in Operators : OperatorShape(q)') /\ ops' \in [Operators -> OperatorRecords]
    BY <1>6, <2>2 DEF RemovalSteps
  <2> QED BY <1>16, <1>0, <2>2, <2>3 DEF CompleteRemoval, RemovalTypes, UninstallTypeOK, ghosts, installed
<1>17. ASSUME NEW p \in Operators, RemovePointer(p)
       PROVE  RemovalTypes'
  <2>1. ops[p].rec \in Recoveries
    BY <1>17, <1>a DEF RemovePointer, Stands, OperatorShape
  <2>2. /\ (\A q \in Operators : OperatorShape(q)') /\ ops' \in [Operators -> OperatorRecords]
        /\ holder' \in Operators \cup {NoOperator}
    BY <1>17, <1>6, <1>7, <2>1 DEF RemovePointer, RemovalSteps, RemovalTypes, UninstallTypeOK
  <2>3. current' \in {0, current}
    BY <1>17 DEF RemovePointer
  <2> QED BY <1>17, <1>0, <2>2, <2>3 DEF RemovePointer, RemovalTypes, UninstallTypeOK, ghosts
<1>18. ASSUME NEW p \in Operators, RemoveSkillsPointer(p)
       PROVE  RemovalTypes'
  <2>1. skillsAt' \in {0, skillsAt}
    BY <1>18 DEF RemoveSkillsPointer
  <2> QED BY <1>18, <1>7, <1>0, <2>1 DEF RemoveSkillsPointer, RemovalTypes, UninstallTypeOK, ghosts
<1>19. ASSUME NEW p \in Operators, Die(p)
       PROVE  RemovalTypes'
  BY <1>19, <1>7, <1>0 DEF Die, RemovalTypes, UninstallTypeOK, ghosts, installed
<1>20. ASSUME NEW v \in Releases, NEW era \in Nat, NEW from \in 0..Len(activations), PointAt(v, era, from), Room
       PROVE  /\ activations' \in Seq(ActivationRecords) /\ Len(activations') = Len(activations) + 1
              /\ Len(activations') <= MaxActivations /\ Len(activations') \in Nat
              /\ current' = Len(activations') /\ skillsAt' \in Releases
              /\ payload' \in [Payloads -> {"absent", "own", "edited"}]
              /\ \A n \in DOMAIN activations' : activations'[n].from < n
  <2> DEFINE new == [ver |-> v, era |-> era, from |-> from, skills |-> skillsAt, undone |-> FALSE]
  <2>1. activations \in Seq(ActivationRecords) /\ Len(activations) \in Nat
    BY ActivationsAreTyped DEF RemovalTypes
  <2>2. new \in ActivationRecords /\ new.from = from
    BY <1>20, <2>1 DEF ActivationRecords, RemovalTypes, UninstallTypeOK
  <2>a. activations' = Append(activations, new)
    BY <1>20 DEF PointAt
  <2>3. payload' \in [Payloads -> {"absent", "own", "edited"}]
    BY <1>20 DEF PointAt, RemovalTypes, UninstallTypeOK
  <2> HIDE DEF new
  <2>4. activations' \in Seq(ActivationRecords) /\ Len(activations') = Len(activations) + 1
    BY <2>1, <2>2, <2>a
  <2>6. \A n \in DOMAIN activations' : activations'[n].from < n
    BY <2>1, <2>2, <2>a, <1>20 DEF RemovalTypes
  <2>5. Len(activations') <= MaxActivations /\ Len(activations') \in Nat
    BY <1>20, <2>1, <2>4 DEF Room
  <2> QED BY <1>20, <2>3, <2>4, <2>5, <2>6 DEF PointAt
<1>21. \A n \in 1..Len(activations) : activations[n] \in ActivationRecords
  BY ActivationsAreTyped DEF RemovalTypes
<1>22. ASSUME NEW v \in Releases, Install(v)
       PROVE  RemovalTypes'
  <2>1. (IF current = 0 THEN Len(activations) + 1 ELSE activations[current].era) \in Nat
    BY <1>21 DEF ActivationRecords, RemovalTypes, UninstallTypeOK
  <2> QED BY <1>22, <1>20, <2>1, ActivationsAreTyped DEF Install, RemovalTypes, UninstallTypeOK, ghosts, OperatorShape, Left
<1>23. ASSUME NEW v \in Releases, UpdateTo(v)
       PROVE  RemovalTypes'
  <2>1. activations[current].era \in Nat /\ current \in 0..Len(activations)
    BY <1>21, <1>23 DEF UpdateTo, ActivationRecords, RemovalTypes, UninstallTypeOK
  <2>2. disturbed' \in BOOLEAN
    BY <1>23, Zenon DEF UpdateTo, Disturb, RemovalTypes, UninstallTypeOK
  <2> QED BY <1>23, <1>20, <2>1, <2>2, ActivationsAreTyped DEF UpdateTo, Disturb, RemovalTypes, UninstallTypeOK, OperatorShape, Left
<1>24. ASSUME RollBack
       PROVE  RemovalTypes'
  <2>1. /\ current \in 1..Len(activations) /\ Len(activations) \in Nat
        /\ activations \in Seq(ActivationRecords)
    BY <1>24, ActivationsAreTyped DEF RollBack, RemovalTypes, UninstallTypeOK
  <2>2. activations[current] \in ActivationRecords
    BY <2>1, <1>21
  <2> DEFINE new == [activations[current] EXCEPT !.undone = TRUE]
  <2>a. activations' = [activations EXCEPT ![current] = new]
    BY <1>24 DEF RollBack
  <2>b. new \in ActivationRecords /\ new.from = activations[current].from
    BY <2>2 DEF ActivationRecords
  <2>4. current' = activations[current].from /\ skillsAt' \in Releases \cup {0} /\ unit' \in {0, current'}
    BY <1>24, <2>2 DEF RollBack, ActivationRecords
  <2>5. disturbed' \in BOOLEAN
    BY <1>24, Zenon DEF RollBack, Disturb, RemovalTypes, UninstallTypeOK
  <2> HIDE DEF new
  <2>3. activations' \in Seq(ActivationRecords) /\ Len(activations') = Len(activations)
    BY <2>a, <2>1, <2>b
  <2>6. \A n \in DOMAIN activations' : activations'[n].from < n
    BY <2>1, <2>a, <2>b DEF RemovalTypes
  <2>7. current' \in 0..Len(activations)
    BY <2>1, <2>2, <2>4 DEF RemovalTypes, ActivationRecords
  <2> QED BY <1>24, <2>3, <2>4, <2>5, <2>6, <2>7 DEF RollBack, Disturb, RemovalTypes, UninstallTypeOK, OperatorShape, Left
<1> QED BY <1>1, <1>2, <1>3, <1>4, <1>5, <1>9, <1>10, <1>11, <1>12, <1>13, <1>14, <1>15, <1>16, <1>17, <1>18, <1>19,
          <1>22, <1>23, <1>24 DEF UninstallNext, RemovalStep

\* A rollback goes back along the records that were not undone, and there is only one way back.
History ==
    /\ \A m \in DOMAIN activations :
          activations[m].from # 0 => /\ activations[activations[m].from].era = activations[m].era
                                     /\ ~activations[m].undone => ~activations[activations[m].from].undone
    /\ \A m, n \in DOMAIN activations :
          ~activations[m].undone /\ ~activations[n].undone /\ activations[m].from = activations[n].from =>
              activations[m].from = 0 \/ m = n
    /\ current # 0 => /\ ~activations[current].undone
                      /\ \A m \in DOMAIN activations : ~activations[m].undone => activations[m].from # current

\* The pointer of a plan was written, and what it saw undone is undone.
PlanIsOld(plan) ==
    /\ plan.pointer \in DOMAIN activations
    /\ \A m \in 1..MaxActivations :
          <<m, TRUE>> \in plan.owned => m \in DOMAIN activations /\ activations[m].undone

\* What a record says is true as long as the state is its plan's.
RecordIsTrue(rec) ==
    /\ PlanIsOld(rec.plan)
    /\ SameState(rec.plan) => /\ \A f \in rec.removed : payload[f] = "absent"
                              /\ \A f \in rec.preserved : payload[f] # "own"
    /\ rec.complete => Left(rec) = {}
    /\ rec.unitGone => unit = 0 \/ lateUnit \/ rec.plan.unit = 0

Working == {"unit", "noteUnit", "look", "remove", "note"}

\* A removal beyond its first check has the lock, and the state is its plan's.
OperatorIsSound(p) ==
    LET op == ops[p] IN
    /\ op.step # "idle" => RecordIsTrue(op.rec)
    /\ op.step \notin {"idle", "lock"} => holder = p
    /\ op.step \in Working => SameState(op.rec.plan) /\ ~op.rec.complete
    /\ op.step \in Working \ {"unit"} => op.rec.unitGone
    /\ op.step \in {"pointer", "skillsPointer"} => rewound \/ ~Stopped
    /\ op.step = "skillsPointer" => current = 0
    /\ op.step = "remove" => op.saw = "own"
    /\ op.step = "note" => IF op.saw = "edited" THEN payload[op.file] # "own" ELSE payload[op.file] = "absent"

\* A completed removal has given up the pointer, or still stands where it completed.
CompleteIsLast ==
    recovery # NoRecovery /\ recovery.complete /\ ~disturbed => current = 0 \/ SameState(recovery.plan)

RemovalInv ==
    /\ RemovalTypes
    /\ History
    /\ \A plan \in plans : PlanIsOld(plan)
    /\ recovery # NoRecovery => RecordIsTrue(recovery)
    /\ \A p \in Operators : OperatorIsSound(p)
    /\ CompleteIsLast /\ StoppedRemovalResumes /\ RemovedIsGone

\* What it takes for the state to be a plan's, now and after a step.
LEMMA SameStateIs ==
    ASSUME NEW plan \in RemovalPlans
    PROVE  /\ SameState(plan) <=>
                /\ current # 0 /\ plan.pointer = current /\ plan.skills = skillsAt
                /\ plan.owned = {<<m, activations[m].undone>> : m \in Owned}
                /\ plan.runtime = ReleasesOf(Owned) \X {"versions"} \cup OwnedSkills
           /\ SameState(plan)' <=>
                /\ current' # 0 /\ plan.pointer = current' /\ plan.skills = skillsAt'
                /\ plan.owned = {<<m, activations'[m].undone>> : m \in Owned'}
                /\ plan.runtime = ReleasesOf(Owned)' \X {"versions"} \cup OwnedSkills'
<1> DEFINE Same(a, b) == /\ a.pointer = b.pointer /\ a.skills = b.skills /\ a.owned = b.owned /\ a.runtime = b.runtime
                         /\ a.unit = b.unit
           Fields == {"pointer", "skills", "owned", "runtime", "unit"}
           now == [Build EXCEPT !.unit = plan.unit]
<1>a. \A o, r : Build = [pointer |-> current, skills |-> skillsAt, owned |-> o, runtime |-> r, unit |-> unit] =>
          now = [pointer |-> current, skills |-> skillsAt, owned |-> o, runtime |-> r, unit |-> plan.unit]
  OBVIOUS
<1>b. \A o, r : Build' = [pointer |-> current', skills |-> skillsAt', owned |-> o, runtime |-> r, unit |-> unit'] =>
          now' = [pointer |-> current', skills |-> skillsAt', owned |-> o, runtime |-> r, unit |-> plan.unit]
  OBVIOUS
<1>1. plan = [pointer |-> plan.pointer, skills |-> plan.skills, owned |-> plan.owned, runtime |-> plan.runtime,
              unit |-> plan.unit]
  BY DEF RemovalPlans
<1>2. now = [pointer |-> current, skills |-> skillsAt, owned |-> {<<m, activations[m].undone>> : m \in Owned},
             runtime |-> ReleasesOf(Owned) \X {"versions"} \cup OwnedSkills, unit |-> plan.unit]
  <2> HIDE DEF now
  <2> QED BY <1>a, Zenon DEF Build
<1>3. now' = [pointer |-> current', skills |-> skillsAt', owned |-> {<<m, activations'[m].undone>> : m \in Owned'},
              runtime |-> ReleasesOf(Owned)' \X {"versions"} \cup OwnedSkills', unit |-> plan.unit]
  <2> HIDE DEF now
  <2> QED BY <1>b, Zenon DEF Build
<1>4. now = plan <=> Same(now, plan)
  BY <1>1, <1>2
<1>5. now' = plan <=> Same(now', plan)
  BY <1>1, <1>3
<1> QED BY <1>2, <1>3, <1>4, <1>5 DEF SameState

\* How an activation is recorded.
LEMMA PointAtIs ==
    ASSUME UninstallTypeOK, NEW v, NEW era, NEW from, PointAt(v, era, from)
    PROVE  /\ Len(activations') = Len(activations) + 1 /\ Len(activations) \in Nat
           /\ DOMAIN activations = 1..Len(activations) /\ DOMAIN activations' = 1..(Len(activations) + 1)
           /\ current' = Len(activations) + 1
           /\ \A m \in DOMAIN activations : m \in DOMAIN activations' /\ activations'[m] = activations[m] /\ m # current'
           /\ \A m \in DOMAIN activations' : m \in DOMAIN activations \/ m = current'
           /\ activations'[current'].from = from /\ activations'[current'].era = era
           /\ activations'[current'].ver = v /\ ~activations'[current'].undone
<1> DEFINE new == [ver |-> v, era |-> era, from |-> from, skills |-> skillsAt, undone |-> FALSE]
<1>1. /\ new.from = from /\ new.era = era /\ new.ver = v /\ ~new.undone
      /\ activations' = Append(activations, new) /\ current' = Len(activations')
  BY DEF PointAt
<1> HIDE DEF new
<1>2. Len(activations) \in Nat /\ DOMAIN activations = 1..Len(activations)
  BY ActivationsAreTyped
<1>3. activations \in Seq(ActivationRecords)
  BY ActivationsAreTyped
<1>4. /\ Len(activations') = Len(activations) + 1 /\ DOMAIN activations' = 1..(Len(activations) + 1)
      /\ activations'[Len(activations) + 1] = new
      /\ \A m \in 1..Len(activations) : activations'[m] = activations[m]
  BY <1>1, <1>2, <1>3
<1> QED BY <1>1, <1>2, <1>4

\* What a rollback leaves.
LEMMA RollBackIs ==
    ASSUME RemovalTypes, RollBack
    PROVE  /\ DOMAIN activations' = DOMAIN activations /\ DOMAIN activations = 1..Len(activations)
           /\ Len(activations') = Len(activations) /\ Len(activations) \in Nat
           /\ current \in DOMAIN activations /\ current' = activations[current].from
           /\ current' \in DOMAIN activations /\ current' < current
           /\ activations'[current].undone = TRUE
           /\ \A m \in DOMAIN activations :
                /\ activations'[m].from = activations[m].from /\ activations'[m].era = activations[m].era
                /\ activations'[m].ver = activations[m].ver
                /\ m # current => activations'[m].undone = activations[m].undone
           /\ UNCHANGED payload
<1>1. /\ DOMAIN activations = 1..Len(activations) /\ Len(activations) \in Nat
      /\ \A m \in DOMAIN activations : activations[m] \in ActivationRecords
      /\ current \in 1..Len(activations)
  BY ActivationsAreTyped DEF RemovalTypes, UninstallTypeOK, RollBack
<1>2. current' = activations[current].from /\ current' \in DOMAIN activations /\ current' < current
  BY <1>1 DEF RollBack, RemovalTypes, ActivationRecords
<1>3. activations' = [activations EXCEPT ![current].undone = TRUE]
  BY DEF RollBack
<1>4. DOMAIN activations' = DOMAIN activations /\ Len(activations') = Len(activations)
  <2>1. activations \in Seq(ActivationRecords)
    BY ActivationsAreTyped DEF RemovalTypes
  <2> QED BY <1>1, <1>3, <2>1
<1>5. \A m \in DOMAIN activations :
         activations'[m] = IF m = current THEN [activations[m] EXCEPT !.undone = TRUE] ELSE activations[m]
  BY <1>1, <1>3
<1> QED BY <1>1, <1>2, <1>4, <1>5 DEF ActivationRecords, RollBack

LEMMA HistoryIsKept ==
    ASSUME RemovalTypes, History, UninstallNext
    PROVE  History'
<1>1. CASE UNCHANGED activations /\ current' \in {0, current}
  BY <1>1 DEF History
<1>2. ASSUME NEW v \in Releases, NEW era, NEW from, PointAt(v, era, from),
             from = 0 \/ (from = current /\ current # 0 /\ era = activations[current].era)
      PROVE  History'
  <2>1. UninstallTypeOK /\ (from # 0 => from \in DOMAIN activations)
    BY <1>2, ActivationsAreTyped DEF RemovalTypes, UninstallTypeOK
  <2>2. \A m \in DOMAIN activations : activations[m].from # 0 =>
            activations[m].from \in DOMAIN activations
    BY <2>1, ActivationsAreTyped DEF RemovalTypes, ActivationRecords
  <2>3. \A m \in DOMAIN activations' :
          activations'[m].from # 0 => /\ activations'[activations'[m].from].era = activations'[m].era
                                      /\ ~activations'[m].undone => ~activations'[activations'[m].from].undone
    BY <1>2, <2>1, <2>2, PointAtIs DEF History
  <2>4. \A m, n \in DOMAIN activations' :
          ~activations'[m].undone /\ ~activations'[n].undone /\ activations'[m].from = activations'[n].from =>
              activations'[m].from = 0 \/ m = n
    BY <1>2, <2>1, PointAtIs DEF History
  <2>5. \A m \in DOMAIN activations' : activations'[m].from # current'
    BY <1>2, <2>1, <2>2, PointAtIs
  <2>6. ~activations'[current'].undone
    BY <1>2, <2>1, PointAtIs
  <2> QED BY <2>3, <2>4, <2>5, <2>6 DEF History
<1>3. ASSUME NEW v \in Releases, Install(v)
      PROVE  History'
  BY <1>3, <1>2 DEF Install
<1>4. ASSUME NEW v \in Releases, UpdateTo(v)
      PROVE  History'
  BY <1>4, <1>2 DEF UpdateTo
<1>5. ASSUME RollBack
      PROVE  History'
  <2>1. \A m \in DOMAIN activations : activations[m].from # 0 =>
            activations[m].from \in DOMAIN activations
    BY ActivationsAreTyped DEF RemovalTypes, ActivationRecords
  <2>2. activations[current].from # 0 /\ current # 0
    BY <1>5 DEF RollBack
  <2>a. /\ DOMAIN activations' = DOMAIN activations /\ current \in DOMAIN activations
        /\ current' = activations[current].from /\ current' \in DOMAIN activations /\ current' # current
    BY <1>5, RollBackIs
  <2>e. activations'[current].undone = TRUE
    BY <1>5, RollBackIs, Zenon
  <2>b. \A m \in DOMAIN activations :
           /\ activations'[m].from = activations[m].from /\ activations'[m].era = activations[m].era
           /\ m # current => activations'[m].undone = activations[m].undone
    BY <1>5, RollBackIs
  <2>3. ASSUME NEW m \in DOMAIN activations, activations'[m].from # 0
        PROVE  /\ activations'[activations'[m].from].era = activations'[m].era
               /\ ~activations'[m].undone => ~activations'[activations'[m].from].undone
    BY <2>1, <2>2, <2>3, <2>a, <2>b, <2>e DEF History
  <2>5. ASSUME NEW m \in DOMAIN activations, ~activations'[m].undone, activations'[m].from = current'
        PROVE  FALSE
    BY <2>2, <2>5, <2>a, <2>b, <2>e DEF History
  <2>6. ~activations'[current'].undone
    BY <2>2, <2>a, <2>b DEF History
  <2>7. \A m \in DOMAIN activations' :
          activations'[m].from # 0 => /\ activations'[activations'[m].from].era = activations'[m].era
                                      /\ ~activations'[m].undone => ~activations'[activations'[m].from].undone
    BY <2>a, <2>3
  <2> DEFINE One(m, n) ==
                ~activations'[m].undone /\ ~activations'[n].undone /\ activations'[m].from = activations'[n].from =>
                    activations'[m].from = 0 \/ m = n
  <2>c. \A m, n \in DOMAIN activations : One(m, n)
    <3> SUFFICES ASSUME NEW m \in DOMAIN activations, NEW n \in DOMAIN activations
                 PROVE  One(m, n)
      OBVIOUS
    <3>1. CASE m = current \/ n = current
      <4>1. activations'[m].undone = TRUE \/ activations'[n].undone = TRUE
        BY <2>e, <3>1
      <4> QED BY <4>1
    <3>2. CASE m # current /\ n # current
      <4>1. ~activations[m].undone /\ ~activations[n].undone /\ activations[m].from = activations[n].from =>
                activations[m].from = 0 \/ m = n
        BY DEF History
      <4>2. activations'[m].undone = activations[m].undone /\ activations'[n].undone = activations[n].undone
        BY <2>b, <3>2
      <4>3. activations'[m].from = activations[m].from /\ activations'[n].from = activations[n].from
        BY <2>b
      <4> QED BY <4>1, <4>2, <4>3
    <3> QED BY <3>1, <3>2
  <2> HIDE DEF One
  <2>d. \A m, n \in DOMAIN activations' : One(m, n)
    BY <2>a, <2>c
  <2> USE DEF One
  <2>8. \A m, n \in DOMAIN activations' :
          ~activations'[m].undone /\ ~activations'[n].undone /\ activations'[m].from = activations'[n].from =>
              activations'[m].from = 0 \/ m = n
    BY <2>d
  <2> QED BY <2>a, <2>5, <2>6, <2>7, <2>8 DEF History
<1>6. CASE Review \/ RefusedAtOnce \/ InstallDies \/ InstallUnit \/ \E f \in Payloads : EditPayload(f)
  BY <1>6, <1>1 DEF Review, RefusedAtOnce, InstallDies, InstallUnit, EditPayload, uninstallVars, installed
<1>7. ASSUME NEW p \in Operators, RemovalStep(p) \/ Die(p)
      PROVE  History'
  BY <1>7, <1>1 DEF RemovalStep, Die, ReadRecovery, Lock, RemoveUnit, NoteUnit, Look, Remove, Note, CompleteRemoval,
                    RemovePointer, RemoveSkillsPointer, installed
<1> QED BY <1>3, <1>4, <1>5, <1>6, <1>7 DEF UninstallNext

\* No step brings back the state of a plan, and as long as the state is a plan's no file comes back.
LEMMA StateIsNotRestored ==
    ASSUME RemovalTypes, History, \A p \in Operators : OperatorIsSound(p), UninstallNext,
           NEW plan \in RemovalPlans, PlanIsOld(plan), SameState(plan)'
    PROVE  /\ SameState(plan)
           /\ \A f \in Payloads : /\ payload'[f] = "own" => payload[f] = "own"
                                  /\ payload[f] = "absent" => payload'[f] = "absent"
<1> DEFINE Shrinks == \A f \in Payloads : /\ payload'[f] = "own" => payload[f] = "own"
                                          /\ payload[f] = "absent" => payload'[f] = "absent"
<1>1. CASE UNCHANGED <<activations, current, skillsAt>> /\ Shrinks
  <2>1. Owned' = Owned /\ OwnedSkills' = OwnedSkills /\ \A acts : ReleasesOf(acts)' = ReleasesOf(acts)
    BY <1>1 DEF Owned, OwnedSkills, ReleasesOf
  <2> QED BY <1>1, <2>1, SameStateIs
<1>2. ASSUME NEW v, NEW era, NEW from, PointAt(v, era, from)
      PROVE  FALSE
  <2>1. plan.pointer = current'
    BY SameStateIs
  <2> QED BY <2>1, <1>2, PointAtIs DEF PlanIsOld, RemovalTypes
<1>3. ASSUME RollBack
      PROVE  FALSE
  <2>1. /\ current \in DOMAIN activations' /\ activations'[current].undone /\ current' \in DOMAIN activations
        /\ current' = activations[current].from /\ \A m \in DOMAIN activations : activations'[m].era = activations[m].era
        /\ current \in DOMAIN activations /\ current # 0 /\ activations[current].from # 0
    BY <1>3, RollBackIs DEF RollBack
  <2>2. activations'[current].era = activations'[current'].era
    BY <2>1 DEF History
  <2>3. current \in Owned'
    BY <2>1, <2>2 DEF Owned, ReleasesOf
  <2>4. <<current, activations'[current].undone>> \in plan.owned
    BY <2>3, SameStateIs
  <2>5. activations'[current].undone = TRUE /\ current \in 1..MaxActivations
    <3>1. DOMAIN activations = 1..Len(activations) /\ Len(activations) \in Nat
      BY ActivationsAreTyped DEF RemovalTypes
    <3>2. Len(activations) <= MaxActivations /\ MaxActivations \in Nat
      BY UninstallAssumption DEF RemovalTypes, UninstallTypeOK
    <3> QED BY <1>3, <2>1, <3>1, <3>2, RollBackIs
  <2>6. activations[current].undone
    BY <2>4, <2>5 DEF PlanIsOld
  <2> QED BY <2>1, <2>6 DEF History
<1>4. CASE Review \/ RefusedAtOnce \/ InstallDies \/ InstallUnit
  BY <1>4, <1>1 DEF Review, RefusedAtOnce, InstallDies, InstallUnit, uninstallVars, installed
<1>5. ASSUME NEW f \in Payloads, EditPayload(f)
      PROVE  Shrinks /\ SameState(plan)
  <2>1. Shrinks
    BY <1>5 DEF EditPayload, RemovalTypes, UninstallTypeOK
  <2> QED BY <1>5, <1>1, <2>1 DEF EditPayload, installed
<1>6. ASSUME NEW p \in Operators, RemovalStep(p) \/ Die(p)
      PROVE  Shrinks /\ SameState(plan)
  <2>1. Shrinks
    <3>1. CASE UNCHANGED payload
      BY <3>1
    <3>2. CASE Remove(p)
      BY <3>2 DEF Remove, RemovalTypes, UninstallTypeOK
    <3> QED BY <1>6, <3>1, <3>2 DEF RemovalStep, Die, ReadRecovery, Lock, RemoveUnit, NoteUnit, Look, Note,
                    CompleteRemoval, RemovePointer, RemoveSkillsPointer
  <2>2. CASE UNCHANGED <<activations, current, skillsAt>>
    BY <1>1, <2>1, <2>2
  <2>3. CASE RemovePointer(p)
    <3>1. current' # 0
      BY SameStateIs
    <3> QED BY <2>3, <3>1, <2>2 DEF RemovePointer
  <2>4. CASE RemoveSkillsPointer(p)
    <3>1. current' # 0
      BY SameStateIs
    <3> QED BY <2>4, <3>1 DEF RemoveSkillsPointer, OperatorIsSound, Stands
  <2> QED BY <1>6, <2>2, <2>3, <2>4 DEF RemovalStep, Die, ReadRecovery, Lock, RemoveUnit, NoteUnit, Look, Remove, Note,
                    CompleteRemoval, installed
<1> QED BY <1>2, <1>3, <1>4, <1>5, <1>6, <1>1 DEF UninstallNext, Install, UpdateTo, RemovalTypes

\* Undone activations stay undone, and none is taken from the journals.
LEMMA PlansStayOld ==
    ASSUME RemovalTypes, UninstallNext, NEW plan \in RemovalPlans, PlanIsOld(plan)
    PROVE  PlanIsOld(plan)'
<1>1. CASE UNCHANGED activations
  BY <1>1 DEF PlanIsOld
<1>2. ASSUME NEW v, NEW era, NEW from, PointAt(v, era, from)
      PROVE  PlanIsOld(plan)'
  BY <1>2, PointAtIs DEF PlanIsOld, RemovalTypes
<1>3. CASE RollBack
  BY <1>3, RollBackIs DEF PlanIsOld
<1>4. ASSUME NEW p \in Operators, RemovalStep(p) \/ Die(p)
      PROVE  UNCHANGED activations
  BY <1>4 DEF RemovalStep, Die, ReadRecovery, Lock, RemoveUnit, NoteUnit, Look, Remove, Note,
              CompleteRemoval, RemovePointer, RemoveSkillsPointer, installed
<1>5. CASE Review \/ RefusedAtOnce \/ InstallDies \/ InstallUnit \/ \E f \in Payloads : EditPayload(f)
  BY <1>5, <1>1 DEF Review, RefusedAtOnce, InstallDies, InstallUnit, uninstallVars, installed, EditPayload
<1> QED BY <1>1, <1>2, <1>3, <1>4, <1>5 DEF UninstallNext, Install, UpdateTo

\* A record that was true stays true; a service that appears after it was noted as gone is a late one.
LEMMA RecordsStayTrue ==
    ASSUME RemovalTypes, History, \A p \in Operators : OperatorIsSound(p), UninstallNext,
           NEW rec \in Recoveries, RecordIsTrue(rec),
           rec = recovery \/ \E p \in Operators : ops[p].step # "idle" /\ ops[p].rec = rec
    PROVE  RecordIsTrue(rec)'
<1> USE UninstallAssumption
<1>1. rec.plan \in RemovalPlans /\ rec.removed \subseteq Payloads /\ rec.preserved \subseteq Payloads
  BY DEF Recoveries
<1>2. PlanIsOld(rec.plan)'
  BY <1>1, PlansStayOld DEF RecordIsTrue
<1>3. SameState(rec.plan)' => /\ \A f \in rec.removed : payload'[f] = "absent"
                              /\ \A f \in rec.preserved : payload'[f] # "own"
  BY <1>1, StateIsNotRestored DEF RecordIsTrue
<1>4. ASSUME rec.unitGone
      PROVE  unit' = 0 \/ lateUnit' \/ rec.plan.unit = 0
  <2>1. unit = 0 \/ lateUnit \/ rec.plan.unit = 0
    BY <1>4 DEF RecordIsTrue
  <2>2. lateUnit => lateUnit'
    BY DEF UninstallNext, RemovalStep, Die, ReadRecovery, Lock, RemoveUnit, NoteUnit, Look, Remove, Note,
              CompleteRemoval, RemovePointer, RemoveSkillsPointer, Review, RefusedAtOnce, InstallDies, RollBack,
              InstallUnit, Install, UpdateTo, EditPayload, Disturb, ghosts, uninstallVars
  <2>3. unit = 0 => unit' = 0 \/ InstallUnit
    BY DEF UninstallNext, RemovalStep, Die, ReadRecovery, Lock, RemoveUnit, NoteUnit, Look, Remove, Note,
              CompleteRemoval, RemovePointer, RemoveSkillsPointer, Review, RefusedAtOnce, InstallDies, RollBack,
              Install, UpdateTo, EditPayload, installed, uninstallVars
  <2>4. CASE InstallUnit
    BY <2>4, <1>4 DEF InstallUnit
  <2> QED BY <2>1, <2>2, <2>3, <2>4
<1> QED BY <1>2, <1>3, <1>4 DEF RecordIsTrue, Left

\* What a step of one removal does to it and to the others.
LEMMA OthersStand ==
    ASSUME RemovalTypes, NEW p \in Operators, RemovalStep(p) \/ Die(p)
    PROVE  \A q \in Operators : q # p => ops'[q] = ops[q]
BY DEF RemovalTypes, RemovalStep, Die, ReadRecovery, Lock, Begin, RemoveUnit, NoteUnit, Look, Remove, Note,
       CompleteRemoval, RemovePointer, RemoveSkillsPointer, Refused, Move, Looked

LEMMA RefusedIs ==
    ASSUME RemovalTypes, NEW p \in Operators, Refused(p)
    PROVE  ops'[p] = Idle
BY DEF RemovalTypes, Refused

\* A new removal starts from a record that is true.
LEMMA FreshIsTrue ==
    ASSUME RemovalInv, NEW plan \in plans, current # 0, Build = plan
    PROVE  FreshRecord(plan) \in Recoveries /\ RecordIsTrue(FreshRecord(plan))
<1>1. plan \in RemovalPlans /\ PlanIsOld(plan)
  BY DEF RemovalInv, RemovalTypes, UninstallTypeOK
<1> QED BY <1>1 DEF FreshRecord, RecordIsTrue, Recoveries

\* The plan of the present state is old.
LEMMA BuildIsOld ==
    ASSUME RemovalTypes, current # 0
    PROVE  PlanIsOld(Build)
<1>1. Owned \subseteq DOMAIN activations /\ current \in DOMAIN activations
  BY ActivationsAreTyped DEF Owned, RemovalTypes, UninstallTypeOK
<1>2. Build.pointer = current /\ Build.owned = {<<m, activations[m].undone>> : m \in Owned}
  BY Zenon DEF Build
<1>3. ASSUME NEW m \in 1..MaxActivations, <<m, TRUE>> \in Build.owned
      PROVE  m \in DOMAIN activations /\ activations[m].undone
  <2>1. PICK n \in Owned : <<m, TRUE>> = <<n, activations[n].undone>>
    BY <1>2, <1>3
  <2>2. m = n /\ activations[m].undone = TRUE
    BY <2>1
  <2> QED BY <1>1, <2>1, <2>2
<1> QED BY <1>1, <1>2, <1>3 DEF PlanIsOld

\* Plans and records stay true.
LEMMA RecordsAreTrue ==
    ASSUME RemovalInv, UninstallNext
    PROVE  /\ \A plan \in plans' : PlanIsOld(plan)'
           /\ recovery' # NoRecovery => RecordIsTrue(recovery)'
           /\ \A p \in Operators : ops'[p].step # "idle" => RecordIsTrue(ops[p].rec)'
<1> USE UninstallAssumption
<1>a. RemovalTypes /\ History /\ \A p \in Operators : OperatorIsSound(p)
  BY DEF RemovalInv
<1>b. ASSUME NEW plan \in RemovalPlans, PlanIsOld(plan)
      PROVE  PlanIsOld(plan)'
  BY <1>a, <1>b, PlansStayOld
<1>c. ASSUME recovery # NoRecovery
      PROVE  recovery \in Recoveries /\ RecordIsTrue(recovery) /\ \A r : r = recovery => RecordIsTrue(r)'
  <2>1. recovery \in Recoveries /\ RecordIsTrue(recovery)
    BY <1>c DEF RemovalInv, RemovalTypes, UninstallTypeOK
  <2> QED BY <1>a, <2>1, RecordsStayTrue
<1>d. ASSUME NEW p \in Operators, ops[p].step # "idle"
      PROVE  ops[p].rec \in Recoveries /\ RecordIsTrue(ops[p].rec) /\ \A r : r = ops[p].rec => RecordIsTrue(r)'
  <2>1. ops[p].rec \in Recoveries /\ RecordIsTrue(ops[p].rec)
    BY <1>d DEF RemovalInv, RemovalTypes, OperatorIsSound, OperatorShape
  <2> QED BY <1>a, <1>d, <2>1, RecordsStayTrue
<1>e. ASSUME NEW p \in Operators, RemovalStep(p) \/ Die(p), UNCHANGED plans,
             NEW new \in Recoveries, RecordIsTrue(new)', recovery' \in {recovery, new},
             ops'[p].step = "idle" \/ ops'[p].rec = new
      PROVE  /\ \A plan \in plans' : PlanIsOld(plan)'
             /\ recovery' # NoRecovery => RecordIsTrue(recovery)'
             /\ \A q \in Operators : ops'[q].step # "idle" => RecordIsTrue(ops[q].rec)'
  <2>1. \A plan \in plans' : PlanIsOld(plan)'
    BY <1>b, <1>e DEF RemovalInv, RemovalTypes, UninstallTypeOK
  <2>2. ASSUME recovery' # NoRecovery
        PROVE  RecordIsTrue(recovery)'
    <3>1. CASE recovery' = recovery
      BY <1>c, <2>2, <3>1 DEF RecordIsTrue, PlanIsOld, SameState, Left
    <3>2. CASE recovery' = new
      BY <1>e, <3>2 DEF RecordIsTrue, PlanIsOld, SameState, Left
    <3> QED BY <1>e, <3>1, <3>2
  <2>3. ASSUME NEW q \in Operators, ops'[q].step # "idle"
        PROVE  RecordIsTrue(ops[q].rec)'
    <3>1. CASE q = p
      BY <1>e, <2>3, <3>1 DEF RecordIsTrue, PlanIsOld, SameState, Left
    <3>2. CASE q # p
      <4>1. ops'[q] = ops[q]
        BY <1>a, <1>e, <3>2, OthersStand
      <4> QED BY <1>d, <2>3, <4>1 DEF RecordIsTrue, PlanIsOld, SameState, Left
    <3> QED BY <3>1, <3>2
  <2> QED BY <2>1, <2>2, <2>3
<1>f. ASSUME UNCHANGED <<plans, recovery>>, \A q \in Operators : ops'[q] = ops[q] \/ ops'[q].step = "idle"
      PROVE  /\ \A plan \in plans' : PlanIsOld(plan)'
             /\ recovery' # NoRecovery => RecordIsTrue(recovery)'
             /\ \A q \in Operators : ops'[q].step # "idle" => RecordIsTrue(ops[q].rec)'
  <2>1. \A plan \in plans' : PlanIsOld(plan)'
    BY <1>b, <1>f DEF RemovalInv, RemovalTypes, UninstallTypeOK
  <2>2. recovery' # NoRecovery => RecordIsTrue(recovery)'
    BY <1>c, <1>f DEF RecordIsTrue, PlanIsOld, SameState, Left
  <2>3. ASSUME NEW q \in Operators, ops'[q].step # "idle"
        PROVE  RecordIsTrue(ops[q].rec)'
    <3>1. ops'[q] = ops[q]
      BY <1>f, <2>3
    <3> QED BY <1>d, <2>3, <3>1 DEF RecordIsTrue, PlanIsOld, SameState, Left
  <2> QED BY <2>1, <2>2, <2>3
<1> DEFINE Goal == /\ \A plan \in plans' : PlanIsOld(plan)'
                   /\ recovery' # NoRecovery => RecordIsTrue(recovery)'
                   /\ \A p \in Operators : ops'[p].step # "idle" => RecordIsTrue(ops[p].rec)'
<1> SUFFICES Goal
  OBVIOUS
<1>1. CASE Review
  <2>1. current # 0 /\ plans' = plans \cup {Build} /\ UNCHANGED <<payload, installed, recovery, ops, ghosts>>
    BY <1>1 DEF Review
  <2>2. PlanIsOld(Build) /\ Build \in RemovalPlans
    BY <1>a, <2>1, BuildIsOld, BuildIsAPlan DEF RemovalTypes
  <2>3. \A plan \in plans' : PlanIsOld(plan)'
    BY <1>b, <2>1, <2>2 DEF RemovalInv, RemovalTypes, UninstallTypeOK
  <2>4. recovery' # NoRecovery => RecordIsTrue(recovery)'
    BY <1>c, <2>1 DEF RecordIsTrue, PlanIsOld, SameState, Left
  <2>5. \A q \in Operators : ops'[q].step # "idle" => RecordIsTrue(ops[q].rec)'
    BY <1>d, <2>1 DEF RecordIsTrue, PlanIsOld, SameState, Left
  <2> QED BY <2>3, <2>4, <2>5
<1>2. CASE RefusedAtOnce \/ RollBack \/ InstallUnit \/ (\E v \in Releases : UpdateTo(v)) \/ \E f \in Payloads : EditPayload(f)
  BY <1>2, <1>f DEF RefusedAtOnce, RollBack, InstallUnit, UpdateTo, EditPayload, uninstallVars
<1>3. CASE InstallDies \/ \E v \in Releases : Install(v)
  <2>1. recovery' = NoRecovery /\ UNCHANGED <<plans, ops>>
    BY <1>3 DEF InstallDies, Install
  <2>2. \A plan \in plans' : PlanIsOld(plan)'
    BY <1>b, <2>1 DEF RemovalInv, RemovalTypes, UninstallTypeOK
  <2>3. \A q \in Operators : ops'[q].step # "idle" => RecordIsTrue(ops[q].rec)'
    BY <1>d, <2>1 DEF RecordIsTrue, PlanIsOld, SameState, Left
  <2> QED BY <2>1, <2>2, <2>3
<1>4. ASSUME NEW p \in Operators, Die(p)
      PROVE  Goal
  <2>1. ops'[p].step = "idle"
    BY <1>a, <1>4, RefusedIs DEF Die, Idle
  <2> QED BY <1>4, <1>f, <1>a, <2>1, OthersStand DEF Die
<1>5. ASSUME NEW p \in Operators, RemoveSkillsPointer(p)
      PROVE  Goal
  <2>1. ops'[p].step = "idle"
    BY <1>a, <1>5, RefusedIs DEF RemoveSkillsPointer, Idle
  <2> QED BY <1>5, <1>f, <1>a, <2>1, OthersStand DEF RemoveSkillsPointer, RemovalStep
\* The removal goes on with the record it has.
<1>6. ASSUME NEW p \in Operators, RemovalStep(p), ops[p].step # "idle", UNCHANGED plans,
             recovery' = recovery \/ recovery' = ops[p].rec, ops'[p].step = "idle" \/ ops'[p].rec = ops[p].rec
      PROVE  Goal
  <2>1. PICK new : new = ops[p].rec
    OBVIOUS
  <2>2. new \in Recoveries /\ RecordIsTrue(new)'
    BY <1>6, <1>d, <2>1
  <2> QED BY <1>6, <1>e, <2>1, <2>2
<1>7. ASSUME NEW p \in Operators, Lock(p) \/ NoteUnit(p) \/ Look(p) \/ Remove(p) \/ RemovePointer(p)
      PROVE  Goal
  <2>1. ops[p].step # "idle" /\ UNCHANGED plans /\ recovery' \in {recovery, ops[p].rec}
    BY <1>7 DEF Lock, Begin, NoteUnit, Look, Remove, RemovePointer, Stands
  <2>2. ops[p] \in OperatorRecords
    BY <1>a DEF RemovalTypes
  <2>3. ops'[p].step = "idle" \/ ops'[p].rec = ops[p].rec
    <3>1. CASE Look(p)
      <4>1. PICK st, f, saw : ops' = [ops EXCEPT ![p] = [@ EXCEPT !.step = st, !.file = f, !.saw = saw]]
        BY <3>1 DEF Look, Looked
      <4> QED BY <1>a, <4>1, <2>2 DEF RemovalTypes, OperatorRecords
    <3>4. CASE Remove(p)
      BY <1>a, <3>4, <2>2 DEF Remove, RemovalTypes, OperatorRecords
    <3>2. CASE Lock(p) \/ NoteUnit(p) \/ RemovePointer(p)
      BY <1>a, <3>2, RefusedIs DEF Move, RemovalTypes, Lock, Begin, NoteUnit, RemovePointer, Idle
    <3> QED BY <1>7, <3>1, <3>2, <3>4
  <2> QED BY <1>7, <1>6, <2>1, <2>3 DEF RemovalStep
<1>8. ASSUME NEW p \in Operators, ReadRecovery(p)
      PROVE  Goal
  <2>0. UNCHANGED <<plans, recovery, payload, installed, ghosts>>
    BY <1>8 DEF ReadRecovery
  <2>1. CASE recovery # NoRecovery /\ Move(p, "lock", recovery)
    <3>1. PICK new : new = recovery
      OBVIOUS
    <3>2. new \in Recoveries /\ RecordIsTrue(new)'
      BY <1>c, <2>1, <3>1
    <3>3. ops'[p].rec = new
      BY <1>a, <2>1, <3>1 DEF Move, RemovalTypes
    <3> QED BY <1>8, <1>e, <2>0, <3>1, <3>2, <3>3 DEF RemovalStep
  <2>2. CASE \E plan \in plans : recovery = NoRecovery /\ current # 0 /\ Build = plan /\ Move(p, "lock", FreshRecord(plan))
    <3>1. PICK plan \in plans : current # 0 /\ Build = plan /\ Move(p, "lock", FreshRecord(plan))
      BY <2>2
    <3>2. PICK new : new = FreshRecord(plan)
      OBVIOUS
    <3>3. new \in Recoveries /\ RecordIsTrue(new)
      BY <3>1, <3>2, FreshIsTrue
    <3>4. RecordIsTrue(new)'
      <4>1. plan \in RemovalPlans /\ PlanIsOld(plan)'
        BY <1>b, <3>1 DEF RemovalInv, RemovalTypes, UninstallTypeOK
      <4> QED BY <3>2, <4>1 DEF RecordIsTrue, FreshRecord
    <3>5. ops'[p].rec = new
      BY <1>a, <3>1, <3>2 DEF Move, RemovalTypes
    <3> QED BY <1>8, <1>e, <2>0, <3>3, <3>4, <3>5 DEF RemovalStep
  <2> QED BY <1>8, <2>1, <2>2 DEF ReadRecovery
<1>9. ASSUME NEW p \in Operators, RemoveUnit(p)
      PROVE  Goal
  <2>1. PICK old, new : old = ops[p].rec /\ new = [ops[p].rec EXCEPT !.unitGone = TRUE]
    OBVIOUS
  <2>2. old \in Recoveries /\ RecordIsTrue(old)'
    BY <1>9, <1>d, <2>1 DEF RemoveUnit, Stands
  <2>3. /\ new \in Recoveries /\ new.plan = old.plan /\ new.removed = old.removed /\ new.preserved = old.preserved
        /\ new.complete = old.complete
    BY <2>1, <2>2 DEF Recoveries
  <2>4. UNCHANGED <<plans, recovery>>
    BY <1>9 DEF RemoveUnit
  <2>5. CASE Refused(p)
    <3>1. ops'[p].step = "idle"
      BY <1>a, <2>5, RefusedIs DEF Idle
    <3> QED BY <1>9, <1>f, <1>a, <2>4, <3>1, OthersStand DEF RemovalStep
  <2>6. CASE Move(p, "noteUnit", new) /\ (old.plan.unit = 0 \/ unit' = 0)
    <3>1. RecordIsTrue(new)'
      BY <2>2, <2>3, <2>6 DEF RecordIsTrue, Left
    <3>2. ops'[p].rec = new
      BY <1>a, <2>6 DEF Move, RemovalTypes
    <3> QED BY <1>9, <1>e, <2>3, <2>4, <3>1, <3>2 DEF RemovalStep
  <2> QED BY <1>9, <2>1, <2>5, <2>6 DEF RemoveUnit
<1>10. ASSUME NEW p \in Operators, Note(p)
       PROVE  Goal
  <2>0. ops[p].step = "note" /\ UNCHANGED <<plans, payload>>
    BY <1>10 DEF Note, Stands
  <2>1. PICK old, new, f : /\ old = ops[p].rec /\ f = ops[p].file
                           /\ new = IF ops[p].saw = "edited" THEN [ops[p].rec EXCEPT !.preserved = @ \cup {f}]
                                                            ELSE [ops[p].rec EXCEPT !.removed = @ \cup {f}]
    OBVIOUS
  <2>2. old \in Recoveries /\ RecordIsTrue(old)' /\ f \in Left(old)
    BY <1>d, <2>0, <2>1 DEF RemovalInv, RemovalTypes, OperatorShape
  <2>3. f \in Payloads
    BY <2>2 DEF Left, Recoveries, RemovalPlans
  <2>4. /\ new \in Recoveries /\ new.plan = old.plan /\ new.unitGone = old.unitGone /\ new.complete = old.complete
        /\ new.removed = old.removed \cup (IF ops[p].saw = "edited" THEN {} ELSE {f})
        /\ new.preserved = old.preserved \cup (IF ops[p].saw = "edited" THEN {f} ELSE {})
    BY <2>1, <2>2, <2>3 DEF Recoveries
  <2>5. IF ops[p].saw = "edited" THEN payload'[f] # "own" ELSE payload'[f] = "absent"
    BY <1>a, <2>0, <2>1 DEF OperatorIsSound
  <2>6. ~old.complete
    BY <1>a, <2>0, <2>1 DEF OperatorIsSound, Working
  <2>7. RecordIsTrue(new)'
    BY <2>2, <2>4, <2>5, <2>6 DEF RecordIsTrue
  <2>8. recovery' = new /\ Move(p, "look", new)
    BY <1>10, <2>1 DEF Note
  <2>9. ops'[p].rec = new
    BY <1>a, <2>8 DEF Move, RemovalTypes
  <2> QED BY <1>10, <1>e, <2>0, <2>4, <2>7, <2>8, <2>9 DEF RemovalStep
<1>11. ASSUME NEW p \in Operators, CompleteRemoval(p)
       PROVE  Goal
  <2>0. ops[p].step = "look" /\ Left(ops[p].rec) = {} /\ UNCHANGED plans
    BY <1>11 DEF CompleteRemoval, Stands
  <2>1. PICK old, new : old = ops[p].rec /\ new = [ops[p].rec EXCEPT !.complete = TRUE]
    OBVIOUS
  <2>2. old \in Recoveries /\ RecordIsTrue(old)'
    BY <1>d, <2>0, <2>1
  <2>3. /\ new \in Recoveries /\ new.plan = old.plan /\ new.removed = old.removed /\ new.preserved = old.preserved
        /\ new.unitGone = old.unitGone
    BY <2>1, <2>2 DEF Recoveries
  <2>4. RecordIsTrue(new)'
    BY <2>0, <2>1, <2>2, <2>3 DEF RecordIsTrue, Left
  <2>5. recovery' = new /\ Move(p, "pointer", new)
    BY <1>11, <2>1 DEF CompleteRemoval
  <2>6. ops'[p].rec = new
    BY <1>a, <2>5 DEF Move, RemovalTypes
  <2> QED BY <1>11, <1>e, <2>0, <2>3, <2>4, <2>5, <2>6 DEF RemovalStep
<1> HIDE DEF Goal
<1>12. Goal
  BY <1>1, <1>2, <1>3, <1>4, <1>5, <1>7, <1>8, <1>9, <1>10, <1>11 DEF UninstallNext, RemovalStep
<1> QED BY <1>12 DEF Goal

\* The state of a plan depends on the pointers and the journals.
LEMMA SameStateStays ==
    ASSUME NEW plan, UNCHANGED <<activations, current, skillsAt>>, plan \in RemovalPlans
    PROVE  SameState(plan)' <=> SameState(plan)
<1>1. Owned' = Owned /\ OwnedSkills' = OwnedSkills /\ \A acts : ReleasesOf(acts)' = ReleasesOf(acts)
  BY DEF Owned, OwnedSkills, ReleasesOf
<1> QED BY <1>1, SameStateIs

\* A removal goes on only when the state is still its plan's.
LEMMA OperatorsAreSound ==
    ASSUME RemovalInv, UninstallNext
    PROVE  \A q \in Operators : OperatorIsSound(q)'
<1> USE UninstallAssumption
<1>a. RemovalTypes /\ History /\ \A p \in Operators : OperatorIsSound(p) /\ ops[p] \in OperatorRecords /\ OperatorShape(p)
  BY DEF RemovalInv, RemovalTypes
<1>b. \A p \in Operators : ops'[p].step # "idle" => RecordIsTrue(ops[p].rec)'
  BY RecordsAreTrue
<1>c. \A p \in Operators : ops[p].step \notin {"idle", "lock"} => holder = p /\ holder # NoOperator
  BY <1>a DEF OperatorIsSound
<1>d. ASSUME NEW q \in Operators, ops'[q] = ops[q], ops[q].step \in {"idle", "lock"}
      PROVE  OperatorIsSound(q)'
  BY <1>b, <1>d DEF OperatorIsSound, Working
<1>e. ASSUME NEW q \in Operators, ops'[q] = ops[q], ops[q].step \notin {"idle", "lock"},
             UNCHANGED <<holder, recovery, rewound, activations, current, skillsAt>>,
             \A f \in Payloads : /\ payload'[f] = "own" => payload[f] = "own"
                                 /\ payload[f] = "absent" => payload'[f] = "absent"
      PROVE  OperatorIsSound(q)'
  <2>1. ops[q].rec \in Recoveries /\ ops[q].rec.plan \in RemovalPlans
    BY <1>a, <1>e DEF OperatorShape, Recoveries
  <2>2. SameState(ops[q].rec.plan)' <=> SameState(ops[q].rec.plan)
    <3>1. PICK plan : plan = ops[q].rec.plan
      OBVIOUS
    <3>2. SameState(plan)' <=> SameState(plan)
      BY <1>e, <2>1, <3>1, SameStateStays
    <3> QED BY <1>e, <3>1, <3>2 DEF SameState
  <2>3. ops[q].step = "note" => ops[q].file \in Payloads
    BY <1>a, <2>1 DEF OperatorShape, Left, Recoveries, RemovalPlans
  <2>4. Stopped' <=> Stopped
    BY <1>e DEF Stopped
  <2> QED BY <1>a, <1>b, <1>e, <2>2, <2>3, <2>4 DEF OperatorIsSound
<1>1. ASSUME UNCHANGED ops, holder = NoOperator
      PROVE  \A q \in Operators : OperatorIsSound(q)'
  BY <1>1, <1>c, <1>d
<1>2. CASE Review \/ RefusedAtOnce \/ \E f \in Payloads : EditPayload(f)
  <2>1. UNCHANGED <<ops, holder, recovery, rewound, activations, current, skillsAt>>
    BY <1>2 DEF Review, RefusedAtOnce, EditPayload, uninstallVars, installed, ghosts
  <2>2. \A f \in Payloads : /\ payload'[f] = "own" => payload[f] = "own"
                            /\ payload[f] = "absent" => payload'[f] = "absent"
    BY <1>2, <1>a DEF Review, RefusedAtOnce, EditPayload, uninstallVars, RemovalTypes, UninstallTypeOK
  <2> QED BY <1>d, <1>e, <2>1, <2>2
<1>3. ASSUME NEW p \in Operators, RemovalStep(p) \/ Die(p), NEW q \in Operators, q # p
      PROVE  OperatorIsSound(q)'
  <2>1. ops'[q] = ops[q]
    BY <1>a, <1>3, OthersStand
  <2>2. CASE ops[q].step \in {"idle", "lock"}
    BY <2>1, <2>2, <1>d
  <2>3. CASE ops[q].step \notin {"idle", "lock"}
    <3>1. holder = q /\ holder # NoOperator /\ ops[p].step \in {"idle", "lock"}
      BY <1>c, <1>3, <2>3
    <3>2. ReadRecovery(p) \/ (Lock(p) /\ Refused(p)) \/ Die(p)
      BY <1>3, <3>1 DEF RemovalStep, Lock, RemoveUnit, NoteUnit, Look, Remove, Note, CompleteRemoval, RemovePointer,
                        RemoveSkillsPointer, Stands
    <3>3. UNCHANGED <<payload, holder, recovery, rewound, activations, current, skillsAt>>
      <4>1. CASE ReadRecovery(p)
        BY <4>1 DEF ReadRecovery, installed, ghosts
      <4>2. CASE Lock(p) /\ Refused(p)
        BY <4>2, <3>1, <1>3 DEF Lock, Refused, installed
      <4>3. CASE Die(p)
        BY <4>3, <3>1, <1>3 DEF Die, Refused, installed, ghosts
      <4> QED BY <3>2, <4>1, <4>2, <4>3
    <3> QED BY <1>e, <2>1, <2>3, <3>3
  <2> QED BY <2>2, <2>3
<1>4. ASSUME NEW p \in Operators, RemovalStep(p) \/ Die(p)
      PROVE  OperatorIsSound(p)'
  <2>a. ops[p] \in OperatorRecords /\ OperatorShape(p) /\ OperatorIsSound(p)
    BY <1>a
  <2>b. CASE ops'[p].step \in {"idle", "lock"}
    BY <1>b, <2>b DEF OperatorIsSound, Working
  <2>c. ASSUME Refused(p)
        PROVE  OperatorIsSound(p)'
    BY <1>a, <2>b, <2>c, RefusedIs DEF Idle
  <2>d. ops[p].step # "idle" => /\ ops[p].rec \in Recoveries /\ ops[p].rec.plan \in RemovalPlans
                                /\ ops[p].step \in {"remove", "note"} => ops[p].file \in Payloads
    BY <2>a DEF OperatorShape, Recoveries, RemovalPlans, Left
  <2>e. ASSUME ops[p].step # "idle", UNCHANGED <<activations, current, skillsAt>>, SameState(ops[p].rec.plan),
               ops'[p].rec.plan = ops[p].rec.plan
        PROVE  SameState(ops[p].rec.plan)'
    <3>1. PICK plan : plan = ops[p].rec.plan
      OBVIOUS
    <3>2. SameState(plan)'
      BY <2>d, <2>e, <3>1, SameStateStays
    <3> QED BY <2>e, <3>1, <3>2 DEF SameState
  <2>1. CASE ReadRecovery(p)
    BY <1>a, <2>b, <2>1 DEF ReadRecovery, Move, RemovalTypes
  <2>2. CASE Lock(p)
    <3> DEFINE rec == ops[p].rec
    <3>1. CASE holder = NoOperator /\ rec.complete /\ holder' = p /\ Move(p, "pointer", rec) /\ Acts(rec) /\ UNCHANGED recovery
      <4>1. ops'[p].step = "pointer" /\ ops'[p].rec = rec /\ holder' = p
        BY <1>a, <3>1 DEF Move, RemovalTypes
      <4>2. rewound' \/ ~Stopped'
        BY <3>1, Zenon DEF Acts, Stopped
      <4> QED BY <1>b, <4>1, <4>2 DEF OperatorIsSound, Working
    <3>2. CASE holder = NoOperator /\ ~rec.complete /\ SameState(rec.plan) /\ holder' = p /\ Begin(p, rec)
      <4>1. /\ ops'[p].step = (IF rec.unitGone THEN "look" ELSE "unit") /\ ops'[p].rec = rec /\ holder' = p
        BY <1>a, <3>2 DEF Begin, Move, RemovalTypes
      <4>2. SameState(ops[p].rec.plan)'
        BY <2>2, <2>e, <3>2, <4>1 DEF Lock, Stands, installed
      <4> QED BY <1>b, <3>2, <4>1, <4>2 DEF OperatorIsSound, Working
    <3> QED BY <2>2, <2>c, <3>1, <3>2 DEF Lock
  <2>3. CASE RemoveUnit(p)
    <3> DEFINE gone == [ops[p].rec EXCEPT !.unitGone = TRUE]
    <3>0. ops[p].step = "unit" /\ holder = p /\ SameState(ops[p].rec.plan) /\ ~ops[p].rec.complete
      BY <2>3, <2>a DEF RemoveUnit, Stands, OperatorIsSound, Working
    <3>1. gone.plan = ops[p].rec.plan /\ gone.unitGone = TRUE /\ gone.complete = ops[p].rec.complete
      BY <2>d, <3>0 DEF Recoveries
    <3>2. CASE Move(p, "noteUnit", gone) /\ UNCHANGED holder
      <4> HIDE DEF gone
      <4>1. ops'[p].step = "noteUnit" /\ ops'[p].rec = gone /\ holder' = p
        BY <1>a, <3>0, <3>2 DEF Move, RemovalTypes
      <4>2. SameState(ops[p].rec.plan)'
        BY <2>3, <2>e, <3>0, <3>1, <4>1 DEF RemoveUnit
      <4> QED BY <1>b, <3>0, <3>1, <4>1, <4>2 DEF OperatorIsSound, Working
    <3> QED BY <2>3, <2>c, <3>2 DEF RemoveUnit
  <2>4. CASE NoteUnit(p)
    <3>0. /\ ops[p].step = "noteUnit" /\ holder = p /\ SameState(ops[p].rec.plan) /\ ~ops[p].rec.complete
          /\ ops[p].rec.unitGone
      BY <2>4, <2>a DEF NoteUnit, Stands, OperatorIsSound, Working
    <3>1. ops'[p].step = "look" /\ ops'[p].rec = ops[p].rec /\ holder' = p
      BY <1>a, <2>4, <3>0 DEF NoteUnit, Move, RemovalTypes
    <3>2. SameState(ops[p].rec.plan)'
      BY <2>4, <2>e, <3>0, <3>1 DEF NoteUnit, installed
    <3> QED BY <1>b, <3>0, <3>1, <3>2 DEF OperatorIsSound, Working
  <2>5. CASE Look(p)
    <3>0. /\ ops[p].step = "look" /\ holder = p /\ SameState(ops[p].rec.plan) /\ ~ops[p].rec.complete
          /\ ops[p].rec.unitGone
      BY <2>5, <2>a DEF Look, Stands, OperatorIsSound, Working
    <3>1. PICK f \in Left(ops[p].rec) : Looked(p, f, IF payload[f] = "own" THEN "remove" ELSE "note", payload[f])
      BY <2>5 DEF Look
    <3>2. /\ ops'[p].step = (IF payload[f] = "own" THEN "remove" ELSE "note") /\ ops'[p].rec = ops[p].rec
          /\ ops'[p].file = f /\ ops'[p].saw = payload[f]
      BY <1>a, <2>a, <3>1 DEF Looked, RemovalTypes, OperatorRecords
    <3>3. holder' = p /\ payload' = payload /\ payload[f] \in {"absent", "own", "edited"}
      <4>1. f \in Payloads
        BY <2>d, <3>0, <3>1 DEF Left, RemovalPlans, Recoveries
      <4> QED BY <2>5, <3>0, <4>1, <1>a DEF Look, RemovalTypes, UninstallTypeOK
    <3>4. SameState(ops[p].rec.plan)'
      BY <2>5, <2>e, <3>0, <3>2 DEF Look, installed
    <3> QED BY <1>b, <3>0, <3>2, <3>3, <3>4 DEF OperatorIsSound, Working
  <2>6. CASE Remove(p)
    <3>0. /\ ops[p].step = "remove" /\ holder = p /\ SameState(ops[p].rec.plan) /\ ~ops[p].rec.complete
          /\ ops[p].rec.unitGone /\ ops[p].saw = "own"
      BY <2>6, <2>a DEF Remove, Stands, OperatorIsSound, Working
    <3>1. /\ ops'[p].step = "note" /\ ops'[p].rec = ops[p].rec /\ ops'[p].file = ops[p].file
          /\ ops'[p].saw = ops[p].saw
      BY <1>a, <2>a, <2>6 DEF Remove, RemovalTypes, OperatorRecords
    <3>2. holder' = p /\ payload'[ops[p].file] = "absent"
      BY <1>a, <2>6, <2>d, <3>0 DEF Remove, RemovalTypes, UninstallTypeOK
    <3>3. SameState(ops[p].rec.plan)'
      BY <2>6, <2>e, <3>0, <3>1 DEF Remove, installed
    <3> QED BY <1>b, <3>0, <3>1, <3>2, <3>3 DEF OperatorIsSound, Working
  <2>7. CASE Note(p)
    <3>0. /\ ops[p].step = "note" /\ holder = p /\ SameState(ops[p].rec.plan) /\ ~ops[p].rec.complete
          /\ ops[p].rec.unitGone
      BY <2>7, <2>a DEF Note, Stands, OperatorIsSound, Working
    <3>1. PICK rec \in {[ops[p].rec EXCEPT !.preserved = @ \cup {ops[p].file}], [ops[p].rec EXCEPT !.removed = @ \cup {ops[p].file}]} :
             Move(p, "look", rec)
      BY <2>7 DEF Note
    <3>2. rec.plan = ops[p].rec.plan /\ rec.unitGone = ops[p].rec.unitGone /\ rec.complete = ops[p].rec.complete
      BY <2>d, <3>0, <3>1 DEF Recoveries
    <3>3. ops'[p].step = "look" /\ ops'[p].rec = rec /\ holder' = p
      BY <1>a, <2>7, <3>0, <3>1 DEF Note, Move, RemovalTypes
    <3>4. SameState(ops[p].rec.plan)'
      BY <2>7, <2>e, <3>0, <3>2, <3>3 DEF Note, installed
    <3> QED BY <1>b, <3>0, <3>2, <3>3, <3>4 DEF OperatorIsSound, Working
  <2>8. CASE CompleteRemoval(p)
    <3>0. ops[p].step = "look" /\ holder = p
      BY <2>8, <2>a DEF CompleteRemoval, Stands, OperatorIsSound
    <3>1. recovery'.complete = TRUE /\ Move(p, "pointer", recovery') /\ UNCHANGED holder
      BY <2>8, <2>d, <3>0 DEF CompleteRemoval, Recoveries
    <3>2. ops'[p].step = "pointer" /\ holder' = p
      BY <1>a, <3>0, <3>1 DEF Move, RemovalTypes
    <3> QED BY <1>b, <3>1, <3>2 DEF OperatorIsSound, Working, Stopped
  <2>9. CASE RemovePointer(p)
    <3>0. ops[p].step = "pointer" /\ holder = p /\ (rewound \/ ~Stopped)
      BY <2>9, <2>a DEF RemovePointer, Stands, OperatorIsSound
    <3>1. CASE current' = 0 /\ Move(p, "skillsPointer", ops[p].rec) /\ UNCHANGED holder
      <4>1. ops'[p].step = "skillsPointer" /\ holder' = p
        BY <1>a, <3>0, <3>1 DEF Move, RemovalTypes
      <4>2. rewound' \/ ~Stopped'
        BY <2>9, <3>0 DEF RemovePointer, Stopped, ghosts
      <4> QED BY <1>b, <3>1, <4>1, <4>2 DEF OperatorIsSound, Working
    <3> QED BY <2>9, <2>c, <3>1 DEF RemovePointer
  <2>10. CASE RemoveSkillsPointer(p) \/ Die(p)
    BY <2>10, <2>c DEF RemoveSkillsPointer, Die
  <2> QED BY <1>4, <2>1, <2>2, <2>3, <2>4, <2>5, <2>6, <2>7, <2>8, <2>9, <2>10 DEF RemovalStep
<1>5. CASE InstallDies \/ RollBack \/ InstallUnit \/ \E v \in Releases : Install(v) \/ UpdateTo(v)
  BY <1>5, <1>1 DEF InstallDies, RollBack, InstallUnit, Install, UpdateTo, Room
<1> QED BY <1>2, <1>3, <1>4, <1>5 DEF UninstallNext

\* What the record promises of the files and of the pointer.
LEMMA RecordHolds ==
    ASSUME RemovalInv, UninstallNext
    PROVE  (CompleteIsLast /\ StoppedRemovalResumes /\ RemovedIsGone)'
<1> USE UninstallAssumption
<1>a. RemovalTypes /\ History /\ \A p \in Operators : OperatorIsSound(p) /\ ops[p] \in OperatorRecords /\ OperatorShape(p)
  BY DEF RemovalInv, RemovalTypes
<1>b. recovery # NoRecovery => recovery \in Recoveries /\ recovery.plan \in RemovalPlans /\ RecordIsTrue(recovery)
                               /\ recovery.removed \subseteq Payloads
  BY DEF RemovalInv, RemovalTypes, UninstallTypeOK, Recoveries
\* The record is the one that was there, and nothing it speaks of moves.
<1>c. ASSUME UNCHANGED <<recovery, activations, skillsAt>>, disturbed => disturbed', rewound => rewound',
             current' = current \/ (current' = 0 /\ (rewound \/ ~Stopped)),
             \A f \in Payloads : payload[f] = "absent" => payload'[f] = "absent"
      PROVE  (CompleteIsLast /\ StoppedRemovalResumes /\ RemovedIsGone)'
  <2>1. RemovedIsGone'
    BY <1>b, <1>c DEF RemovalInv, RemovedIsGone
  <2>2. ASSUME current' = current, recovery # NoRecovery
        PROVE  SameState(recovery.plan)' <=> SameState(recovery.plan)
    <3>1. PICK plan : plan = recovery.plan
      OBVIOUS
    <3>2. SameState(plan)' <=> SameState(plan)
      BY <1>b, <1>c, <2>2, <3>1, SameStateStays
    <3> QED BY <1>c, <3>1, <3>2 DEF SameState
  <2>3. CompleteIsLast'
    BY <1>c, <2>2 DEF RemovalInv, CompleteIsLast
  <2>4. StoppedRemovalResumes'
    BY <1>c, <2>2 DEF RemovalInv, StoppedRemovalResumes, Stopped
  <2> QED BY <2>1, <2>3, <2>4
\* A removal under way writes its record.
<1>d. ASSUME NEW rec \in Recoveries, recovery' = rec, RecordIsTrue(rec)', SameState(rec.plan)'
      PROVE  (CompleteIsLast /\ StoppedRemovalResumes /\ RemovedIsGone)'
  <2>1. SameState(recovery.plan)'
    BY <1>d DEF SameState
  <2> QED BY <1>d, <2>1 DEF CompleteIsLast, StoppedRemovalResumes, RemovedIsGone, RecordIsTrue
<1>1. CASE recovery' = NoRecovery
  BY <1>1 DEF CompleteIsLast, StoppedRemovalResumes, RemovedIsGone, Stopped
<1>2. CASE Review \/ RefusedAtOnce \/ InstallUnit \/ \E f \in Payloads : EditPayload(f)
  <2>1. UNCHANGED <<recovery, activations, skillsAt, current, disturbed, rewound>>
    BY <1>2 DEF Review, RefusedAtOnce, InstallUnit, EditPayload, uninstallVars, installed, ghosts
  <2>2. \A f \in Payloads : payload[f] = "absent" => payload'[f] = "absent"
    BY <1>2, <1>a DEF Review, RefusedAtOnce, InstallUnit, EditPayload, uninstallVars, RemovalTypes, UninstallTypeOK
  <2> QED BY <1>c, <2>1, <2>2
\* A completed removal left no active payload to verify.
<1>3. ASSUME recovery # NoRecovery, recovery.complete, ~disturbed, current # 0,
             NEW m \in DOMAIN activations, activations[m].era = activations[current].era
      PROVE  ~CorePresent(activations[m].ver)
  <2>1. SameState(recovery.plan)
    BY <1>3 DEF RemovalInv, CompleteIsLast
  <2>2. recovery.plan.runtime = ReleasesOf(Owned) \X {"versions"} \cup OwnedSkills
    BY <1>b, <1>3, <2>1, SameStateIs
  <2>3. m \in Owned /\ activations[m].ver \in ReleasesOf(Owned)
    BY <1>3 DEF Owned, ReleasesOf
  <2>4. <<activations[m].ver, "versions">> \in recovery.removed \cup recovery.preserved
    BY <1>b, <1>3, <2>2, <2>3 DEF RecordIsTrue, Left
  <2> QED BY <1>b, <1>3, <2>1, <2>4 DEF RecordIsTrue, CorePresent
<1>4. ASSUME RollBack \/ \E v \in Releases : UpdateTo(v)
      PROVE  (CompleteIsLast /\ StoppedRemovalResumes /\ RemovedIsGone)'
  <2>1. recovery' = recovery /\ Disturb /\ current # 0
    BY <1>4 DEF RollBack, UpdateTo
  <2>2. CASE recovery = NoRecovery
    BY <1>1, <2>1, <2>2
  <2>3. CASE Stopped \/ disturbed
    <3>1. disturbed'
      BY <2>1, <2>3 DEF Disturb
    <3> QED BY <3>1 DEF CompleteIsLast, StoppedRemovalResumes, RemovedIsGone
  <2>4. ASSUME recovery # NoRecovery, recovery.complete, ~disturbed
        PROVE  FALSE
    <3>1. current \in DOMAIN activations
      BY <2>1, <1>a, ActivationsAreTyped DEF RemovalTypes, UninstallTypeOK
    <3>2. CASE \E v \in Releases : UpdateTo(v)
      BY <1>3, <2>1, <2>4, <3>1, <3>2 DEF UpdateTo
    <3>3. CASE RollBack
      <4>1. /\ activations[current].from # 0 /\ CorePresent(activations[activations[current].from].ver)
        BY <3>3 DEF RollBack
      <4>2. activations[current].from \in DOMAIN activations
        BY <1>a, <3>3, RollBackIs
      <4>3. activations[activations[current].from].era = activations[current].era
        BY <1>a, <3>1, <4>1 DEF History
      <4> QED BY <1>3, <2>1, <2>4, <4>1, <4>2, <4>3
    <3> QED BY <1>4, <3>2, <3>3
  <2> QED BY <2>2, <2>3, <2>4 DEF Stopped
<1>5. ASSUME NEW p \in Operators, RemovalStep(p) \/ Die(p)
      PROVE  (CompleteIsLast /\ StoppedRemovalResumes /\ RemovedIsGone)'
  <2>1. CASE UNCHANGED <<recovery, installed, ghosts, payload>>
    BY <1>c, <2>1 DEF installed, ghosts
  <2>2. CASE RemoveUnit(p)
    BY <1>c, <2>2 DEF RemoveUnit, ghosts
  <2>3. CASE Remove(p)
    <3>1. \A f \in Payloads : payload[f] = "absent" => payload'[f] = "absent"
      BY <1>a, <2>3 DEF Remove, RemovalTypes, UninstallTypeOK
    <3> QED BY <1>c, <2>3, <3>1 DEF Remove, ghosts, installed
  <2>4. CASE RemovePointer(p)
    <3>1. rewound \/ ~Stopped
      BY <1>a, <2>4 DEF RemovePointer, Stands, OperatorIsSound
    <3>2. current' = current \/ current' = 0
      BY <2>4 DEF RemovePointer
    <3> QED BY <1>c, <2>4, <3>1, <3>2 DEF RemovePointer, ghosts
  <2>5. CASE RemoveSkillsPointer(p)
    <3>1. current = 0 /\ (rewound \/ ~Stopped)
      BY <1>a, <2>5 DEF RemoveSkillsPointer, Stands, OperatorIsSound
    <3>2. UNCHANGED <<recovery, payload, current, disturbed, rewound>>
      BY <2>5 DEF RemoveSkillsPointer, ghosts
    <3> QED BY <1>b, <3>1, <3>2 DEF RemovalInv, CompleteIsLast, StoppedRemovalResumes, RemovedIsGone, Stopped
  \* The steps that write the record.
  <2>6. ASSUME recovery' = ops'[p].rec, ops'[p].step # "idle", SameState(ops[p].rec.plan)'
        PROVE  (CompleteIsLast /\ StoppedRemovalResumes /\ RemovedIsGone)'
    <3>1. PICK new : new = ops'[p].rec
      OBVIOUS
    <3>2. recovery' \in Recoveries \/ recovery' = NoRecovery
      BY <1>a, RemovalStepTypes DEF RemovalTypes, UninstallTypeOK
    <3>3. CASE recovery' = NoRecovery
      BY <1>1, <3>3
    <3>4. CASE recovery' # NoRecovery
      <4>1. RecordIsTrue(recovery)'
        BY <3>4, RecordsAreTrue
      <4>2. RecordIsTrue(new)'
        BY <2>6, <3>1, <4>1 DEF RecordIsTrue, PlanIsOld, SameState, Left
      <4>3. SameState(new.plan)'
        BY <2>6, <3>1 DEF SameState
      <4> QED BY <1>d, <2>6, <3>1, <3>2, <3>4, <4>2, <4>3
    <3> QED BY <3>3, <3>4
  <2>7. OperatorIsSound(p)'
    BY OperatorsAreSound
  <2>8. CASE Lock(p)
    <3>1. UNCHANGED <<payload, installed, disturbed>>
      BY <2>8 DEF Lock
    <3>4. rewound => rewound'
      BY <2>8, Zenon DEF Lock, Begin, Acts
    <3>2. CASE recovery' = recovery
      BY <1>c, <3>1, <3>2, <3>4 DEF installed
    <3>3. CASE Begin(p, ops[p].rec)
      <4>1. recovery' = ops[p].rec /\ ops'[p].rec = ops[p].rec /\ ops'[p].step \in {"look", "unit"}
        BY <1>a, <3>3 DEF Begin, Move, RemovalTypes
      <4> QED BY <2>6, <2>7, <4>1 DEF OperatorIsSound, Working
    <3> QED BY <2>8, <3>2, <3>3 DEF Lock
  <2>9. CASE NoteUnit(p)
    <3>1. recovery' = ops[p].rec /\ ops'[p].rec = ops[p].rec /\ ops'[p].step = "look"
      BY <1>a, <2>9 DEF NoteUnit, Move, RemovalTypes
    <3> QED BY <2>6, <2>7, <3>1 DEF OperatorIsSound, Working
  <2>10. CASE Note(p)
    <3>1. recovery' = ops'[p].rec /\ ops'[p].step = "look"
      BY <1>a, <2>10 DEF Note, Move, RemovalTypes
    <3> QED BY <2>6, <2>7, <3>1 DEF OperatorIsSound, Working
  <2>11. CASE CompleteRemoval(p)
    <3>1. ops[p].step = "look" /\ recovery' = [ops[p].rec EXCEPT !.complete = TRUE] /\ Move(p, "pointer", recovery')
      BY <2>11 DEF CompleteRemoval, Stands
    <3>2. ops'[p].rec = recovery' /\ ops'[p].step = "pointer"
      BY <1>a, <3>1 DEF Move, RemovalTypes
    <3>3. PICK plan : plan = ops[p].rec.plan
      OBVIOUS
    <3>4. plan \in RemovalPlans /\ SameState(plan) /\ ops'[p].rec.plan = plan
      BY <1>a, <3>1, <3>2, <3>3 DEF OperatorShape, OperatorIsSound, Working, Recoveries
    <3>5. SameState(plan)'
      BY <2>11, <3>4, SameStateStays DEF CompleteRemoval, installed
    <3> QED BY <2>6, <3>2, <3>4, <3>5 DEF SameState
  <2>12. CASE ReadRecovery(p) \/ Look(p) \/ Die(p)
    BY <2>1, <2>12 DEF ReadRecovery, Look, Die
  <2> QED BY <1>5, <2>2, <2>3, <2>4, <2>5, <2>8, <2>9, <2>10, <2>11, <2>12 DEF RemovalStep
<1> QED BY <1>1, <1>2, <1>4, <1>5 DEF UninstallNext, InstallDies, Install

LEMMA RemovalInvHolds == UninstallSpec => []RemovalInv
<1> USE UninstallAssumption
<1>1. UninstallInit => RemovalInv
  <2> SUFFICES ASSUME UninstallInit
               PROVE  RemovalInv
    OBVIOUS
  <2> DEFINE first == [ver |-> FirstRelease, era |-> 1, from |-> 0, skills |-> 0, undone |-> FALSE]
  <2>1. first \in ActivationRecords /\ first.from = 0 /\ first.undone = FALSE
    BY DEF ActivationRecords
  <2>2. activations = <<first>>
    BY DEF UninstallInit
  <2> HIDE DEF first
  <2>3. /\ activations \in Seq(ActivationRecords) /\ Len(activations) = 1 /\ DOMAIN activations = {1}
        /\ activations[1] = first
    BY <2>1, <2>2
  <2>4. Idle \in OperatorRecords /\ Idle.step = "idle" /\ \A p \in Operators : ops[p] = Idle
    BY DEF UninstallInit, Idle, OperatorRecords, RemovalSteps
  <2>5. ops \in [Operators -> OperatorRecords] /\ \A p \in Operators : OperatorShape(p)
    BY <2>4 DEF UninstallInit, OperatorShape
  <2>6. UninstallTypeOK
    <3>1. \A p \in Operators : /\ ops[p].step \in RemovalSteps
                               /\ ops[p].rec = NoRecovery \/ ops[p].rec \in Recoveries
                               /\ ops[p].file \in Payloads \cup {NoPayload} /\ ops[p].saw \in {"absent", "own", "edited"}
      BY <2>4 DEF OperatorRecords
    <3>2. payload \in [Payloads -> {"absent", "own", "edited"}]
      BY DEF UninstallInit
    <3>3. /\ Len(activations) <= MaxActivations /\ current \in 0..Len(activations) /\ unit \in 0..Len(activations)
          /\ skillsAt \in Releases \cup {0} /\ aborts \in 0..MaxAborts /\ handEdits \in 0..MaxHandEdits
      BY <2>3 DEF UninstallInit
    <3>4. lateUnit \in BOOLEAN /\ disturbed \in BOOLEAN /\ rewound \in BOOLEAN
      BY DEF UninstallInit
    <3>5. recovery = NoRecovery /\ plans = {} /\ holder = NoOperator
      BY DEF UninstallInit
    <3> QED BY <2>3, <3>1, <3>2, <3>3, <3>4, <3>5 DEF UninstallTypeOK
  <2>7. RemovalTypes
    BY <2>1, <2>3, <2>5, <2>6 DEF RemovalTypes
  <2>8. History
    BY <2>1, <2>3 DEF History, UninstallInit
  <2>9. \A p \in Operators : OperatorIsSound(p)
    BY <2>4 DEF OperatorIsSound, Working
  <2> QED BY <2>7, <2>8, <2>9 DEF UninstallInit, RemovalInv, CompleteIsLast, StoppedRemovalResumes, RemovedIsGone, Stopped
<1>2. RemovalInv /\ [UninstallNext]_uninstallVars => RemovalInv'
  <2>1. ASSUME RemovalInv, UninstallNext
        PROVE  RemovalInv'
    BY <2>1, RemovalStepTypes, HistoryIsKept, RecordsAreTrue, OperatorsAreSound, RecordHolds DEF RemovalInv
  <2>2. ASSUME RemovalInv, UNCHANGED uninstallVars
        PROVE  RemovalInv'
    <3> USE <2>2 DEF uninstallVars, installed, ghosts
    <3>1. RemovalTypes'
      BY DEF RemovalInv, RemovalTypes, UninstallTypeOK, OperatorShape, Left
    <3>2. History'
      BY DEF RemovalInv, History
    <3>3. \A plan : PlanIsOld(plan)' <=> PlanIsOld(plan)
      BY DEF PlanIsOld
    <3>4. \A plan : SameState(plan)' <=> SameState(plan)
      BY DEF SameState, Build, Owned, OwnedSkills, ReleasesOf
    <3>5. \A rec : RecordIsTrue(rec)' <=> RecordIsTrue(rec)
      BY <3>3, <3>4 DEF RecordIsTrue, Left
    <3>6. SameState(recovery.plan)' <=> SameState(recovery.plan)
      BY DEF SameState, Build, Owned, OwnedSkills, ReleasesOf
    <3>7. RecordIsTrue(recovery)' <=> RecordIsTrue(recovery)
      BY <3>3, <3>6 DEF RecordIsTrue, Left, PlanIsOld
    <3>8. ASSUME NEW p \in Operators
          PROVE  OperatorIsSound(p)'
      <4>1. SameState(ops[p].rec.plan)' <=> SameState(ops[p].rec.plan)
        BY DEF SameState, Build, Owned, OwnedSkills, ReleasesOf
      <4>2. RecordIsTrue(ops[p].rec)' <=> RecordIsTrue(ops[p].rec)
        BY <4>1 DEF RecordIsTrue, Left, PlanIsOld
      <4> QED BY <4>1, <4>2 DEF RemovalInv, OperatorIsSound, Stopped
    <3> QED BY <3>1, <3>2, <3>3, <3>6, <3>7, <3>8
            DEF RemovalInv, CompleteIsLast, StoppedRemovalResumes, RemovedIsGone, Stopped
  <2> QED BY <2>1, <2>2
<1> QED BY <1>1, <1>2, PTL DEF UninstallSpec

(* A removal of the ecosystem that stopped can be taken up where it        *)
(* stopped, whatever installs, updates, rollbacks and other removals come  *)
(* between: its record is well formed, true, and of the state that is      *)
(* there, unless an update or a removal with an outdated record went on    *)
(* from it (apply, prepare_install).                                       *)
THEOREM RemovalsResume == UninstallSpec => []RemovalCanBeTakenUp
<1>1. RemovalInv => RemovalCanBeTakenUp
  BY DEF RemovalInv, RemovalTypes, RemovalCanBeTakenUp
<1> QED BY <1>1, RemovalInvHolds, PTL

(* A file is removed only unedited, by the holder of the lock, under a     *)
(* plan that names it and whose state is the present one, and after the    *)
(* service (apply).                                                        *)
THEOREM RemovalsAreApproved == UninstallSpec => FilesGoAsApproved
<1> DEFINE Went(f, p) == /\ holder = p /\ ops[p].file = f /\ ops[p].saw = "own"
                         /\ f \in ops[p].rec.plan.runtime /\ SameState(ops[p].rec.plan)
                         /\ (unit = 0 \/ lateUnit \/ ops[p].rec.plan.unit = 0)
<1>1. ASSUME RemovalInv, [UninstallNext]_uninstallVars, NEW f \in Payloads, Taken(f)
      PROVE  \E p \in Operators : Went(f, p)
  <2>1. PICK p \in Operators : Remove(p)
    <3>1. payload' # payload /\ UninstallNext
      BY <1>1 DEF Taken, uninstallVars
    <3>2. ASSUME NEW v, NEW era, NEW from, PointAt(v, era, from)
          PROVE  FALSE
      BY <1>1, <3>2 DEF PointAt, Taken
    <3>3. ASSUME NEW g \in Payloads, EditPayload(g)
          PROVE  FALSE
      BY <1>1, <3>3 DEF EditPayload, Taken, RemovalInv, RemovalTypes, UninstallTypeOK
    <3> QED BY <3>1, <3>2, <3>3 DEF UninstallNext, Review, RefusedAtOnce, InstallDies, RollBack, InstallUnit, Install,
                 UpdateTo, RemovalStep, Die, ReadRecovery, Lock, RemoveUnit, NoteUnit, Look, Note, CompleteRemoval,
                 RemovePointer, RemoveSkillsPointer, uninstallVars
  <2>2. /\ ops[p].step = "remove" /\ holder = p /\ SameState(ops[p].rec.plan) /\ ops[p].saw = "own"
        /\ ops[p].rec.unitGone /\ RecordIsTrue(ops[p].rec) /\ ops[p].file \in Left(ops[p].rec)
    BY <1>1, <2>1 DEF Remove, Stands, RemovalInv, RemovalTypes, OperatorIsSound, OperatorShape, Working
  <2>3. ops[p].file = f
    BY <1>1, <2>1 DEF Remove, Taken, RemovalInv, RemovalTypes, UninstallTypeOK
  <2> QED BY <2>2, <2>3 DEF RecordIsTrue, Left
<1>2. RemovalInv /\ [UninstallNext]_uninstallVars =>
        [\A f \in Payloads : Taken(f) => \E p \in Operators : ops[p].file = f /\ ops[p].saw = "own"]_uninstallVars
  BY <1>1
<1>3. RemovalInv /\ [UninstallNext]_uninstallVars =>
        [\A f \in Payloads : Taken(f) => \E p \in Operators :
          holder = p /\ ops[p].file = f /\ f \in ops[p].rec.plan.runtime /\ SameState(ops[p].rec.plan)]_uninstallVars
  BY <1>1
<1>4. RemovalInv /\ [UninstallNext]_uninstallVars =>
        [(\E f \in Payloads : Taken(f)) => \/ unit = 0 \/ lateUnit
                                          \/ \E p \in Operators : holder = p /\ ops[p].rec.plan.unit = 0]_uninstallVars
  BY <1>1
<1> QED BY <1>2, <1>3, <1>4, RemovalInvHolds, PTL
       DEF UninstallSpec, FilesGoAsApproved, EditedFilesSurvive, RemovalIsApproved, ServiceGoesFirst
=============================================================================
