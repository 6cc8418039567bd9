----------------------------- MODULE ServeProofs ----------------------------
(***************************************************************************)
(* What the processes around the daemon are promised, for any number of    *)
(* them: the guards of an instance (Guard), the round trip with a host's   *)
(* process (RoundTrip), the service that keeps the daemon running          *)
(* (Service).                                                              *)
(***************************************************************************)
EXTENDS Guard, RoundTrip, Service, TLAPS

-----------------------------------------------------------------------------
(* The guards of an instance. *)

\* A lock that one process has exclusively is nobody else's.
LocksExclude ==
    \A p, q \in Participants, r \in Roles :
        p # q /\ grip[p][r] = "exclusive" => grip[q][r] = "none"

\* What a process holds and knows follows from where it stands in its plan.
GripFollowsStep ==
    \A p \in Participants :
        /\ plan[p] = "idle" => step[p] = "admission"
        /\ step[p] = "admission" => grip[p]["admission"] = "none" /\ grip[p]["data"] = "none"
        /\ step[p] = "data" => /\ grip[p]["admission"] = ModeOf(plan[p])
                               /\ grip[p]["data"] = "none"
        /\ step[p] \in {"begin", "expose", "delete"} => /\ grip[p]["admission"] = ModeOf(plan[p])
                                                        /\ grip[p]["data"] = ModeOf(plan[p])
        /\ step[p] = "expose" => plan[p] = "publisher"
        /\ step[p] = "delete" => plan[p] = "collector"
        /\ step[p] = "copy" => /\ plan[p] = "reader" /\ grip[p]["admission"] = "none"
                               /\ grip[p]["data"] = "shared"
        /\ step[p] = "done" => /\ plan[p] # "reader" /\ grip[p]["admission"] = "exclusive"
                               /\ grip[p]["data"] \in {"exclusive", "none"}
        /\ pinned[p] # NoGeneration => plan[p] = "reader" /\ step[p] \in {"begin", "copy"}
        /\ doomed[p] # {} => step[p] = "delete"

\* A collector's plan stays what it was when it was made: the pointer, a
\* generation on its way to it and the pins are not in it.
DoomedIsFree ==
    \A p \in Participants : step[p] = "delete" => /\ exposed = {} /\ current \notin doomed[p]

GuardInv ==
    /\ PinnedGenerationStays
    /\ LocksExclude
    /\ GripFollowsStep
    /\ DoomedIsFree

LEMMA GuardStarts == GuardInit => GuardInv
  BY GuardAssumption
  DEF GuardInit, GuardInv, PinnedGenerationStays, GuardTypeOK, LocksExclude, GripFollowsStep,
      DoomedIsFree, Nothing, Roles, Modes, Plans, Working

\* A process that leaves, for whatever reason, takes only from itself.
LEMMA LeavingKeeps ==
  ASSUME GuardInv, NEW p \in Participants, Leaves(p), UNCHANGED guarded
  PROVE  GuardInv'
  BY GuardAssumption
  DEF Leaves, guarded, GuardInv, PinnedGenerationStays, GuardTypeOK, LocksExclude,
      GripFollowsStep, DoomedIsFree, Nothing, Roles, Modes, Plans, Working, ModeOf

LEMMA GuardStep == ASSUME GuardInv, [GuardNext]_guardVars PROVE GuardInv'
  <1> USE GuardAssumption
      DEF GuardInv, PinnedGenerationStays, GuardTypeOK, LocksExclude, GripFollowsStep,
          DoomedIsFree, Roles, Modes, Plans, Working, ModeOf, Works, Goes, Waiting, turn, clock,
          guarded
  <1>1. ASSUME NEW p \in Participants, NEW k \in Plans, BeginAcquire(p, k) PROVE GuardInv'
    BY <1>1 DEF BeginAcquire
  <1>2. ASSUME NEW p \in Participants, TryAcquire(p) PROVE GuardInv'
    BY <1>2 DEF TryAcquire, Advances, Grants
  <1>3. ASSUME NEW p \in Participants, Sleep(p) PROVE GuardInv'
    BY <1>3 DEF Sleep, Least, Refused
  <1>4. ASSUME NEW p \in Participants,
               TimeOut(p) \/ Abandon(p) \/ Die(p) \/ ReleaseReader(p) \/ ReleaseSet(p)
        PROVE  GuardInv'
    BY <1>4, LeavingKeeps DEF TimeOut, Abandon, Die, ReleaseReader, ReleaseSet
  <1>5. ASSUME NEW p \in Participants, NEW g \in Releasable, StageUnderGuard(p, g) PROVE GuardInv'
    BY <1>5 DEF StageUnderGuard
  <1>6. ASSUME NEW p \in Participants, NEW g \in Releasable, DeleteOne(p, g) PROVE GuardInv'
    BY <1>6 DEF DeleteOne
  <1>7. ASSUME NEW p \in Participants, PointUnderGuard(p) PROVE GuardInv'
    BY <1>7 DEF PointUnderGuard
  <1>8. ASSUME NEW p \in Participants, NEW pins \in SUBSET Pins, PlanGc(p, pins) PROVE GuardInv'
    BY <1>8 DEF PlanGc, Protected
  <1>9. ASSUME NEW p \in Participants, RefuseGc(p) \/ DeletedAll(p) PROVE GuardInv'
    BY <1>9 DEF RefuseGc, DeletedAll
  <1>10. ASSUME NEW p \in Participants, PinUnderGuard(p) PROVE GuardInv'
    BY <1>10 DEF PinUnderGuard
  <1>11. ASSUME NEW p \in Participants, ReleaseAdmission(p) PROVE GuardInv'
    BY <1>11 DEF ReleaseAdmission
  <1>12. ASSUME NEW p \in Participants, ReleaseData(p) PROVE GuardInv'
    BY <1>12 DEF ReleaseData
  <1>13. CASE UNCHANGED guardVars
    BY <1>13 DEF guardVars
  <1> QED
    BY <1>1, <1>2, <1>3, <1>4, <1>5, <1>6, <1>7, <1>8, <1>9, <1>10, <1>11, <1>12, <1>13
    DEF GuardNext, Attempt

LEMMA GuardInvariant == GuardSpec => []GuardInv
  <1>1. GuardInv /\ [GuardNext]_guardVars => GuardInv'
    BY GuardStep
  <1> QED
    BY GuardStarts, <1>1, PTL DEF GuardSpec

(* For any number of publishers, collectors and readers: what a reader has *)
(* pinned is there until it lets its guards go, also after it has given up *)
(* admission (acquire_reader, release_admission, plan_gc and execute), and *)
(* so is what the pointer names.                                           *)
THEOREM PinnedStays == GuardSpec => []PinnedGenerationStays
  <1>1. GuardInv => PinnedGenerationStays
    BY DEF GuardInv
  <1> QED
    BY GuardInvariant, <1>1, PTL

\* A reader comes in by taking the data lock, and has admission, shared, by then.
LEMMA DoorStep ==
  ASSUME GuardInv, [GuardNext]_guardVars, NEW w \in Participants,
         grip[w]["admission"] = "exclusive", grip'[w]["admission"] = "exclusive",
         NEW r \in Participants, grip'[r]["data"] = "shared"
  PROVE  grip[r]["data"] = "shared"
  <1> USE DEF GuardInv, PinnedGenerationStays, GuardTypeOK, Roles, Modes
  <1>1. ASSUME NEW p \in Participants, TryAcquire(p) PROVE grip[r]["data"] = "shared"
    BY <1>1 DEF TryAcquire, Waiting, Grants, LocksExclude, GripFollowsStep, ModeOf, Plans, Working
  <1>2. ASSUME NEW p \in Participants, Leaves(p) PROVE grip[r]["data"] = "shared"
    BY <1>2 DEF Leaves, Nothing
  <1>3. ASSUME NEW p \in Participants, ReleaseAdmission(p) \/ ReleaseData(p)
        PROVE  grip[r]["data"] = "shared"
    BY <1>3 DEF ReleaseAdmission, ReleaseData
  <1>4. CASE UNCHANGED grip
    BY <1>4
  <1> QED
    BY <1>1, <1>2, <1>3, <1>4
    DEF GuardNext, guardVars, Attempt, BeginAcquire, Sleep, TimeOut, Abandon, Die, ReleaseReader,
        ReleaseSet, StageUnderGuard, DeleteOne, PointUnderGuard, PlanGc, RefuseGc, DeletedAll,
        PinUnderGuard

(* Writers do not starve behind readers: while one has admission, no       *)
(* reader gets the data lock, and so those it waits for only leave (the    *)
(* order admission, then data, of both plans).                             *)
THEOREM DoorIsClosed == GuardSpec => AdmissionClosesTheDoor
  <1> DEFINE Door == \A w \in Participants :
                       grip[w]["admission"] = "exclusive" /\ grip'[w]["admission"] = "exclusive"
                       => {r \in Participants : grip'[r]["data"] = "shared"}
                            \subseteq {r \in Participants : grip[r]["data"] = "shared"}
  <1>1. GuardInv /\ [GuardNext]_guardVars => [Door]_guardVars
    BY DoorStep
  <1> QED
    BY GuardInvariant, <1>1, PTL DEF GuardSpec, AdmissionClosesTheDoor

-----------------------------------------------------------------------------
(* The round trip with a host's process. *)

\* A line that would pass a step was said in answer to a request that was sent.
ExpectedIsAnswered ==
    \A i \in 1..Len(lines) :
        lines[i].body = "expected" /\ lines[i].id # 0 => lines[i].id \in answered

\* The steps passed so far were answered, and time is only used up.
StepsAreAnswered ==
    /\ answered \subseteq 1..asked
    /\ phase = "send" => asked < 3 /\ 1..asked \subseteq answered
    /\ phase = "await" => asked > 0 /\ 1..(asked - 1) \subseteq answered
    /\ verdict # "none" => phase = "done"
    /\ left + spent = Timeout

RoundTripInv == IntegratedMeansAnswered /\ ExpectedIsAnswered /\ StepsAreAnswered

\* What is left of a channel when its first line is taken.
LEMMA TailOf ==
  ASSUME NEW S, NEW s \in Seq(S), s # <<>>
  PROVE  /\ Tail(s) \in Seq(S) /\ Len(Tail(s)) = Len(s) - 1 /\ Len(s) \in Nat
         /\ Head(s) = s[1] /\ 1 \in 1..Len(s) /\ s[1] \in S
         /\ \A i \in 1..Len(Tail(s)) : Tail(s)[i] = s[i + 1] /\ i + 1 \in 1..Len(s)
  OBVIOUS

LEMMA RoundTripStarts == RoundTripInit => RoundTripInv
  BY RoundTripAssumption
  DEF RoundTripInit, RoundTripInv, IntegratedMeansAnswered, RoundTripTypeOK, ExpectedIsAnswered,
      StepsAreAnswered, RpcIds, Lines

LEMMA RoundTripStep == ASSUME RoundTripInv, [RoundTripNext]_tvars PROVE RoundTripInv'
  <1> USE RoundTripAssumption
      DEF RoundTripInv, IntegratedMeansAnswered, RoundTripTypeOK, ExpectedIsAnswered,
          StepsAreAnswered, RpcIds, Lines, Fail
  <1>1. CASE VerifyAgain
    BY <1>1 DEF VerifyAgain
  <1>2. CASE SendRequest
    <2>1. asked' = asked + 1 /\ asked' \in 1..3 /\ answered' = answered /\ lines' = lines
      BY <1>2 DEF SendRequest
    <2>2. answered' \subseteq 1..asked' /\ 1..(asked' - 1) \subseteq answered' /\ asked' > 0
      BY <1>2, <2>1 DEF SendRequest
    <2>3. ExpectedIsAnswered' /\ verdict' \in {"none", "not-integrated"}
      BY <1>2, <2>1 DEF SendRequest
    <2>4. RoundTripTypeOK'
      <3>1. phase' \in {"send", "await", "done"} /\ running' \in BOOLEAN
        BY <1>2 DEF SendRequest
      <3>2. left' \in 0..Timeout /\ spent' \in 0..Timeout
        BY <1>2 DEF SendRequest
      <3> QED
        BY <2>1, <2>3, <3>1, <3>2
    <2>5. StepsAreAnswered'
      BY <1>2, <2>1, <2>2 DEF SendRequest
    <2> QED
      BY <2>3, <2>4, <2>5 DEF RoundTripInv, IntegratedMeansAnswered
  <1>3. CASE Receive
    <2>1. /\ lines' = Tail(lines) /\ Len(lines') = Len(lines) - 1 /\ lines # <<>>
          /\ \A i \in 1..Len(lines') : lines'[i] = lines[i + 1] /\ i + 1 \in 1..Len(lines)
          /\ Head(lines) = lines[1] /\ 1 \in 1..Len(lines) /\ lines[1] \in Lines
          /\ lines' \in Seq(Lines) /\ Len(lines') <= Channel
      <3>1. lines' = Tail(lines) /\ lines # <<>> /\ lines \in Seq(Lines)
        BY <1>3 DEF Receive
      <3> QED
        <4> HIDE DEF Lines
        <4>1. Len(lines) <= Channel /\ Channel \in Nat
          OBVIOUS
        <4> HIDE DEF RoundTripInv
        <4> QED
          BY <3>1, <4>1, TailOf
    <2>2. UNCHANGED <<asked, answered, left, spent>> /\ phase = "await"
      BY <1>3 DEF Receive
    <2>3. ASSUME NEW i \in 1..Len(lines'), lines'[i].body = "expected", lines'[i].id # 0
          PROVE  lines'[i].id \in answered'
      BY <2>1, <2>2, <2>3
    <2>4. CASE Fail \/ UNCHANGED <<phase, verdict, running>>
      BY <2>1, <2>2, <2>3, <2>4
    <2>5. CASE lines[1].id = asked /\ lines[1].body = "expected" /\ StepPassed
      <3>1. asked \in answered /\ 1..(asked - 1) \subseteq answered
        BY <2>1, <2>2, <2>5
      <3>2. 1..asked \subseteq answered
        BY <3>1
      <3> QED
        <4>1. CASE asked = 3
          BY <2>1, <2>2, <2>3, <2>5, <3>2, <4>1 DEF StepPassed
        <4>2. CASE asked # 3
          BY <2>1, <2>2, <2>3, <2>5, <3>2, <4>2 DEF StepPassed
        <4> QED
          BY <4>1, <4>2
    <2> QED
      BY <1>3, <2>1, <2>4, <2>5 DEF Receive
  <1>4. CASE GiveUp \/ Exits \/ TimePasses
    <2>1. UNCHANGED <<asked, lines, answered>> /\ left' \in 0..Timeout /\ spent' \in 0..Timeout
          /\ left' + spent' = Timeout
      BY <1>4 DEF GiveUp, Exits, TimePasses
    <2> QED
      BY <1>4, <2>1 DEF GiveUp, Exits, TimePasses
  <1>5. ASSUME NEW id \in RpcIds, NEW body \in {"expected", "other"}, Answer(id, body)
        PROVE  RoundTripInv'
    BY <1>5 DEF Answer, Speaks
  <1>6. ASSUME NEW body \in {"expected", "garbage"}, Babble(body) PROVE RoundTripInv'
    BY <1>6 DEF Babble, Speaks
  <1>7. CASE UNCHANGED tvars
    BY <1>7 DEF tvars
  <1> QED
    BY <1>1, <1>2, <1>3, <1>4, <1>5, <1>6, <1>7 DEF RoundTripNext

(* Whatever the process says, how late and how often, and for any size of  *)
(* the channel and any deadline: "integrated" means that all three         *)
(* requests were answered as expected (request and verify_mcp).            *)
THEOREM VerdictIsEarned == RoundTripSpec => []IntegratedMeansAnswered
  <1>1. RoundTripInv /\ [RoundTripNext]_tvars => RoundTripInv'
    BY RoundTripStep
  <1>2. RoundTripInv => IntegratedMeansAnswered
    BY DEF RoundTripInv
  <1> QED
    BY RoundTripStarts, <1>1, <1>2, PTL DEF RoundTripSpec

-----------------------------------------------------------------------------
(* The service. *)

\* The command that runs and what it was started for: the definition it writes is the one of the
\* active generation.
CommandKnowsItsGeneration ==
    /\ cmd \in [op : {"none", "install", "remove", "update"},
                at : {"idle", "write", "bootstrap", "record", "undo", "bootout", "target", "delete",
                      "forget", "point"},
                def : Activations \cup {NoDefinition}, to : Activations \cup {NoDefinition}]
    /\ cmd.at \in {"write", "bootstrap", "record", "undo"} => cmd.def = gen
    /\ cmd.op = "update" => cmd.to \in Activations
    /\ cmd.at = "point" => cmd.op = "update"

\* What a command saw when it started still holds, and its own effects are there.
CommandSeesTheHost ==
    /\ cmd.at = "write" => Installable
    /\ cmd.at \in {"bootstrap", "record", "undo"} => plist = cmd.def
    /\ cmd.at \in {"record", "undo"} => loaded = plist
    /\ cmd.at \in {"bootout", "delete"} => Owned
    /\ cmd.at \in {"target", "forget"} => owned # NoRecord /\ plist = NoDefinition
    /\ cmd.at \in {"delete", "forget", "point"} => loaded = NoDefinition
    /\ cmd.at = "point" => plist = NoDefinition

\* The record is about a definition of this installation, the one of the generation it names, and
\* a label that is loaded while the definition is the recorded one was loaded from it.
RecordIsAboutTheLabel ==
    owned # NoRecord =>
        /\ owned.def = owned.gen
        /\ plist = owned.def /\ loaded # NoDefinition => loaded = owned.def

\* What is there is recorded, also in the middle of a command that has not written yet.
PresentIsRecorded ==
    cmd.at \notin {"bootstrap", "record", "undo"} /\ ~byHand /\ ~loose =>
        (plist # NoDefinition \/ loaded # NoDefinition
         => owned # NoRecord /\ plist \in {owned.def, NoDefinition})

ServiceInv ==
    /\ ServiceTypeOK
    /\ CommandKnowsItsGeneration
    /\ ~raced => CommandSeesTheHost /\ RecordIsAboutTheLabel /\ PresentIsRecorded

LEMMA ServiceStarts == ServiceInit => ServiceInv
  <1> SUFFICES ASSUME ServiceInit PROVE ServiceInv
    OBVIOUS
  <1>1. alive \in BOOLEAN /\ byHand \in BOOLEAN /\ (alive => loaded # NoDefinition)
    BY DEF ServiceInit
  <1>2. ~byHand => plist = NoDefinition /\ loaded = NoDefinition
    BY DEF ServiceInit
  <1>3. tally \in [sessions : 0..MaxSessions, refusals : 0..MaxRefusals, kills : 0..MaxKills]
    BY ServiceAssumption DEF ServiceInit
  <1> QED
  BY <1>1, <1>2, <1>3, ServiceAssumption
  DEF ServiceInit, ServiceInv, ServiceTypeOK, CommandKnowsItsGeneration, CommandSeesTheHost,
      RecordIsAboutTheLabel, PresentIsRecorded, NoCommand, Definitions, Records

LEMMA ServiceStep == ASSUME ServiceInv, [ServiceNext]_serviceVars PROVE ServiceInv'
  <1> USE ServiceAssumption
      DEF ServiceInv, ServiceTypeOK, CommandKnowsItsGeneration, CommandSeesTheHost,
          RecordIsAboutTheLabel, PresentIsRecorded, NoCommand, Definitions, Records, Owned, Step,
          Stopped, LeftLoose, Refuses, Installable, Controlled, Meanwhile, Visits, host, history
  <1>1. CASE BeginInstall
    BY <1>1 DEF BeginInstall
  <1>2. CASE WriteDefinition
    BY <1>2 DEF WriteDefinition
  <1>3. CASE LoadDefinition
    BY <1>3 DEF LoadDefinition
  <1>4. CASE LoadRefused
    <2>1. tally' \in [sessions : 0..MaxSessions, refusals : 0..MaxRefusals, kills : 0..MaxKills]
      BY <1>4 DEF LoadRefused
    <2>2. loose' = TRUE
      BY <1>4 DEF LoadRefused
    <2> QED
      BY <1>4, <2>1, <2>2 DEF LoadRefused
  <1>5. CASE RecordService
    <2>1. owned' \in Records /\ owned'.def = plist /\ owned'.gen = gen
      BY <1>5 DEF RecordService
    <2>2. ~raced => plist = gen /\ loaded = plist
      BY <1>5 DEF RecordService
    <2> QED
      BY <1>5, <2>1, <2>2 DEF RecordService
  <1>6. CASE DefinitionGone
    BY <1>6 DEF DefinitionGone
  <1>7. CASE RecordRefused
    BY <1>7 DEF RecordRefused
  <1>8. CASE UndoInstall
    BY <1>8 DEF UndoInstall
  <1>9. CASE Bootout
    BY <1>9 DEF Bootout
  <1>10. CASE NotLoaded
    BY <1>10 DEF NotLoaded
  <1>11. CASE BootoutRefused
    BY <1>11 DEF BootoutRefused
  <1>12. CASE DeleteDefinition
    BY <1>12 DEF DeleteDefinition
  <1>13. CASE Forget
    BY <1>13 DEF Forget
  <1>14. CASE MoveCurrent
    <2>1. cmd.to \in Activations /\ gen' = cmd.to
      BY <1>14 DEF MoveCurrent
    <2>2. cmd' = NoCommand \/ (Installable /\ cmd' = [cmd EXCEPT !.at = "write", !.def = cmd.to])
      BY <1>14 DEF MoveCurrent
    <2> QED
      <3>1. CASE cmd' = NoCommand
        BY <1>14, <2>1, <3>1 DEF MoveCurrent
      <3>2. CASE Installable /\ cmd' = [cmd EXCEPT !.at = "write", !.def = cmd.to]
        BY <1>14, <2>1, <3>2 DEF MoveCurrent
      <3> QED
        BY <2>2, <3>1, <3>2
  <1>15. CASE StartService \/ StopService \/ DaemonExits
    <2>1. alive' \in BOOLEAN /\ (alive' => loaded # NoDefinition)
      BY <1>15 DEF StartService, StopService, DaemonExits
    <2> QED
      BY <1>15, <2>1 DEF StartService, StopService, DaemonExits
  <1>16. ASSUME NEW op \in {"remove", "update"}, NEW to \in Activations \cup {NoDefinition},
                BeginRemove(op, to), op = "update" => to \in Activations
         PROVE  ServiceInv'
    BY <1>16 DEF BeginRemove, RemoveFrom
  <1>17. ASSUME NEW g \in Activations, Activate(g) PROVE ServiceInv'
    BY <1>17 DEF Activate
  <1>18. CASE Login
    <2>1. tally' \in [sessions : 0..MaxSessions, refusals : 0..MaxRefusals, kills : 0..MaxKills]
      BY <1>18 DEF Login
    <2>2. raced' \in BOOLEAN /\ (~raced' => ~raced /\ cmd.at = "idle")
      BY <1>18 DEF Login
    <2>3. alive' \in BOOLEAN /\ (alive' => loaded' # NoDefinition)
      BY <1>18 DEF Login
    <2> QED
      BY <1>18, <2>1, <2>2, <2>3 DEF Login
  <1>19. ASSUME NEW d \in {Foreign, NoDefinition}, ChangeDefinition(d) PROVE ServiceInv'
    <2>1. tally' \in [sessions : 0..MaxSessions, refusals : 0..MaxRefusals, kills : 0..MaxKills]
      BY <1>19 DEF ChangeDefinition
    <2>2. raced' \in BOOLEAN /\ (~raced' => ~raced /\ cmd.at = "idle")
      BY <1>19 DEF ChangeDefinition
    <2> QED
      BY <1>19, <2>1, <2>2 DEF ChangeDefinition
  <1>20. CASE BootoutByHand
    <2>1. tally' \in [sessions : 0..MaxSessions, refusals : 0..MaxRefusals, kills : 0..MaxKills]
      BY <1>20 DEF BootoutByHand
    <2>2. raced' \in BOOLEAN /\ (~raced' => ~raced /\ cmd.at = "idle")
      BY <1>20 DEF BootoutByHand
    <2>3. CommandKnowsItsGeneration' /\ byHand' = TRUE /\ alive' = FALSE /\ loaded' = NoDefinition
      BY <1>20 DEF BootoutByHand
    <2> QED
      BY <1>20, <2>1, <2>2, <2>3 DEF BootoutByHand
  <1>21. CASE CommandDies
    <2>1. tally' \in [sessions : 0..MaxSessions, refusals : 0..MaxRefusals, kills : 0..MaxKills]
      BY <1>21 DEF CommandDies
    <2>2. loose' \in BOOLEAN /\ (~loose' => ~loose /\ plist' = plist /\ cmd.at \notin {"bootstrap", "record", "undo"})
      BY <1>21 DEF CommandDies
    <2>3. plist' \in {plist, Foreign} /\ cmd' = NoCommand
      BY <1>21 DEF CommandDies
    <2> QED
      BY <1>21, <2>1, <2>2, <2>3 DEF CommandDies
  <1>22. CASE UNCHANGED serviceVars
    BY <1>22 DEF serviceVars
  <1> QED
    BY <1>1, <1>2, <1>3, <1>4, <1>5, <1>6, <1>7, <1>8, <1>9, <1>10, <1>11, <1>12, <1>13, <1>14,
       <1>15, <1>16, <1>17, <1>18, <1>19, <1>20, <1>21, <1>22
    DEF ServiceNext, CommandStep

LEMMA ServiceInvariant == ServiceSpec => []ServiceInv
  <1>1. ServiceInv /\ [ServiceNext]_serviceVars => ServiceInv'
    BY ServiceStep
  <1> QED
    BY ServiceStarts, <1>1, PTL DEF ServiceSpec

(* After any commands, deaths, refusals, logins and hand edits: a service  *)
(* that is there has its record, and a removal gives its record up only    *)
(* when definition, label and process are gone (install, remove_with_exec, *)
(* drain and reinstall of the update).                                     *)
THEOREM ServiceHasItsRecord == ServiceSpec => []ServiceIsAccountedFor
  <1>1. ServiceInv => ServiceIsAccountedFor
    BY DEF ServiceInv, ServiceIsAccountedFor, ServiceTypeOK, CommandSeesTheHost, PresentIsRecorded,
           RemovedIsUnregistered, ServiceIsRecorded
  <1> QED
    BY ServiceInvariant, <1>1, PTL

\* Writing and deleting, the commands are sure of the definition they touch.
LEMMA ForeignStep ==
  ASSUME ServiceInv, ServiceNext, cmd.op # "none", tally' = tally, plist = Foreign, ~raced
  PROVE  plist' = Foreign
  <1> USE ServiceAssumption
      DEF ServiceInv, ServiceTypeOK, CommandKnowsItsGeneration, CommandSeesTheHost,
          RecordIsAboutTheLabel, Records, Owned, Installable
  <1>1. owned # NoRecord => owned.def # Foreign /\ owned.def # NoDefinition
    OBVIOUS
  <1>2. cmd.at \notin {"write", "bootstrap", "record", "undo", "bootout", "delete"}
    BY <1>1
  <1>3. tally.sessions + 1 # tally.sessions /\ tally.kills + 1 # tally.kills
    OBVIOUS
  <1>4. ~Visits
    BY <1>3 DEF Visits
  <1>5. ~CommandDies
    BY <1>3 DEF CommandDies
  <1>6. CASE CommandStep
    BY <1>2, <1>6
    DEF CommandStep, WriteDefinition, LoadDefinition, LoadRefused, RecordService, DefinitionGone,
        RecordRefused, UndoInstall, Bootout, NotLoaded, BootoutRefused, DeleteDefinition, Forget,
        MoveCurrent, host
  <1> QED
    BY <1>4, <1>5, <1>6
    DEF ServiceNext, BeginInstall, BeginRemove, StartService, StopService, Controlled, Activate,
        Login, ChangeDefinition, BootoutByHand, DaemonExits, host

\* Between commands a process comes to life by `service start` or by a login.
LEMMA StartedStep ==
  ASSUME ServiceInv, ServiceNext, cmd.op = "none", ~alive, alive', tally' = tally, ~raced
  PROVE  loaded = gen
  <1> USE DEF ServiceInv, ServiceTypeOK
  <1>1. tally.sessions + 1 # tally.sessions /\ cmd.at = "idle"
    OBVIOUS
  <1>2. ~Visits
    BY <1>1 DEF Visits
  <1>3. ~CommandStep
    BY <1>1
    DEF CommandStep, WriteDefinition, LoadDefinition, LoadRefused, RecordService, DefinitionGone,
        RecordRefused, UndoInstall, Bootout, NotLoaded, BootoutRefused, DeleteDefinition, Forget,
        MoveCurrent
  <1>4. StartService
    BY <1>2, <1>3
    DEF ServiceNext, BeginInstall, BeginRemove, StopService, Activate, Login, ChangeDefinition,
        BootoutByHand, DaemonExits, CommandDies, host
  <1> QED
    BY <1>4 DEF StartService, Controlled, Owned, RecordIsAboutTheLabel

(* No command touches a definition that is not this installation's, and    *)
(* `service start` starts the daemon of the active generation, whatever    *)
(* moved the pointer or died before (run, remove_with_exec).               *)
THEOREM CommandsTouchTheirOwn == ServiceSpec => CommandsAreOwned
  <1>1. ServiceInv /\ [ServiceNext]_serviceVars
        => [cmd.op # "none" /\ tally' = tally /\ plist = Foreign /\ ~raced
            => plist' = Foreign]_serviceVars
    BY ForeignStep
  <1>2. ServiceInv /\ [ServiceNext]_serviceVars
        => [cmd.op = "none" /\ ~alive /\ alive' /\ tally' = tally /\ ~raced
            => loaded = gen]_serviceVars
    BY StartedStep
  <1> QED
    BY ServiceInvariant, <1>1, <1>2, PTL
    DEF ServiceSpec, CommandsAreOwned, ForeignDefinitionIsKept, StartedIsCurrent
=============================================================================
