---------------------------- MODULE ApplyProofs ----------------------------
(***************************************************************************)
(* What is promised of the changes `axiom` makes on a host, for any number *)
(* of executables, administrators, bundles and appliers: the exchange of   *)
(* an executable (Replace), the configuration and the content bundles      *)
(* (Operator), the managed content of a repository (Bootstrap).            *)
(***************************************************************************)
EXTENDS Operator, Replace, Bootstrap, TLAPS

-----------------------------------------------------------------------------
(* The exchange of an executable. *)

\* A run is what it says it is: the bytes it carries can be put in place.
RunIsTyped ==
    \/ doing = Idle
    \/ doing \in [call : {"apply"}, target : Executables,
                  step : {"backup", "journal", "fence", "stage", "check"}, bytes : Artifacts]
    \/ doing \in [call : {"rollback"}, target : Executables, step : {"write"},
                  bytes : Artifacts \cup {Torn}]

\* Once the backup is written, it is what the destination holds, and no
\* earlier exchange counts any more; once the journal is written, it is of that backup.
RunIsPrepared ==
    doing.call = "apply" /\ doing.step # "backup" =>
        /\ last = NoTarget
        /\ saved[doing.target] = binary[doing.target]
        /\ doing.step # "journal" => undo = [of |-> doing.target, before |-> saved[doing.target]]

ReplaceInv == LastExchangeCanBeUndone /\ RunIsTyped /\ RunIsPrepared

LEMMA ReplaceStarts == ReplaceInit => ReplaceInv
  BY ReplaceAssumption
  DEF ReplaceInit, ReplaceInv, LastExchangeCanBeUndone, ReplaceTypeOK, RunIsTyped, RunIsPrepared,
      Idle, Contents, UndoRecords

\* What the invariant says of the run that is on.
LEMMA TheRun ==
  ASSUME ReplaceInv
  PROVE  /\ doing.call = "apply" => /\ doing.target \in Executables /\ doing.bytes \in Artifacts
                                    /\ doing \in [call : {"apply"}, target : Executables,
                                          step : {"backup", "journal", "fence", "stage", "check"},
                                          bytes : Artifacts]
         /\ doing.call = "rollback" => /\ doing.target \in Executables
                                       /\ doing.bytes \in Artifacts \cup {Torn}
  BY DEF ReplaceInv, RunIsTyped, Idle

LEMMA ReplaceStep == ASSUME ReplaceInv, [ReplaceNext]_replaceVars PROVE ReplaceInv'
  <1> USE ReplaceAssumption, TheRun
      DEF ReplaceInv, LastExchangeCanBeUndone, ReplaceTypeOK, RunIsTyped, RunIsPrepared,
          Restorable, Runs, Then, executableFiles, Contents, UndoRecords, Idle
  <1>1. ASSUME NEW x \in Executables, NEW a \in Artifacts, BeginApply(x, a) PROVE ReplaceInv'
    BY <1>1 DEF BeginApply
  <1>2. CASE WriteBackup
    BY <1>2 DEF WriteBackup
  <1>3. CASE WriteJournal
    BY <1>3 DEF WriteJournal
  <1>4. CASE FenceBusy
    BY <1>4 DEF FenceBusy
  <1>5. CASE FenceClear
    BY <1>5 DEF FenceClear
  <1>6. CASE StageBytes
    BY <1>6 DEF StageBytes
  <1>7. CASE CheckRefuses
    BY <1>7 DEF CheckRefuses
  <1>8. CASE Cutover
    BY <1>8 DEF Cutover
  <1>9. ASSUME NEW x \in Executables, BeginRestore(x) PROVE ReplaceInv'
    BY <1>9 DEF BeginRestore
  <1>10. ASSUME NEW x \in Executables, Launch(x) PROVE ReplaceInv'
    BY <1>10 DEF Launch
  <1>11. CASE Restore
    BY <1>11 DEF Restore
  <1>12. CASE RunDies
    BY <1>12 DEF RunDies
  <1>13. CASE WriteDies
    BY <1>13 DEF WriteDies
  <1>14. CASE UNCHANGED replaceVars
    BY <1>14 DEF replaceVars
  <1> QED
    BY <1>1, <1>2, <1>3, <1>4, <1>5, <1>6, <1>7, <1>8, <1>9, <1>10, <1>11, <1>12, <1>13, <1>14
    DEF ReplaceNext

(* Until another replacement begins to write, the last exchange can be     *)
(* taken back, whatever died in between, also a rollback (native_apply,    *)
(* rollback_native_apply), for any executables and contents.               *)
THEOREM ExchangeCanBeUndone == ReplaceSpec => []LastExchangeCanBeUndone
  <1>1. ReplaceInv => LastExchangeCanBeUndone
    BY DEF ReplaceInv
  <1> QED
    BY ReplaceStarts, ReplaceStep, <1>1, PTL DEF ReplaceSpec
-----------------------------------------------------------------------------
(* The configuration and the content bundles. *)

\* How far the apply of p has come, and what that says of the files: the plan
\* is a reviewed one, the generation it was made over is still the active one,
\* the receipt is there before the files, the files before the pointer.
AdminInv(p) ==
    LET doc == apply[p].document
    IN  /\ apply[p].step = "idle" => doc = NoDocument
        /\ apply[p].step \in {"lock", "replace"} =>
              doc \in hostPlans /\ (apply[p].moved \/ config = doc.was)
        /\ apply[p].step \in {"receipt", "files", "manifest", "pointer"} =>
              doc \in contentPlans /\ active = doc.was
        /\ apply[p].step \in {"files", "manifest", "pointer"} => doc \in receipts
        /\ apply[p].step = "manifest" => folder[doc.bundle[1]] = "partial"
        /\ apply[p].step = "pointer" => folder[doc.bundle[1]] \in {doc.bundle[2], "damaged"}

OperatorFiles ==
    /\ config \in Configs
    /\ folder \in [BundleVersions -> Revisions \cup {"absent", "partial", "damaged"}]
    /\ active \in Bundles \cup {NoBundle}
    /\ receipts \subseteq ContentDocuments
    /\ hostPlans \subseteq HostDocuments /\ contentPlans \subseteq ContentDocuments
    /\ keeper \in Admins \cup {NoAdmin}
    /\ failures \in 0..MaxFailures

ApplyRecords == [step : OperatorSteps, moved : BOOLEAN,
                 document : HostDocuments \cup ContentDocuments \cup {NoDocument}]

OperatorInv ==
    /\ OperatorFiles /\ apply \in [Admins -> ApplyRecords]
    /\ ActiveContentIsPlaced /\ ApplyHoldsTheLock
    /\ \A p \in Admins : AdminInv(p)

LEMMA BundleParts == ASSUME NEW b \in Bundles PROVE b[1] \in BundleVersions /\ b[2] \in Revisions
  BY DEF Bundles

LEMMA OperatorInvTyped == OperatorInv => ContentIsPlaced
  <1> SUFFICES ASSUME OperatorInv PROVE OperatorTypeOK
    BY DEF ContentIsPlaced, OperatorInv
  <1>1. ASSUME NEW p \in Admins
        PROVE  /\ apply[p].step \in OperatorSteps /\ apply[p].moved \in BOOLEAN
               /\ CASE apply[p].step = "idle" -> apply[p].document = NoDocument
                    [] apply[p].step \in {"lock", "replace"} -> apply[p].document \in HostDocuments
                    [] OTHER -> apply[p].document \in ContentDocuments
    <2>1. apply[p] \in ApplyRecords /\ AdminInv(p)
      BY DEF OperatorInv
    <2>2. apply[p].step \in OperatorSteps /\ apply[p].moved \in BOOLEAN
      BY <2>1 DEF ApplyRecords
    <2> QED
      BY <2>1, <2>2 DEF AdminInv, OperatorInv, OperatorFiles, OperatorSteps
  <1> QED
    BY <1>1 DEF OperatorTypeOK, OperatorInv, OperatorFiles

LEMMA OperatorStarts == OperatorInit => OperatorInv
  <1> SUFFICES ASSUME OperatorInit PROVE OperatorInv
    OBVIOUS
  <1>1. apply \in [Admins -> ApplyRecords] /\ \A p \in Admins : AdminInv(p)
    BY DEF OperatorInit, ApplyRecords, Resting, OperatorSteps, AdminInv
  <1>2. OperatorFiles
    BY OperatorAssumption DEF OperatorInit, OperatorFiles, Configs
  <1>3. ActiveContentIsPlaced /\ ApplyHoldsTheLock
    BY OperatorAssumption DEF OperatorInit, ActiveContentIsPlaced, ApplyHoldsTheLock, Resting
  <1> QED
    BY <1>1, <1>2, <1>3 DEF OperatorInv

\* An apply that returns: nothing is left to say of it, and the lock is free if it was its own.
LEMMA ApplyReturns ==
  ASSUME OperatorInv, NEW p \in Admins, Returns(p)
  PROVE  /\ apply' \in [Admins -> ApplyRecords] /\ keeper' \in Admins \cup {NoAdmin}
         /\ apply'[p] = Resting /\ \A q \in Admins \ {p} : apply'[q] = apply[q]
         /\ AdminInv(p)' /\ ApplyHoldsTheLock'
  <1>1. apply' = [apply EXCEPT ![p] = Resting] /\ apply \in [Admins -> ApplyRecords]
    BY DEF Returns, OperatorInv
  <1>2. Resting \in ApplyRecords
    BY DEF Resting, ApplyRecords, OperatorSteps
  <1>3. apply' \in [Admins -> ApplyRecords] /\ apply'[p] = Resting /\ \A q \in Admins \ {p} : apply'[q] = apply[q]
    BY <1>1, <1>2
  <1>4. AdminInv(p)'
    BY <1>3 DEF AdminInv, Resting
  <1>5. keeper' \in Admins \cup {NoAdmin} /\ ApplyHoldsTheLock'
    <2>1. keeper' = IF keeper = p THEN NoAdmin ELSE keeper
      BY DEF Returns
    <2>2. Resting.step = "idle"
      BY DEF Resting
    <2> QED
      BY <1>3, <2>1, <2>2, OperatorAssumption DEF OperatorInv, OperatorFiles, ApplyHoldsTheLock
  <1> QED
    BY <1>3, <1>4, <1>5

\* An apply that goes on to another step.
LEMMA ApplyGoesOn ==
  ASSUME OperatorInv, NEW p \in Admins, NEW s \in OperatorSteps, StepTo(p, s)
  PROVE  /\ apply' \in [Admins -> ApplyRecords] /\ \A q \in Admins \ {p} : apply'[q] = apply[q]
         /\ apply'[p].step = s /\ apply'[p].document = apply[p].document
         /\ apply'[p].moved = apply[p].moved
  <1>1. apply[p] \in ApplyRecords
    BY DEF OperatorInv
  <1>2. apply' = [apply EXCEPT ![p] = [apply[p] EXCEPT !.step = s]]
    BY DEF StepTo
  <1>3. [apply[p] EXCEPT !.step = s] \in ApplyRecords
    BY <1>1 DEF ApplyRecords
  <1>4. apply'[p] = [apply[p] EXCEPT !.step = s]
    BY <1>2 DEF OperatorInv
  <1> QED
    BY <1>1, <1>2, <1>3, <1>4 DEF OperatorInv, ApplyRecords

\* The configuration is written, by the apply of somebody or by hand.
LEMMA ConfigIsRewritten ==
  ASSUME OperatorInv, NEW new \in Configs, NEW of, Rewrite(new, of)
  PROVE  /\ apply' \in [Admins -> ApplyRecords] /\ config' = new
         /\ of \in Admins => apply'[of] = Resting
         /\ \A q \in Admins \ {of} :
               /\ apply'[q].step = apply[q].step /\ apply'[q].document = apply[q].document
               /\ apply[q].step \in {"lock", "replace"} => apply'[q].moved
  <1>1. apply' = [p \in Admins |-> IF p = of THEN Resting
                    ELSE [apply[p] EXCEPT !.moved = @ \/ apply[p].step \in {"lock", "replace"}]]
    BY DEF Rewrite
  <1>2. Resting \in ApplyRecords
    BY DEF Resting, ApplyRecords, OperatorSteps
  <1>3. ASSUME NEW q \in Admins, q # of
        PROVE  /\ apply'[q] \in ApplyRecords
               /\ apply'[q].step = apply[q].step /\ apply'[q].document = apply[q].document
               /\ apply[q].step \in {"lock", "replace"} => apply'[q].moved
    <2>1. apply[q] \in ApplyRecords
      BY DEF OperatorInv
    <2>2. PICK m \in BOOLEAN : m = (apply[q].moved \/ apply[q].step \in {"lock", "replace"})
      OBVIOUS
    <2>3. apply'[q] = [apply[q] EXCEPT !.moved = m]
      BY <1>1, <1>3, <2>2
    <2>4. [apply[q] EXCEPT !.moved = m].moved = m
      BY <2>1 DEF ApplyRecords
    <2>5. apply'[q] \in ApplyRecords /\ apply'[q].step = apply[q].step
             /\ apply'[q].document = apply[q].document
      BY <2>1, <2>3 DEF ApplyRecords
    <2>6. apply[q].step \in {"lock", "replace"} => apply'[q].moved
      BY <2>2, <2>3, <2>4, Zenon
    <2> QED
      BY <2>5, <2>6
  <1>4. apply' \in [Admins -> ApplyRecords]
    BY <1>1, <1>2, <1>3
  <1> QED
    BY <1>1, <1>3, <1>4 DEF Rewrite
\* Everybody else is at rest or waits for the lock that p holds.
LEMMA OthersWait ==
  ASSUME OperatorInv, NEW p \in Admins, apply[p].step \notin {"idle", "lock"}
  PROVE  keeper = p /\ \A q \in Admins \ {p} : apply[q].step \in {"idle", "lock"}
  BY DEF OperatorInv, ApplyHoldsTheLock

\* What an apply that waits relies on: the plans, and the configuration unless it knows better.
LEMMA WaitingKeeps ==
  ASSUME NEW q \in Admins, AdminInv(q), apply[q].step \in {"idle", "lock"}, apply'[q] = apply[q],
         config' = config, hostPlans \subseteq hostPlans'
  PROVE  AdminInv(q)'
  BY DEF AdminInv

LEMMA HostStep ==
  ASSUME OperatorInv, NEW p \in Admins, CompareHost(p) \/ LockHost(p) \/ ReplaceHost(p)
  PROVE  OperatorInv'
  <1>1. CASE CompareHost(p)
    <2>1. PICK doc \in hostPlans :
             /\ Preview(doc.becomes.server) = doc
             /\ apply' = [apply EXCEPT ![p] = [step |-> "lock", document |-> doc, moved |-> FALSE]]
      BY <1>1 DEF CompareHost
    <2>2. UNCHANGED <<config, folder, active, receipts, documents, keeper, failures>>
      BY <1>1 DEF CompareHost
    <2>3. doc \in HostDocuments /\ doc.was = config
      BY <2>1 DEF Preview, OperatorInv, OperatorFiles
    <2> DEFINE new == [step |-> "lock", document |-> doc, moved |-> FALSE]
    <2>4. new \in ApplyRecords /\ new.step = "lock" /\ new.document = doc
      BY <2>3 DEF ApplyRecords, OperatorSteps
    <2>5. apply' = [apply EXCEPT ![p] = new]
      BY <2>1
    <2> HIDE DEF new
    <2>6. apply' \in [Admins -> ApplyRecords] /\ apply'[p] = new /\ \A q \in Admins \ {p} : apply'[q] = apply[q]
      BY <2>4, <2>5 DEF OperatorInv
    <2>7. ASSUME NEW q \in Admins PROVE AdminInv(q)'
      BY <2>2, <2>3, <2>4, <2>6 DEF OperatorInv, AdminInv, documents
    <2>8. apply[p].step = "idle"
      BY <1>1 DEF CompareHost, Doing
    <2> QED
      BY <2>2, <2>4, <2>6, <2>7, <2>8
      DEF OperatorInv, OperatorFiles, ActiveContentIsPlaced, ApplyHoldsTheLock, documents
  <1>2. CASE LockHost(p)
    <2>1. UNCHANGED <<config, folder, active, receipts, documents, failures>> /\ apply[p].step = "lock"
      BY <1>2 DEF LockHost, Doing
    <2>2. CASE Returns(p)
      <3>1. ASSUME NEW q \in Admins PROVE AdminInv(q)'
        BY <2>1, <2>2, ApplyReturns DEF OperatorInv, AdminInv, documents
      <3> QED
        BY <2>1, <2>2, <3>1, ApplyReturns DEF OperatorInv, OperatorFiles, ActiveContentIsPlaced, documents
    <2>3. CASE Free /\ keeper' = p /\ StepTo(p, "replace")
      <3>0. "replace" \in OperatorSteps
        BY DEF OperatorSteps
      <3>1. ASSUME NEW q \in Admins PROVE AdminInv(q)'
        BY <2>1, <2>3, <3>0, ApplyGoesOn DEF OperatorInv, AdminInv, documents
      <3>2. ApplyHoldsTheLock'
        BY <2>1, <2>3, <3>0, ApplyGoesOn, OperatorAssumption DEF OperatorInv, ApplyHoldsTheLock, Free
      <3> QED
        BY <2>1, <2>3, <3>0, <3>1, <3>2, ApplyGoesOn
        DEF OperatorInv, OperatorFiles, ActiveContentIsPlaced, documents
    <2> QED
      BY <1>2, <2>2, <2>3 DEF LockHost
  <1>3. CASE ReplaceHost(p)
    <2>1. /\ UNCHANGED <<folder, active, receipts, documents, failures>> /\ keeper' = NoAdmin
          /\ apply[p].step = "replace" /\ Rewrite(apply[p].document.becomes, p)
      BY <1>3 DEF ReplaceHost, Doing, Document
    <2>2. apply[p].document.becomes \in Configs
      BY <2>1 DEF OperatorInv, OperatorFiles, AdminInv, HostDocuments
    <2>3. Resting.step = "idle" /\ Resting.document = NoDocument
      BY DEF Resting
    <2>4. ASSUME NEW q \in Admins PROVE AdminInv(q)'
      BY <2>1, <2>2, <2>3, ConfigIsRewritten, OthersWait DEF OperatorInv, AdminInv, documents
    <2>5. ApplyHoldsTheLock'
      BY <2>1, <2>2, <2>3, ConfigIsRewritten, OthersWait, OperatorAssumption DEF ApplyHoldsTheLock
    <2> QED
      BY <2>1, <2>2, <2>4, <2>5, ConfigIsRewritten
      DEF OperatorInv, OperatorFiles, ActiveContentIsPlaced, documents
  <1> QED
    BY <1>1, <1>2, <1>3

LEMMA ContentStep ==
  ASSUME OperatorInv, NEW p \in Admins,
         WriteReceipt(p) \/ PlaceFiles(p) \/ PlaceManifest(p) \/ MovePointer(p)
  PROVE  OperatorInv'
  <1> DEFINE doc == apply[p].document
             v   == doc.bundle[1]
  <1>1. /\ UNCHANGED <<config, hostPlans, contentPlans, failures>>
        /\ apply[p].step \in {"receipt", "files", "manifest", "pointer"}
    BY DEF WriteReceipt, PlaceFiles, PlaceManifest, MovePointer, documents, Doing
  <1>2. /\ doc \in contentPlans /\ doc \in ContentDocuments /\ active = doc.was
        /\ doc.bundle \in Bundles /\ v \in BundleVersions /\ doc.bundle[2] \in Revisions
    <2>1. doc \in contentPlans /\ doc \in ContentDocuments /\ active = doc.was
      BY <1>1 DEF OperatorInv, OperatorFiles, AdminInv
    <2>2. doc.bundle \in Bundles
      BY <2>1 DEF ContentDocuments
    <2> QED
      BY <2>1, <2>2, BundleParts
  <1>3. keeper = p /\ \A q \in Admins \ {p} : apply[q].step \in {"idle", "lock"}
    BY <1>1, OthersWait
  <1>4. active # NoBundle => active[1] \in BundleVersions /\ active[2] \in Revisions
    BY BundleParts DEF OperatorInv, OperatorFiles
  <1>5. ASSUME \A q \in Admins \ {p} : apply'[q] = apply[q]
        PROVE  \A q \in Admins \ {p} : AdminInv(q)'
    BY <1>1, <1>3, <1>5, WaitingKeeps DEF OperatorInv
  <1>6. CASE UNCHANGED <<folder, active, receipts>> /\ Returns(p)
    BY <1>1, <1>5, <1>6, ApplyReturns DEF OperatorInv, OperatorFiles, ActiveContentIsPlaced
  <1>7. CASE receipts' = receipts \cup {doc} /\ StepTo(p, "files") /\ UNCHANGED <<folder, active, keeper>>
    <2>1. "files" \in OperatorSteps
      BY DEF OperatorSteps
    <2>2. AdminInv(p)'
      BY <1>1, <1>2, <1>7, <2>1, ApplyGoesOn DEF AdminInv
    <2>3. ApplyHoldsTheLock'
      BY <1>3, <1>7, <2>1, ApplyGoesOn DEF ApplyHoldsTheLock, OperatorInv
    <2> QED
      BY <1>1, <1>2, <1>5, <1>7, <2>1, <2>2, <2>3, ApplyGoesOn
      DEF OperatorInv, OperatorFiles, ActiveContentIsPlaced
  <1>8. CASE PlaceFiles(p) /\ folder[v] = "absent"
    <2>1. /\ folder' = [folder EXCEPT ![v] = "partial"] /\ StepTo(p, "manifest")
          /\ UNCHANGED <<active, receipts, keeper>> /\ apply[p].step = "files"
      BY <1>8 DEF PlaceFiles, Doing, Document
    <2>2. "manifest" \in OperatorSteps
      BY DEF OperatorSteps
    <2>3. AdminInv(p)'
      BY <1>1, <1>2, <2>1, <2>2, ApplyGoesOn DEF OperatorInv, OperatorFiles, AdminInv
    <2>4. ApplyHoldsTheLock'
      BY <1>3, <2>1, <2>2, ApplyGoesOn DEF ApplyHoldsTheLock
    <2>5. ActiveContentIsPlaced'
      BY <1>2, <1>4, <1>8, <2>1, OperatorAssumption DEF OperatorInv, OperatorFiles, ActiveContentIsPlaced
    <2> QED
      BY <1>1, <1>2, <1>5, <2>1, <2>2, <2>3, <2>4, <2>5, ApplyGoesOn DEF OperatorInv, OperatorFiles
  <1>9. CASE PlaceManifest(p)
    <2>1. /\ folder' = [folder EXCEPT ![v] = doc.bundle[2]] /\ StepTo(p, "pointer")
          /\ UNCHANGED <<active, receipts, keeper>> /\ apply[p].step = "manifest"
      BY <1>9 DEF PlaceManifest, Doing, Document
    <2>2. "pointer" \in OperatorSteps
      BY DEF OperatorSteps
    <2>3. AdminInv(p)'
      BY <1>1, <1>2, <2>1, <2>2, ApplyGoesOn DEF OperatorInv, OperatorFiles, AdminInv
    <2>4. ApplyHoldsTheLock'
      BY <1>3, <2>1, <2>2, ApplyGoesOn DEF ApplyHoldsTheLock
    <2>5. folder[v] = "partial"
      BY <2>1 DEF OperatorInv, AdminInv
    <2>6. ActiveContentIsPlaced'
      BY <1>2, <1>4, <2>1, <2>5, OperatorAssumption DEF OperatorInv, OperatorFiles, ActiveContentIsPlaced
    <2> QED
      BY <1>1, <1>2, <1>5, <2>1, <2>2, <2>3, <2>4, <2>6, ApplyGoesOn DEF OperatorInv, OperatorFiles
  <1>10. CASE MovePointer(p)
    <2>1. /\ active' = doc.bundle /\ Returns(p)
          /\ UNCHANGED <<folder, receipts>> /\ apply[p].step = "pointer"
      BY <1>10 DEF MovePointer, Doing, Document
    <2>2. ActiveContentIsPlaced'
      BY <2>1 DEF OperatorInv, AdminInv, ActiveContentIsPlaced
    <2> QED
      BY <1>1, <1>2, <1>5, <2>1, <2>2, ApplyReturns DEF OperatorInv, OperatorFiles
  <1> QED
    BY <1>6, <1>7, <1>8, <1>9, <1>10 DEF WriteReceipt, PlaceFiles, Document

LEMMA OperatorStep == ASSUME OperatorInv, [OperatorNext]_ovars PROVE OperatorInv'
  <1>1. CASE TypeConfig
    <2>1. /\ Rewrite([config EXCEPT !.typed = @ + 1], NoAdmin) /\ config.typed < MaxTyped
          /\ UNCHANGED <<folder, active, receipts, documents, keeper, failures>>
      BY <1>1 DEF TypeConfig
    <2>2. [config EXCEPT !.typed = @ + 1] \in Configs
      BY <2>1, OperatorAssumption DEF OperatorInv, OperatorFiles, Configs
    <2>3. NoAdmin \notin Admins
      BY OperatorAssumption
    <2>4. /\ apply' \in [Admins -> ApplyRecords] /\ config' \in Configs
          /\ \A q \in Admins : /\ apply'[q].step = apply[q].step /\ apply'[q].document = apply[q].document
                               /\ apply[q].step \in {"lock", "replace"} => apply'[q].moved
      BY <2>1, <2>2, <2>3, ConfigIsRewritten
    <2>5. ASSUME NEW q \in Admins PROVE AdminInv(q)'
      BY <2>1, <2>4 DEF OperatorInv, AdminInv, documents
    <2> QED
      BY <2>1, <2>4, <2>5
      DEF OperatorInv, OperatorFiles, ActiveContentIsPlaced, ApplyHoldsTheLock, documents
  <1>2. ASSUME NEW s \in Servers, PlanHost(s) PROVE OperatorInv'
    <2>1. /\ hostPlans' = hostPlans \cup {Preview(s)}
          /\ UNCHANGED <<contentPlans, config, folder, active, receipts, keeper, apply, failures>>
      BY <1>2 DEF PlanHost
    <2>2. Preview(s) \in HostDocuments
      BY DEF Preview, HostDocuments, Configs, OperatorInv, OperatorFiles
    <2>3. ASSUME NEW q \in Admins PROVE AdminInv(q)'
      BY <2>1 DEF OperatorInv, AdminInv
    <2> QED
      BY <2>1, <2>2, <2>3 DEF OperatorInv, OperatorFiles, ActiveContentIsPlaced, ApplyHoldsTheLock
  <1>3. ASSUME NEW b \in Bundles, PlanContent(b) PROVE OperatorInv'
    <2>1. /\ contentPlans' = contentPlans \cup {[was |-> active, bundle |-> b]}
          /\ UNCHANGED <<hostPlans, config, folder, active, receipts, keeper, apply, failures>>
      BY <1>3 DEF PlanContent
    <2>2. [was |-> active, bundle |-> b] \in ContentDocuments
      BY DEF ContentDocuments, OperatorInv, OperatorFiles
    <2>3. ASSUME NEW q \in Admins PROVE AdminInv(q)'
      BY <2>1 DEF OperatorInv, AdminInv
    <2> QED
      BY <2>1, <2>2, <2>3 DEF OperatorInv, OperatorFiles, ActiveContentIsPlaced, ApplyHoldsTheLock
  <1>4. ASSUME NEW v \in BundleVersions, SpoilContent(v) PROVE OperatorInv'
    <2>1. /\ folder' = [folder EXCEPT ![v] = "damaged"] /\ folder[v] \in Revisions
          /\ UNCHANGED <<config, active, receipts, documents, keeper, apply>>
      BY <1>4 DEF SpoilContent
    <2>2. failures' \in 0..MaxFailures
      BY <1>4, OperatorAssumption DEF SpoilContent, OperatorInv, OperatorFiles
    <2>3. ASSUME NEW q \in Admins PROVE AdminInv(q)'
      <3>1. apply[q].step \in {"manifest", "pointer"} => apply[q].document.bundle[1] \in BundleVersions
        BY BundleParts DEF OperatorInv, OperatorFiles, AdminInv, ContentDocuments
      <3>2. folder[v] # "partial"
        BY <2>1, OperatorAssumption
      <3> QED
        BY <2>1, <3>1, <3>2 DEF OperatorInv, OperatorFiles, AdminInv, documents
    <2>4. active # NoBundle => active[1] \in BundleVersions
      BY BundleParts DEF OperatorInv, OperatorFiles
    <2> QED
      BY <2>1, <2>2, <2>3, <2>4
      DEF OperatorInv, OperatorFiles, ActiveContentIsPlaced, ApplyHoldsTheLock, documents
  <1>5. ASSUME NEW p \in Admins, BeginContent(p) PROVE OperatorInv'
    <2>1. PICK doc \in contentPlans : active = doc.was /\ Accepted(p, doc)
      BY <1>5 DEF BeginContent
    <2>2. /\ UNCHANGED <<config, folder, active, receipts, documents, failures>>
          /\ keeper = NoAdmin /\ keeper' = p
      BY <1>5, <2>1 DEF BeginContent, Free, Accepted
    <2> DEFINE new == [step |-> "receipt", document |-> doc, moved |-> FALSE]
    <2>3. new \in ApplyRecords /\ new.step = "receipt" /\ new.document = doc
      BY DEF ApplyRecords, OperatorSteps, OperatorInv, OperatorFiles
    <2>4. apply' = [apply EXCEPT ![p] = new]
      BY <2>1 DEF Accepted
    <2> HIDE DEF new
    <2>5. apply' \in [Admins -> ApplyRecords] /\ apply'[p] = new /\ \A q \in Admins \ {p} : apply'[q] = apply[q]
      BY <2>3, <2>4 DEF OperatorInv
    <2>6. ASSUME NEW q \in Admins PROVE AdminInv(q)'
      BY <2>1, <2>2, <2>3, <2>5 DEF OperatorInv, AdminInv, documents
    <2>7. ApplyHoldsTheLock'
      BY <2>2, <2>3, <2>5, OperatorAssumption DEF OperatorInv, ApplyHoldsTheLock
    <2> QED
      BY <2>2, <2>5, <2>6, <2>7 DEF OperatorInv, OperatorFiles, ActiveContentIsPlaced, documents
  <1>6. ASSUME NEW p \in Admins, ApplyFails(p) PROVE OperatorInv'
    <2>1. Returns(p) /\ UNCHANGED <<config, folder, active, receipts, documents>>
      BY <1>6 DEF ApplyFails
    <2>2. failures' \in 0..MaxFailures
      BY <1>6, OperatorAssumption DEF ApplyFails, OperatorInv, OperatorFiles
    <2>3. ASSUME NEW q \in Admins PROVE AdminInv(q)'
      BY <2>1, ApplyReturns DEF OperatorInv, AdminInv, documents
    <2> QED
      BY <2>1, <2>2, <2>3, ApplyReturns DEF OperatorInv, OperatorFiles, ActiveContentIsPlaced, documents
  <1>7. CASE UNCHANGED ovars
    BY <1>7 DEF ovars, documents, OperatorInv, OperatorFiles, ActiveContentIsPlaced, ApplyHoldsTheLock, AdminInv
  <1> QED
    BY <1>1, <1>2, <1>3, <1>4, <1>5, <1>6, <1>7, HostStep, ContentStep DEF OperatorNext, Decline

(* In every state that deaths and failures leave, one apply at a time is   *)
(* past its checks and the active pointer names a bundle that was placed   *)
(* completely (skills/install.rs, package_runtime.rs, host_runtime.rs),    *)
(* for any number of applies and bundles.                                  *)
THEOREM PlacedContentIsActive == OperatorSpec => []ContentIsPlaced
  BY OperatorStarts, OperatorStep, OperatorInvTyped, PTL DEF OperatorSpec

(* An apply changes what was reviewed: the configuration its plan was made *)
(* from unless somebody wrote it after the comparison, and the generation  *)
(* its plan was approved over, with its receipt on disk.                   *)
THEOREM ReviewedIsReplaced == OperatorSpec => ApplyIsApproved
  <1>1. OperatorInv /\ [OperatorNext]_ovars
        => [\A p \in Admins : Doing(p, "replace") /\ config' # config /\ Doing(p, "idle")'
              => apply[p].moved \/ config = Document(p).was]_ovars
    BY DEF OperatorInv, AdminInv, Doing, Document
  <1>2. OperatorInv /\ [OperatorNext]_ovars
        => [active' # active => \E doc \in contentPlans : /\ active = doc.was /\ active' = doc.bundle
                                                          /\ doc \in receipts]_ovars
    <2> SUFFICES ASSUME OperatorInv, [OperatorNext]_ovars, active' # active
                 PROVE  \E doc \in contentPlans : /\ active = doc.was /\ active' = doc.bundle
                                                  /\ doc \in receipts
      OBVIOUS
    <2>1. PICK p \in Admins : MovePointer(p)
      BY DEF OperatorNext, ovars, documents, TypeConfig, Decline, PlanHost, PlanContent, SpoilContent, CompareHost,
             LockHost, ReplaceHost, BeginContent, WriteReceipt, PlaceFiles, PlaceManifest, ApplyFails
    <2>2. apply[p].step = "pointer" /\ active' = apply[p].document.bundle
      BY <2>1 DEF MovePointer, Doing, Document
    <2> QED
      BY <2>2 DEF OperatorInv, AdminInv
  <1> QED
    BY <1>1, <1>2, OperatorStarts, OperatorStep, PTL
    DEF OperatorSpec, ApplyIsApproved, ReviewedConfigIsReplaced, ActivationIsApproved
-----------------------------------------------------------------------------
(* The managed content of a repository. *)

\* Where a file is in Order.
Place(f) == CASE f = "agents" -> 1 [] f = "policy" -> 2 [] f = "owner" -> 3

\* Only AGENTS.md has text outside its block.
Shaped == {r \in [Managed -> Bytes] : r["policy"].text = 0 /\ r["owner"].text = 0}

\* A plan that was approved: it was made over bytes that agree with each other,
\* and so it replaces all three files.
Sound(plan) == plan \in Plans /\ plan.before \in Shaped /\ ~Conflict(plan.before) /\ Writes(plan) = Managed

Holding == {"verify", "read", "backup", "write", "check", "undo"}

BootstrapTypes ==
    /\ repo \in Shaped /\ backup \in Shaped /\ before \in Shaped
    /\ lock = NoPlan \/ lock \in Plans
    /\ applyJournal = NoPlan \/ (applyJournal \in ApplyJournals /\ Sound(applyJournal.plan))
    /\ applier \in [Appliers -> [at : {"idle", "approved", "acquire", "rollback"} \cup Holding,
                                 plan : Plans \cup {NoPlan}]]
    /\ outcome \in {"none", "unchanged", "refused", "applied", "rolledback", "rollbackrefused"}
    /\ at \in 0..4 /\ written \subseteq Managed /\ late \subseteq Managed
    /\ refused \in BOOLEAN /\ unread \in BOOLEAN
    /\ count \in [edits : 0..MaxHumanEdits, deaths : 0..MaxDeaths, errors : 0..MaxErrors]

\* One process at a time holds the lock, which records its plan, or takes a
\* journal back, and then nobody else has begun.
OneAtATime ==
    \A p \in Appliers :
        /\ applier[p].at \notin {"idle", "rollback"} => Sound(applier[p].plan)
        /\ applier[p].at \in Holding =>
              /\ lock = applier[p].plan
              /\ \A q \in Appliers : applier[q].at \in Holding => q = p
        /\ applier[p].at = "rollback" => \A q \in Appliers : q # p => applier[q].at = "idle"

\* Nothing is left in the memory of a process that is gone.
Forgotten ==
    (\A p \in Appliers : applier[p].at \notin {"backup", "write", "check", "undo", "rollback"})
        => written = {} /\ ~refused

\* The file f and its copies, as the holder p of the lock has to find them: a
\* file nobody edited since the verification is what the plan found or what the
\* plan makes of it, and what it was is in memory and, in time, in the backup.
FileInv(p, f) ==
    LET plan == applier[p].plan
        step == applier[p].at
        i    == Place(f)
    IN  /\ step = "verify" => f \in late
        /\ step = "read" /\ f \notin late => repo[f] = plan.before[f]
        /\ step \in {"backup", "write", "check", "undo"} /\ f \notin late /\ ~unread => before[f] = plan.before[f]
        /\ step = "backup" =>
              /\ f \notin late => repo[f] = plan.before[f]
              /\ i < at /\ before[f] # Nothing => backup[f] = before[f]
        /\ step \in {"write", "check", "undo"} /\ before[f] # Nothing =>
              f \in applyJournal.backed /\ backup[f] = before[f]
        /\ step \in {"write", "check"} =>
              /\ f \in written <=> i < at
              /\ f \notin late => repo[f] = IF i < at \/ (step = "check" /\ i = at) THEN After(plan)[f]
                                            ELSE plan.before[f]
        /\ step = "undo" /\ f \notin late /\ ~unread =>
              /\ i <= at => f \in written /\ repo[f] = After(plan)[f]
              /\ i > at => repo[f] = plan.before[f] \/ (refused /\ repo[f] = After(plan)[f])

\* The holder of the lock, at each of its steps.
HolderInv(p) ==
    LET step == applier[p].at
    IN  /\ step \in {"read", "backup", "write", "check", "undo"} /\ count.edits = 0 => late = {}
        /\ step \in {"backup", "write"} => at \in 1..4
        /\ step = "check" => at \in 1..3
        /\ step = "undo" => at \in 0..3
        /\ step \in {"backup", "write", "check"} => ~refused
        /\ step = "backup" => written = {}
        /\ step \in {"write", "check", "undo"} =>
              applyJournal # NoPlan /\ applyJournal.plan = applier[p].plan /\ applyJournal.state = "intent"
        /\ step \in Holding => \A f \in Managed : FileInv(p, f)

\* A rollback at its file: what is behind it is restored, what is ahead of it can be.
RollbackInv ==
    (\E p \in Appliers : applier[p].at = "rollback") =>
        /\ applyJournal # NoPlan /\ at \in 0..3
        /\ count.edits = 0 => late = {}
        /\ \A f \in Managed \ late :
              repo[f] = IF f \in written /\ Place(f) <= at THEN After(applyJournal.plan)[f]
                        ELSE applyJournal.plan.before[f]

BootstrapInv ==
    /\ BootstrapTypes /\ OneAtATime /\ Forgotten /\ RollbackInv
    /\ \A p \in Appliers : HolderInv(p)
    /\ InterruptedApplyIsReversible /\ NextPlanIsAccepted

\* The files of Order, each at its place.
LEMMA Places ==
  /\ Len(Order) = 3
  /\ \A f \in Managed : Place(f) \in 1..3 /\ Order[Place(f)] = f
  /\ \A i \in 1..3 : Order[i] \in Managed /\ Place(Order[i]) = i
  BY DEF Order, Managed, Place

LEMMA NothingIsBytes == Nothing \in Bytes /\ Nothing.text = 0 /\ Nothing.block = 0
  BY BootstrapAssumption DEF Nothing, Bytes

\* One file of a repository is replaced by the one of another, or by nothing.
LEMMA ShapeIsKept ==
  ASSUME NEW r \in Shaped, NEW f \in Managed
  PROVE  /\ \A s \in Shaped : [r EXCEPT ![f] = s[f]] \in Shaped
         /\ [r EXCEPT ![f] = Nothing] \in Shaped
  BY NothingIsBytes DEF Shaped, Managed

\* What a plan makes of the files: all three carry its template, the text stays.
LEMMA AfterIsShaped ==
  ASSUME NEW plan \in Plans, plan.before \in Shaped
  PROVE  /\ After(plan) \in Shaped
         /\ After(plan)["agents"].text = plan.before["agents"].text
         /\ \A f \in Managed : After(plan)[f].block = plan.template
  <1>1. plan.template \in Templates /\ plan.before \in [Managed -> Bytes]
    BY DEF Plans
  <1>2. plan.before["agents"] \in Bytes
    BY <1>1 DEF Managed
  <1>3. /\ [plan.before["agents"] EXCEPT !.block = plan.template] \in Bytes
        /\ [plan.before["agents"] EXCEPT !.block = plan.template].text = plan.before["agents"].text
        /\ [plan.before["agents"] EXCEPT !.block = plan.template].block = plan.template
    BY <1>1, <1>2 DEF Bytes
  <1>4. /\ [Nothing EXCEPT !.block = plan.template] \in Bytes
        /\ [Nothing EXCEPT !.block = plan.template].text = 0
        /\ [Nothing EXCEPT !.block = plan.template].block = plan.template
    BY <1>1, NothingIsBytes DEF Bytes, Nothing
  <1>5. /\ After(plan) \in [Managed -> Bytes]
        /\ After(plan)["agents"] = [plan.before["agents"] EXCEPT !.block = plan.template]
        /\ After(plan)["policy"] = [Nothing EXCEPT !.block = plan.template]
        /\ After(plan)["owner"] = [Nothing EXCEPT !.block = plan.template]
    BY <1>3, <1>4 DEF After, Managed
  <1> QED
    BY <1>3, <1>4, <1>5 DEF Shaped, Managed

\* A repository that was written completely agrees with itself.
LEMMA AfterAgrees ==
  ASSUME NEW plan, Sound(plan), NEW r, \A f \in Managed : r[f] = After(plan)[f]
  PROVE  ~Conflict(r)
  <1>1. /\ plan.template \in Templates
        /\ \A f \in Managed : r[f].block = plan.template
    BY AfterIsShaped DEF Sound, Plans
  <1>2. plan.template # 0 /\ plan.template # Human
    BY <1>1, BootstrapAssumption
  <1> QED
    BY <1>1, <1>2 DEF Conflict, Managed

LEMMA BeforeAgrees ==
  ASSUME NEW plan, Sound(plan), NEW r, \A f \in Managed : r[f] = plan.before[f]
  PROVE  ~Conflict(r)
  BY DEF Sound, Conflict, Managed

\* A plan that finds no conflict and something to do replaces all three files.
LEMMA ApprovedIsSound ==
  ASSUME NEW t \in Templates, repo \in Shaped, ~Conflict(repo),
         Writes([template |-> t, before |-> repo]) # {}
  PROVE  Sound([template |-> t, before |-> repo])
  <1> DEFINE plan == [template |-> t, before |-> repo]
  <1>1. plan \in Plans /\ plan.before = repo /\ plan.template = t
    BY DEF Plans, Shaped
  <1> HIDE DEF plan
  <1>2. /\ \A f \in Managed : After(plan)[f].block = t
        /\ After(plan) \in Shaped /\ After(plan)["agents"].text = repo["agents"].text
    BY <1>1, AfterIsShaped
  <1>3. \A f \in Managed : repo[f] \in Bytes /\ After(plan)[f] \in Bytes
    BY <1>2 DEF Shaped
  <1>4. ASSUME NEW b \in Bytes, NEW c \in Bytes, b.text = c.text, b.block = c.block PROVE b = c
    BY <1>4 DEF Bytes
  <1>5. ASSUME repo["owner"].block = t PROVE Writes(plan) = {}
    <2>1. repo["agents"].block = t /\ repo["policy"].block = t
      BY <1>5, BootstrapAssumption DEF Conflict
    <2>2. \A f \in Managed : After(plan)[f].block = repo[f].block /\ After(plan)[f].text = repo[f].text
      BY <1>2, <1>5, <2>1 DEF Managed, Shaped
    <2>3. \A f \in Managed : After(plan)[f] = repo[f]
      BY <1>3, <1>4, <2>2
    <2> QED
      BY <1>1, <2>3 DEF Writes
  <1>6. repo["owner"].block # t
    BY <1>5 DEF plan
  <1>7. repo["agents"].block # t /\ repo["policy"].block # t
    BY <1>6, NothingIsBytes, BootstrapAssumption DEF Conflict
  <1>8. \A f \in Managed : After(plan)[f] # repo[f]
    BY <1>2, <1>6, <1>7 DEF Managed
  <1>9. Writes(plan) = Managed
    BY <1>1, <1>8 DEF Writes
  <1> QED
    BY <1>1, <1>9 DEF Sound, plan

LEMMA CountIsKept ==
  ASSUME BootstrapTypes, Works \/ Fails
  PROVE  /\ count' \in [edits : 0..MaxHumanEdits, deaths : 0..MaxDeaths, errors : 0..MaxErrors]
         /\ count'.edits = count.edits
  BY BootstrapAssumption DEF BootstrapTypes, Works, Fails

Records == [at : {"idle", "approved", "acquire", "rollback"} \cup Holding, plan : Plans \cup {NoPlan}]

LEMMA GoesOn ==
  ASSUME BootstrapTypes, NEW p \in Appliers, NEW s \in Holding \cup {"acquire", "rollback"},
         applier' = [applier EXCEPT ![p].at = s]
  PROVE  /\ applier' \in [Appliers -> Records]
         /\ applier'[p].at = s /\ applier'[p].plan = applier[p].plan
         /\ \A q \in Appliers : q # p => applier'[q] = applier[q]
  <1>1. applier \in [Appliers -> Records] /\ applier[p] \in Records
    BY DEF BootstrapTypes, Records
  <1>2. applier' = [applier EXCEPT ![p] = [applier[p] EXCEPT !.at = s]]
    OBVIOUS
  <1>3. /\ [applier[p] EXCEPT !.at = s] \in Records
        /\ [applier[p] EXCEPT !.at = s].at = s /\ [applier[p] EXCEPT !.at = s].plan = applier[p].plan
    BY <1>1 DEF Records
  <1> QED
    BY <1>1, <1>2, <1>3

LEMMA ItEnds ==
  ASSUME BootstrapTypes, NEW p \in Appliers, NEW how, Ends(p, how)
  PROVE  /\ applier' \in [Appliers -> Records]
         /\ applier'[p].at = "idle" /\ outcome' = how
         /\ \A q \in Appliers : q # p => applier'[q] = applier[q]
  <1>1. applier \in [Appliers -> Records]
    BY DEF BootstrapTypes, Records
  <1>2. [at |-> "idle", plan |-> NoPlan] \in Records
    BY DEF Records
  <1> QED
    BY <1>1, <1>2 DEF Ends

LEMMA BootstrapInvSafe == BootstrapInv => ApplyEndsOrIsReversible
  <1> SUFFICES ASSUME BootstrapInv PROVE BootstrapTypeOK
    BY DEF BootstrapInv, ApplyEndsOrIsReversible
  <1>1. repo \in [Managed -> Bytes] /\ backup \in [Managed -> Bytes] /\ before \in [Managed -> Bytes]
    BY DEF BootstrapInv, BootstrapTypes, Shaped
  <1>2. ASSUME NEW p \in Appliers
        PROVE  /\ applier[p].at \in ApplySteps \cup {"rollback"}
               /\ applier[p].plan = NoPlan \/ applier[p].plan \in Plans
    BY DEF BootstrapInv, BootstrapTypes, Holding, ApplySteps
  <1>3. ASSUME NEW p \in Appliers, NEW q \in Appliers, applier[p].at \notin {"idle", "approved", "acquire"},
               applier[q].at \notin {"idle", "approved", "acquire"}
        PROVE  p = q
    BY <1>3 DEF BootstrapInv, BootstrapTypes, OneAtATime
  <1> QED
    BY <1>1, <1>2, <1>3 DEF BootstrapInv, BootstrapTypes, BootstrapTypeOK

LEMMA BootstrapStarts == BootstrapInit => BootstrapInv
  <1> SUFFICES ASSUME BootstrapInit PROVE BootstrapInv
    OBVIOUS
  <1>1. PICK t \in 0..MaxText, v \in Templates \cup {0} :
           repo = [f \in Managed |-> IF f = "agents" THEN [text |-> t, block |-> v] ELSE [text |-> 0, block |-> v]]
    BY DEF BootstrapInit
  <1>2. repo \in Shaped
    BY <1>1, BootstrapAssumption DEF Shaped, Bytes, Managed
  <1>3. [f \in Managed |-> Nothing] \in Shaped
    BY NothingIsBytes DEF Shaped, Managed
  <1>4. \A p \in Appliers : applier[p].at = "idle"
    BY DEF BootstrapInit
  <1>5. BootstrapTypes
    <2>1. applier \in [Appliers -> [at : {"idle", "approved", "acquire", "rollback"} \cup Holding,
                                    plan : Plans \cup {NoPlan}]]
      BY DEF BootstrapInit
    <2>2. count \in [edits : 0..MaxHumanEdits, deaths : 0..MaxDeaths, errors : 0..MaxErrors]
      BY BootstrapAssumption DEF BootstrapInit
    <2>3. repo \in Shaped /\ backup \in Shaped /\ before \in Shaped
      BY <1>2, <1>3 DEF BootstrapInit
    <2>4. /\ lock = NoPlan /\ applyJournal = NoPlan /\ outcome = "none" /\ at = 0 /\ written = {}
          /\ late = {} /\ ~refused /\ ~unread /\ refused \in BOOLEAN /\ unread \in BOOLEAN
      BY DEF BootstrapInit
    <2> QED
      BY <2>1, <2>2, <2>3, <2>4 DEF BootstrapTypes
  <1>6. \A p \in Appliers : HolderInv(p)
    BY <1>4 DEF HolderInv, Holding
  <1>7. OneAtATime /\ Forgotten /\ RollbackInv
    BY <1>4 DEF BootstrapInit, OneAtATime, Forgotten, RollbackInv, Holding
  <1> QED
    BY <1>5, <1>6, <1>7 DEF BootstrapInit, BootstrapInv, InterruptedApplyIsReversible, NextPlanIsAccepted
\* Nobody takes a journal back while somebody holds the lock.
LEMMA HolderIsAlone ==
  ASSUME BootstrapInv, NEW p \in Appliers, applier[p].at \in Holding
  PROVE  /\ \A q \in Appliers : applier[q].at # "rollback" /\ (q # p => applier[q].at \notin Holding)
         /\ lock = applier[p].plan /\ lock # NoPlan /\ Sound(applier[p].plan)
  <1>1. \A q \in Appliers : q # p => applier[q].at \notin Holding \cup {"rollback"}
    BY DEF BootstrapInv, OneAtATime, Holding
  <1>2. lock = applier[p].plan /\ Sound(applier[p].plan)
    BY DEF BootstrapInv, OneAtATime, Holding
  <1>3. lock # NoPlan
    BY <1>2, BootstrapAssumption DEF Sound
  <1> QED
    BY <1>1, <1>2, <1>3 DEF Holding

\* A step of the holder after which it still holds the lock.
LEMMA HolderGoesOn ==
  ASSUME BootstrapInv, BootstrapTypes', NEW p \in Appliers, applier[p].at \in Holding,
         applier'[p].at \in Holding, applier'[p].plan = applier[p].plan, UNCHANGED lock,
         \A q \in Appliers : q # p => applier'[q] = applier[q],
         HolderInv(p)',
         applier'[p].at \in {"verify", "read"} => written' = {} /\ ~refused'
  PROVE  BootstrapInv'
  <1>1. /\ \A q \in Appliers : q # p => applier[q].at \notin Holding \cup {"rollback"}
        /\ lock' = applier'[p].plan /\ lock' # NoPlan /\ Sound(applier'[p].plan)
    BY HolderIsAlone DEF Holding
  <1>2. \A q \in Appliers : q # p => applier'[q].at \notin Holding \cup {"rollback"}
    BY <1>1
  <1>3. OneAtATime'
    BY <1>1, <1>2 DEF OneAtATime, BootstrapInv, Holding
  <1>4. Forgotten' /\ RollbackInv'
    BY <1>2 DEF Forgotten, RollbackInv, Holding
  <1>5. \A q \in Appliers : HolderInv(q)'
    <2>1. \A q \in Appliers : q # p => HolderInv(q)'
      BY <1>2 DEF HolderInv, Holding
    <2> QED
      BY <2>1
  <1>6. InterruptedApplyIsReversible'
    <2> SUFFICES ASSUME (applyJournal # NoPlan)', (lock = applyJournal.plan)',
                        NEW f \in (Writes(applyJournal.plan) \ late)', ~unread'
                 PROVE  Reversible(f)'
      BY DEF InterruptedApplyIsReversible
    <2>1. f \in Managed /\ f \notin late' /\ FileInv(p, f)' /\ applyJournal'.plan = applier'[p].plan
      BY <1>1 DEF Writes, HolderInv
    <2>2. CASE applier'[p].at \in {"verify", "read", "backup"}
      BY <2>1, <2>2 DEF FileInv, Reversible
    <2>3. CASE applier'[p].at \in {"write", "check", "undo"}
      <3>1. Place(f) \in 1..3 /\ at' \in 0..4
        BY <2>1, Places DEF BootstrapTypes
      <3>2. repo'[f] = applier'[p].plan.before[f] \/ repo'[f] = After(applier'[p].plan)[f]
        BY <2>1, <2>3, <3>1 DEF FileInv
      <3>3. applier'[p].plan.before[f] # Nothing
            => f \in applyJournal'.backed /\ backup'[f] = applier'[p].plan.before[f]
        BY <2>1, <2>3 DEF FileInv
      <3> QED
        BY <2>1, <3>2, <3>3 DEF Reversible
    <2> QED
      BY <2>2, <2>3 DEF Holding
  <1>7. NextPlanIsAccepted'
    BY <1>1 DEF NextPlanIsAccepted
  <1> QED
    BY <1>3, <1>4, <1>5, <1>6, <1>7 DEF BootstrapInv

\* The holder ends and takes its lock with it.
LEMMA HolderIsDone ==
  ASSUME BootstrapInv, BootstrapTypes', NEW p \in Appliers, applier[p].at \in Holding,
         applier'[p].at = "idle", Unlock(p), \A q \in Appliers : q # p => applier'[q] = applier[q],
         written' = {} /\ ~refused',
         outcome' \in {"applied", "rolledback"} /\ count'.edits = 0 /\ ~unread' => ~Conflict(repo')
  PROVE  BootstrapInv'
  <1>1. /\ \A q \in Appliers : q # p => applier[q].at \notin Holding \cup {"rollback"}
        /\ lock' = NoPlan
    BY HolderIsAlone DEF Unlock
  <1>2. \A q \in Appliers : applier'[q].at \notin Holding \cup {"rollback"}
    BY <1>1 DEF Holding
  <1>3. OneAtATime'
    BY <1>1, <1>2 DEF OneAtATime, BootstrapInv
  <1>4. Forgotten' /\ RollbackInv'
    BY <1>2 DEF Forgotten, RollbackInv
  <1>5. \A q \in Appliers : HolderInv(q)'
    BY <1>2 DEF HolderInv, Holding
  <1>6. InterruptedApplyIsReversible'
    BY <1>1, BootstrapAssumption DEF InterruptedApplyIsReversible, BootstrapTypes, Sound
  <1>7. NextPlanIsAccepted'
    BY DEF NextPlanIsAccepted
  <1> QED
    BY <1>3, <1>4, <1>5, <1>6, <1>7 DEF BootstrapInv

\* A step of a process that does not hold the lock, and after which it does not.
LEMMA OutsideStep ==
  ASSUME BootstrapInv, NEW p \in Appliers, applier[p].at \in {"idle", "approved", "acquire"},
         applier' \in [Appliers -> Records],
         applier'[p].at \in {"idle", "approved", "acquire"},
         applier'[p].at # "idle" => Sound(applier'[p].plan),
         \A q \in Appliers : q # p => applier'[q] = applier[q],
         applier'[p].at # "idle" => \A q \in Appliers : applier[q].at # "rollback",
         outcome' \in {"none", "unchanged", "refused"} \/ outcome' = outcome,
         count' \in [edits : 0..MaxHumanEdits, deaths : 0..MaxDeaths, errors : 0..MaxErrors],
         count'.edits = count.edits,
         UNCHANGED <<repo, lock, applyJournal, backup, before, at, written, refused, late, unread>>
  PROVE  BootstrapInv'
  <1>1. BootstrapTypes'
    BY DEF BootstrapInv, BootstrapTypes, Records
  <1>2. applier'[p].at \notin Holding \cup {"rollback"} /\ applier[p].at \notin Holding \cup {"rollback"}
    BY DEF Holding
  <1>3. OneAtATime'
    BY <1>2 DEF BootstrapInv, OneAtATime
  <1>4. Forgotten'
    BY <1>2 DEF BootstrapInv, Forgotten, Holding
  <1>5. RollbackInv'
    BY <1>2 DEF BootstrapInv, RollbackInv
  <1>6. ASSUME NEW q \in Appliers PROVE HolderInv(q)'
    <2>1. CASE q = p
      BY <1>2, <2>1 DEF HolderInv, Holding
    <2>2. CASE q # p
      <3>1. HolderInv(q) /\ applier'[q] = applier[q]
        BY <2>2 DEF BootstrapInv
      <3>2. ASSUME NEW f \in Managed, FileInv(q, f) PROVE FileInv(q, f)'
        BY <3>1, <3>2 DEF FileInv
      <3> QED
        BY <3>1, <3>2 DEF HolderInv
    <2> QED
      BY <2>1, <2>2
  <1>7. InterruptedApplyIsReversible'
    BY DEF BootstrapInv, InterruptedApplyIsReversible, Reversible
  <1>8. NextPlanIsAccepted'
    BY <1>2 DEF BootstrapInv, NextPlanIsAccepted
  <1> QED
    BY <1>1, <1>3, <1>4, <1>5, <1>6, <1>7, <1>8 DEF BootstrapInv

LEMMA ApproveStep ==
  ASSUME BootstrapInv, NEW p \in Appliers, NEW t \in Templates, Approve(p, t)
  PROVE  BootstrapInv'
  <1> DEFINE plan == [template |-> t, before |-> repo]
             new  == [at |-> "approved", plan |-> plan]
  <1>1. /\ applier[p].at = "idle" /\ \A q \in Appliers : applier[q].at # "rollback"
        /\ UNCHANGED <<repo, lock, applyJournal, backup, before, at, written, refused, late, unread, count>>
        /\ \/ UNCHANGED <<applier, outcome>>
           \/ /\ ~Conflict(repo) /\ Writes(plan) # {}
              /\ applier' = [applier EXCEPT ![p] = new] /\ outcome' = "none"
    BY DEF Approve
  <1>2. applier \in [Appliers -> Records]
    BY DEF BootstrapInv, BootstrapTypes, Records
  <1>3. /\ count \in [edits : 0..MaxHumanEdits, deaths : 0..MaxDeaths, errors : 0..MaxErrors]
        /\ repo \in Shaped
    BY DEF BootstrapInv, BootstrapTypes
  <1>4. CASE UNCHANGED <<applier, outcome>>
    BY <1>1, <1>2, <1>3, <1>4, OutsideStep
  <1>5. CASE /\ ~Conflict(repo) /\ Writes(plan) # {}
             /\ applier' = [applier EXCEPT ![p] = new] /\ outcome' = "none"
    <2>1. Sound(plan)
      BY <1>3, <1>5, ApprovedIsSound
    <2>2. new \in Records /\ new.at = "approved" /\ new.plan = plan
      BY <2>1 DEF Records, Sound
    <2> HIDE DEF new, plan
    <2>3. /\ applier' \in [Appliers -> Records] /\ applier'[p] = new
          /\ \A q \in Appliers : q # p => applier'[q] = applier[q]
      BY <1>2, <1>5, <2>2
    <2> QED
      BY <1>1, <1>3, <1>5, <2>1, <2>2, <2>3, OutsideStep
  <1> QED
    BY <1>1, <1>4, <1>5

LEMMA ReplanStep == ASSUME BootstrapInv, NEW p \in Appliers, Replan(p) PROVE BootstrapInv'
  <1>1. /\ applier[p].at = "approved"
        /\ UNCHANGED <<repo, lock, applyJournal, backup, before, at, written, refused, late, unread, count>>
        /\ Ends(p, "unchanged") \/ Ends(p, "refused") \/ GoOn(p, "acquire")
    BY DEF Replan
  <1>2. /\ BootstrapTypes /\ Sound(applier[p].plan) /\ \A q \in Appliers : applier[q].at # "rollback"
        /\ count \in [edits : 0..MaxHumanEdits, deaths : 0..MaxDeaths, errors : 0..MaxErrors]
    BY <1>1 DEF BootstrapInv, BootstrapTypes, OneAtATime
  <1>3. ASSUME NEW how \in {"unchanged", "refused"}, Ends(p, how) PROVE BootstrapInv'
    BY <1>1, <1>2, <1>3, ItEnds, OutsideStep
  <1>4. CASE GoOn(p, "acquire")
    BY <1>1, <1>2, <1>4, GoesOn, OutsideStep DEF GoOn
  <1> QED
    BY <1>1, <1>3, <1>4

LEMMA AcquireStep == ASSUME BootstrapInv, NEW p \in Appliers, Acquire(p) PROVE BootstrapInv'
  <1>1. /\ applier[p].at = "acquire"
        /\ UNCHANGED <<repo, applyJournal, backup, before, at, written, refused, unread, count>>
        /\ \/ Ends(p, "refused") /\ UNCHANGED <<lock, late>>
           \/ lock = NoPlan /\ GoOn(p, "verify") /\ lock' = applier[p].plan /\ late' = Managed
    BY DEF Acquire
  <1>2. /\ BootstrapTypes /\ Sound(applier[p].plan) /\ \A q \in Appliers : applier[q].at # "rollback"
        /\ count \in [edits : 0..MaxHumanEdits, deaths : 0..MaxDeaths, errors : 0..MaxErrors]
    BY <1>1 DEF BootstrapInv, BootstrapTypes, OneAtATime
  <1>3. CASE Ends(p, "refused") /\ UNCHANGED <<lock, late>>
    BY <1>1, <1>2, <1>3, ItEnds, OutsideStep
  <1>4. CASE lock = NoPlan /\ GoOn(p, "verify") /\ lock' = applier[p].plan /\ late' = Managed
    <2>1. \A q \in Appliers : applier[q].at \notin Holding \cup {"rollback"}
      BY <1>2, <1>4, HolderIsAlone
    <2>2. "verify" \in Holding
      BY DEF Holding
    <2>3. /\ applier' \in [Appliers -> Records] /\ applier'[p].at = "verify" /\ UNCHANGED outcome
          /\ applier'[p].plan = applier[p].plan /\ \A q \in Appliers : q # p => applier'[q] = applier[q]
      BY <1>2, <1>4, <2>2, GoesOn DEF GoOn
    <2>4. \A q \in Appliers : q # p => applier'[q].at \notin Holding \cup {"rollback"}
      BY <2>1, <2>3
    <2>5. written = {} /\ ~refused
      BY <2>1 DEF BootstrapInv, Forgotten, Holding
    <2>6. lock' \in Plans /\ lock' # NoPlan
      BY <1>2, <1>4, BootstrapAssumption DEF Sound
    <2>7. BootstrapTypes'
      BY <1>1, <1>2, <1>4, <2>3, <2>6 DEF BootstrapTypes, Records
    <2>8. OneAtATime'
      BY <1>2, <1>4, <2>2, <2>3, <2>4 DEF BootstrapInv, OneAtATime
    <2>9. Forgotten' /\ RollbackInv'
      BY <1>1, <2>2, <2>3, <2>4, <2>5 DEF Forgotten, RollbackInv
    <2>10. \A q \in Appliers : HolderInv(q)'
      BY <1>4, <2>3, <2>4 DEF HolderInv, FileInv, Holding
    <2>11. InterruptedApplyIsReversible' /\ NextPlanIsAccepted'
      BY <1>4, <2>6 DEF InterruptedApplyIsReversible, NextPlanIsAccepted, Writes
    <2> QED
      BY <2>7, <2>8, <2>9, <2>10, <2>11 DEF BootstrapInv
  <1> QED
    BY <1>1, <1>3, <1>4

LEMMA HumanStep ==
  ASSUME BootstrapInv, NEW f \in Managed, NEW content \in HumanBytes(f), HumanEdits(f, content)
  PROVE  BootstrapInv'
  <1>1. /\ count.edits < MaxHumanEdits
        /\ repo' = [repo EXCEPT ![f] = content]
        /\ late' = late \cup {f}
        /\ count' = [count EXCEPT !.edits = @ + 1]
        /\ UNCHANGED <<lock, applyJournal, backup, applier, outcome, before, at, written, refused, unread>>
    BY DEF HumanEdits
  <1>2. /\ count' \in [edits : 0..MaxHumanEdits, deaths : 0..MaxDeaths, errors : 0..MaxErrors]
        /\ count'.edits # 0
    BY <1>1, BootstrapAssumption DEF BootstrapInv, BootstrapTypes
  <1>3. repo \in Shaped
    BY DEF BootstrapInv, BootstrapTypes
  <1>4. content \in Bytes /\ (f # "agents" => content.text = 0)
    <2>1. repo[f] \in Bytes
      BY <1>3 DEF Shaped
    <2>2. CASE f = "agents"
      BY <2>1, <2>2, BootstrapAssumption DEF HumanBytes, Bytes
    <2>3. CASE f # "agents"
      BY <2>3, BootstrapAssumption DEF HumanBytes, Bytes
    <2> QED
      BY <2>2, <2>3
  <1>5. repo' \in Shaped /\ \A g \in Managed : g # f => repo'[g] = repo[g]
    BY <1>1, <1>3, <1>4 DEF Shaped, Managed
  <1>6. BootstrapTypes'
    BY <1>1, <1>2, <1>5 DEF BootstrapInv, BootstrapTypes
  <1>7. OneAtATime' /\ Forgotten'
    BY <1>1 DEF BootstrapInv, OneAtATime, Forgotten
  <1>8. RollbackInv'
    BY <1>1, <1>2, <1>5 DEF BootstrapInv, RollbackInv
  <1>9. ASSUME NEW q \in Appliers PROVE HolderInv(q)'
    <2>1. ASSUME NEW g \in Managed, FileInv(q, g) PROVE FileInv(q, g)'
      <3>1. CASE g = f
        BY <1>1, <2>1, <3>1 DEF FileInv
      <3>2. CASE g # f
        <4>1. repo'[g] = repo[g] /\ (g \in late' <=> g \in late)
          BY <1>1, <1>5, <3>2
        <4> QED
          BY <1>1, <2>1, <4>1 DEF FileInv
      <3> QED
        BY <3>1, <3>2
    <2> QED
      BY <1>1, <1>2, <2>1 DEF BootstrapInv, HolderInv
  <1>10. InterruptedApplyIsReversible'
    <2> SUFFICES ASSUME applyJournal # NoPlan, applyJournal.state = "intent", lock = applyJournal.plan,
                        NEW g \in Writes(applyJournal.plan) \ late', ~unread
                 PROVE  Reversible(g)'
      BY <1>1 DEF InterruptedApplyIsReversible
    <2>1. g \in Managed /\ g # f /\ Reversible(g)
      BY <1>1 DEF Writes, BootstrapInv, InterruptedApplyIsReversible
    <2> QED
      BY <1>1, <1>5, <2>1 DEF Reversible
  <1>11. NextPlanIsAccepted'
    BY <1>2 DEF NextPlanIsAccepted
  <1> QED
    BY <1>6, <1>7, <1>8, <1>9, <1>10, <1>11 DEF BootstrapInv
LEMMA VerifyStep == ASSUME BootstrapInv, NEW p \in Appliers, Verify(p) PROVE BootstrapInv'
  <1> DEFINE plan == applier[p].plan
  <1>1. /\ applier[p].at = "verify"
        /\ UNCHANGED <<repo, applyJournal, backup, before, at, written, refused, count>>
        /\ \/ /\ \A f \in Writes(plan) : repo[f] = plan.before[f]
              /\ GoOn(p, "read") /\ late' = {} /\ unread' = FALSE /\ UNCHANGED lock
           \/ Ends(p, "refused") /\ Unlock(p) /\ UNCHANGED <<late, unread>>
    BY DEF Verify
  <1>2. applier[p].at \in Holding /\ "read" \in Holding /\ BootstrapTypes
    BY <1>1 DEF Holding, BootstrapInv
  <1>3. written = {} /\ ~refused
    BY <1>1, <1>2, HolderIsAlone DEF BootstrapInv, Forgotten, Holding
  <1>4. Sound(plan) /\ lock = plan
    BY <1>2, HolderIsAlone
  <1>5. CASE /\ \A f \in Writes(plan) : repo[f] = plan.before[f]
             /\ GoOn(p, "read") /\ late' = {} /\ unread' = FALSE /\ UNCHANGED lock
    <2>1. /\ applier' \in [Appliers -> Records] /\ applier'[p].at = "read" /\ UNCHANGED outcome
          /\ applier'[p].plan = plan /\ \A q \in Appliers : q # p => applier'[q] = applier[q]
      BY <1>2, <1>5, GoesOn DEF GoOn
    <2>2. BootstrapTypes'
      BY <1>1, <1>2, <1>5, <2>1 DEF BootstrapTypes, Records
    <2>3. \A f \in Managed : repo'[f] = plan.before[f]
      BY <1>1, <1>4, <1>5 DEF Sound
    <2>4. HolderInv(p)'
      BY <1>5, <2>1, <2>3 DEF HolderInv, FileInv
    <2> QED
      BY <1>1, <1>2, <1>3, <1>5, <2>1, <2>2, <2>4, HolderGoesOn
  <1>6. CASE Ends(p, "refused") /\ Unlock(p) /\ UNCHANGED <<late, unread>>
    <2>1. /\ applier' \in [Appliers -> Records] /\ applier'[p].at = "idle" /\ outcome' = "refused"
          /\ \A q \in Appliers : q # p => applier'[q] = applier[q]
      BY <1>2, <1>6, ItEnds
    <2>2. BootstrapTypes'
      BY <1>1, <1>2, <1>6, <2>1 DEF BootstrapTypes, Records, Unlock
    <2> QED
      BY <1>1, <1>2, <1>3, <1>6, <2>1, <2>2, HolderIsDone
  <1> QED
    BY <1>1, <1>5, <1>6

LEMMA ReadBeforeStep == ASSUME BootstrapInv, NEW p \in Appliers, ReadBefore(p) PROVE BootstrapInv'
  <1> DEFINE plan == applier[p].plan
  <1>1. /\ applier[p].at = "read" /\ GoOn(p, "backup") /\ at' = 1 /\ (Works \/ Fails)
        /\ UNCHANGED <<repo, lock, applyJournal, backup, written, refused, late>>
        /\ \/ before' = repo /\ UNCHANGED unread
           \/ /\ \E f \in Writes(plan) : before' = [repo EXCEPT ![f] = Nothing]
              /\ unread' = TRUE
    BY DEF ReadBefore
  <1>2. applier[p].at \in Holding /\ "backup" \in Holding /\ BootstrapTypes
    BY <1>1 DEF Holding, BootstrapInv
  <1>3. written = {} /\ ~refused
    BY <1>1, <1>2, HolderIsAlone DEF BootstrapInv, Forgotten, Holding
  <1>4. /\ applier' \in [Appliers -> Records] /\ applier'[p].at = "backup" /\ UNCHANGED outcome
        /\ applier'[p].plan = plan /\ \A q \in Appliers : q # p => applier'[q] = applier[q]
    BY <1>1, <1>2, GoesOn DEF GoOn
  <1>5. before' \in Shaped /\ unread' \in BOOLEAN
    BY <1>1, <1>2, ShapeIsKept DEF BootstrapTypes, Writes
  <1>6. BootstrapTypes'
    BY <1>1, <1>2, <1>4, <1>5, CountIsKept DEF BootstrapTypes, Records
  <1>7. ~unread' => before' = repo
    BY <1>1
  <1>8. ASSUME NEW f \in Managed PROVE FileInv(p, f)'
    <2>1. f \notin late => repo[f] = plan.before[f]
      BY <1>1, <1>2 DEF BootstrapInv, HolderInv, FileInv
    <2>2. ~(Place(f) < 1)
      BY Places
    <2> QED
      BY <1>1, <1>4, <1>7, <2>1, <2>2 DEF FileInv
  <1>9. HolderInv(p)'
    BY <1>1, <1>2, <1>3, <1>4, <1>8, CountIsKept DEF HolderInv, BootstrapInv
  <1> QED
    BY <1>1, <1>2, <1>4, <1>6, <1>9, HolderGoesOn

\* A process that ends and forgets leaves every variable of its type.
LEMMA EndIsTyped ==
  ASSUME BootstrapTypes, NEW p \in Appliers,
         NEW how \in {"none", "refused", "applied", "rolledback", "rollbackrefused"}, Ends(p, how), Forget,
         lock' = NoPlan \/ lock' = lock, repo' \in Shaped,
         applyJournal' = NoPlan \/ (applyJournal' \in ApplyJournals /\ Sound(applyJournal'.plan)),
         count' \in [edits : 0..MaxHumanEdits, deaths : 0..MaxDeaths, errors : 0..MaxErrors],
         UNCHANGED <<backup, late, unread>>
  PROVE  BootstrapTypes'
  <1>1. refused' \in BOOLEAN
    BY Zenon DEF Forget
  <1>2. [f \in Managed |-> Nothing] \in Shaped
    BY NothingIsBytes DEF Shaped, Managed
  <1>3. before' \in Shaped /\ at' \in 0..4 /\ written' \subseteq Managed
    BY <1>2 DEF Forget
  <1>4. applier' \in [Appliers -> Records] /\ outcome' = how
    BY ItEnds
  <1> QED
    BY <1>1, <1>3, <1>4 DEF BootstrapTypes, Records

\* The holder ends with nothing written.
LEMMA EndsUnwritten ==
  ASSUME BootstrapInv, NEW p \in Appliers, applier[p].at = "backup",
         Fails, Ends(p, "rolledback"), Unlock(p), Forget,
         UNCHANGED <<repo, applyJournal, backup, late, unread>>
  PROVE  BootstrapInv'
  <1>1. applier[p].at \in Holding /\ BootstrapTypes
    BY DEF Holding, BootstrapInv
  <1>2. /\ applier' \in [Appliers -> Records] /\ applier'[p].at = "idle" /\ outcome' = "rolledback"
        /\ \A q \in Appliers : q # p => applier'[q] = applier[q]
    BY <1>1, ItEnds
  <1>3. lock' = NoPlan
    BY <1>1, HolderIsAlone DEF Unlock
  <1>4. BootstrapTypes'
    <2>1. /\ repo' \in Shaped
          /\ applyJournal' = NoPlan \/ (applyJournal' \in ApplyJournals /\ Sound(applyJournal'.plan))
      BY <1>1 DEF BootstrapTypes
    <2> QED
      BY <1>1, <1>3, <2>1, CountIsKept, EndIsTyped
  <1>5. ASSUME count'.edits = 0 PROVE ~Conflict(repo')
    <2>1. late = {} /\ Sound(applier[p].plan)
      BY <1>1, <1>5, CountIsKept, HolderIsAlone DEF BootstrapInv, HolderInv
    <2>2. \A f \in Managed : repo[f] = applier[p].plan.before[f]
      BY <1>1, <2>1 DEF BootstrapInv, HolderInv, FileInv
    <2> QED
      BY <2>1, <2>2, BeforeAgrees
  <1> QED
    BY <1>1, <1>2, <1>4, <1>5, HolderIsDone DEF Forget

LEMMA BackupStep == ASSUME BootstrapInv, NEW p \in Appliers, Backup(p) PROVE BootstrapInv'
  <1> DEFINE plan == applier[p].plan
             g    == Order[at]
  <1>1. /\ applier[p].at = "backup" /\ at <= 3
        /\ UNCHANGED <<repo, applyJournal, late, unread>>
        /\ \/ /\ Works /\ at' = at + 1
              /\ backup' = IF g \in Writes(plan) /\ before[g] # Nothing
                           THEN [backup EXCEPT ![g] = before[g]] ELSE backup
              /\ UNCHANGED <<applier, outcome, lock, before, written, refused>>
           \/ Fails /\ Ends(p, "rolledback") /\ Unlock(p) /\ Forget /\ UNCHANGED backup
    BY Places DEF Backup
  <1>2. applier[p].at \in Holding /\ BootstrapTypes /\ HolderInv(p)
    BY <1>1 DEF Holding, BootstrapInv
  <1>3. CASE /\ Works /\ at' = at + 1
             /\ backup' = IF g \in Writes(plan) /\ before[g] # Nothing
                          THEN [backup EXCEPT ![g] = before[g]] ELSE backup
             /\ UNCHANGED <<applier, outcome, lock, before, written, refused>>
    <2>1. at \in 1..3 /\ g \in Managed /\ Place(g) = at /\ Writes(plan) = Managed
      BY <1>1, <1>2, Places, HolderIsAlone DEF HolderInv, Sound
    <2>2. backup' \in Shaped
      BY <1>2, <1>3, <2>1, ShapeIsKept DEF BootstrapTypes
    <2>3. BootstrapTypes'
      BY <1>1, <1>2, <1>3, <2>1, <2>2, CountIsKept DEF BootstrapTypes
    <2>4. ASSUME NEW f \in Managed PROVE FileInv(p, f)'
      <3>1. Place(f) \in 1..3 /\ (Place(f) = at => f = g)
        BY <2>1, Places
      <3>2. FileInv(p, f)
        BY <1>2 DEF HolderInv
      <3>3. backup \in [Managed -> Bytes]
        BY <1>2 DEF BootstrapTypes, Shaped
      <3>4. Place(f) < at' /\ before[f] # Nothing => backup'[f] = before[f]
        <4>1. CASE f = g
          BY <1>3, <2>1, <3>3, <4>1
        <4>2. CASE f # g
          BY <1>1, <1>3, <2>1, <3>1, <3>2, <3>3, <4>2 DEF FileInv
        <4> QED
          BY <4>1, <4>2
      <3> QED
        BY <1>1, <1>3, <3>2, <3>4 DEF FileInv
    <2>5. HolderInv(p)'
      BY <1>1, <1>2, <1>3, <2>1, <2>4, CountIsKept DEF HolderInv
    <2> QED
      BY <1>1, <1>2, <1>3, <2>3, <2>5, HolderGoesOn
  <1> QED
    BY <1>1, <1>3, EndsUnwritten

LEMMA IntentStep == ASSUME BootstrapInv, NEW p \in Appliers, Intent(p) PROVE BootstrapInv'
  <1> DEFINE plan == applier[p].plan
             new  == [state |-> "intent", plan |-> plan, backed |-> {f \in Writes(plan) : before[f] # Nothing}]
  <1>1. /\ applier[p].at = "backup" /\ at > 3
        /\ UNCHANGED <<repo, backup, late, unread>>
        /\ \/ /\ Works /\ GoOn(p, "write") /\ at' = 1 /\ applyJournal' = new
              /\ UNCHANGED <<lock, before, written, refused>>
           \/ Fails /\ Ends(p, "rolledback") /\ Unlock(p) /\ Forget /\ UNCHANGED applyJournal
    BY Places DEF Intent
  <1>2. applier[p].at \in Holding /\ "write" \in Holding /\ BootstrapTypes /\ HolderInv(p)
    BY <1>1 DEF Holding, BootstrapInv
  <1>3. CASE /\ Works /\ GoOn(p, "write") /\ at' = 1 /\ applyJournal' = new
             /\ UNCHANGED <<lock, before, written, refused>>
    <2>1. Sound(plan) /\ Writes(plan) = Managed
      BY <1>2, HolderIsAlone DEF Sound
    <2>2. /\ new \in ApplyJournals
          /\ new.plan = plan /\ new.state = "intent"
          /\ \A f \in Managed : before[f] # Nothing => f \in new.backed
      BY <2>1 DEF Sound, ApplyJournals
    <2> HIDE DEF new
    <2>3. /\ applier' \in [Appliers -> Records] /\ applier'[p].at = "write" /\ UNCHANGED outcome
          /\ applier'[p].plan = plan /\ \A q \in Appliers : q # p => applier'[q] = applier[q]
      BY <1>2, <1>3, GoesOn DEF GoOn
    <2>4. BootstrapTypes'
      BY <1>1, <1>2, <1>3, <2>1, <2>2, <2>3, CountIsKept DEF BootstrapTypes, Records
    <2>5. ASSUME NEW f \in Managed PROVE FileInv(p, f)'
      <3>1. Place(f) \in 1..3 /\ Place(f) < at /\ ~(Place(f) < 1)
        BY <1>1, <1>2, Places DEF BootstrapTypes
      <3>2. FileInv(p, f) /\ written = {}
        BY <1>1, <1>2 DEF HolderInv
      <3> QED
        BY <1>1, <1>3, <2>2, <2>3, <3>1, <3>2 DEF FileInv
    <2>6. applyJournal' # NoPlan
      BY <1>3, <2>2, BootstrapAssumption
    <2>7. HolderInv(p)'
      BY <1>1, <1>2, <1>3, <2>2, <2>3, <2>5, <2>6, CountIsKept DEF HolderInv
    <2> QED
      BY <1>1, <1>2, <1>3, <2>3, <2>4, <2>7, HolderGoesOn
  <1> QED
    BY <1>1, <1>3, EndsUnwritten
LEMMA WriteFileStep == ASSUME BootstrapInv, NEW p \in Appliers, WriteFile(p) PROVE BootstrapInv'
  <1> DEFINE plan == applier[p].plan
             g    == Order[at]
  <1>1. /\ applier[p].at = "write" /\ at <= 3
        /\ UNCHANGED <<lock, applyJournal, backup, before, written, refused, late, unread>>
        /\ \/ g \notin Writes(plan)
           \/ g \in Writes(plan) /\ Works /\ repo' = [repo EXCEPT ![g] = After(plan)[g]]
                /\ GoOn(p, "check") /\ UNCHANGED at
           \/ Fails /\ GoOn(p, "undo") /\ at' = at - 1 /\ UNCHANGED repo
    BY Places DEF WriteFile
  <1>2. /\ applier[p].at \in Holding /\ "check" \in Holding /\ "undo" \in Holding
        /\ BootstrapTypes /\ HolderInv(p)
    BY <1>1 DEF Holding, BootstrapInv
  <1>3. at \in 1..3 /\ g \in Managed /\ Place(g) = at
    BY <1>1, <1>2, Places DEF HolderInv
  <1>4. Sound(plan) /\ Writes(plan) = Managed
    BY <1>2, HolderIsAlone DEF Sound
  <1>5. \A f \in Managed : FileInv(p, f) /\ Place(f) \in 1..3 /\ (Place(f) = at => f = g)
    BY <1>2, <1>3, Places DEF HolderInv
  <1>6. CASE Works /\ repo' = [repo EXCEPT ![g] = After(plan)[g]] /\ GoOn(p, "check") /\ UNCHANGED at
    <2>1. /\ applier' \in [Appliers -> Records] /\ applier'[p].at = "check" /\ UNCHANGED outcome
          /\ applier'[p].plan = plan /\ \A q \in Appliers : q # p => applier'[q] = applier[q]
      BY <1>2, <1>6, GoesOn DEF GoOn
    <2>2. repo' \in Shaped
      BY <1>2, <1>3, <1>4, <1>6, ShapeIsKept, AfterIsShaped DEF BootstrapTypes, Sound
    <2>3. BootstrapTypes'
      BY <1>1, <1>2, <1>6, <2>1, <2>2, CountIsKept DEF BootstrapTypes, Records
    <2>4. ASSUME NEW f \in Managed PROVE FileInv(p, f)'
      <3>1. repo'[f] = IF f = g THEN After(plan)[f] ELSE repo[f]
        BY <1>2, <1>6 DEF BootstrapTypes, Shaped
      <3>2. FileInv(p, f) /\ Place(f) \in 1..3 /\ (Place(f) = at <=> f = g)
        BY <1>3, <1>5
      <3> QED
        BY <1>1, <1>3, <1>6, <2>1, <3>1, <3>2 DEF FileInv
    <2>5. HolderInv(p)'
      BY <1>1, <1>2, <1>3, <1>6, <2>1, <2>4, CountIsKept DEF HolderInv
    <2> QED
      BY <1>1, <1>2, <2>1, <2>3, <2>5, HolderGoesOn
  <1>7. CASE Fails /\ GoOn(p, "undo") /\ at' = at - 1 /\ UNCHANGED repo
    <2>1. /\ applier' \in [Appliers -> Records] /\ applier'[p].at = "undo" /\ UNCHANGED outcome
          /\ applier'[p].plan = plan /\ \A q \in Appliers : q # p => applier'[q] = applier[q]
      BY <1>2, <1>7, GoesOn DEF GoOn
    <2>2. at' \in 0..2 /\ at' \in 0..4 /\ at' \in 0..3
      BY <1>3, <1>7
    <2>3. BootstrapTypes'
      BY <1>1, <1>2, <1>7, <2>1, <2>2, CountIsKept DEF BootstrapTypes, Records
    <2>4. ASSUME NEW f \in Managed PROVE FileInv(p, f)'
      <3>1. FileInv(p, f) /\ Place(f) \in 1..3 /\ (Place(f) <= at' <=> Place(f) < at)
        BY <1>3, <1>5, <1>7
      <3> QED
        BY <1>1, <1>3, <1>7, <2>1, <3>1 DEF FileInv
    <2>5. HolderInv(p)'
      BY <1>1, <1>2, <1>7, <2>1, <2>2, <2>4, CountIsKept DEF HolderInv
    <2> QED
      BY <1>1, <1>2, <2>1, <2>3, <2>5, HolderGoesOn
  <1> QED
    BY <1>1, <1>3, <1>4, <1>6, <1>7

LEMMA CheckFileStep == ASSUME BootstrapInv, NEW p \in Appliers, CheckFile(p) PROVE BootstrapInv'
  <1> DEFINE plan == applier[p].plan
             g    == Order[at]
             kept == g # "agents" \/ before[g] = Nothing \/ before[g].text = After(plan)[g].text
  <1>1. /\ applier[p].at = "check" /\ (Works \/ Fails)
        /\ UNCHANGED <<repo, lock, applyJournal, backup, before, refused, late>>
        /\ \/ repo[g] = After(plan)[g] /\ written' = written \cup {g} /\ at' = at + 1
                /\ GoOn(p, "write") /\ UNCHANGED unread
           \/ ~(repo[g] = After(plan)[g] /\ kept) /\ at' = at - 1 /\ GoOn(p, "undo") /\ UNCHANGED <<written, unread>>
           \/ at' = at - 1 /\ GoOn(p, "undo") /\ unread' = TRUE /\ UNCHANGED written
    BY DEF CheckFile
  <1>2. /\ applier[p].at \in Holding /\ "write" \in Holding /\ "undo" \in Holding
        /\ BootstrapTypes /\ HolderInv(p)
    BY <1>1 DEF Holding, BootstrapInv
  <1>3. at \in 1..3 /\ g \in Managed /\ Place(g) = at
    BY <1>1, <1>2, Places DEF HolderInv
  <1>4. Sound(plan)
    BY <1>2, HolderIsAlone
  <1>5. \A f \in Managed : FileInv(p, f) /\ Place(f) \in 1..3 /\ (Place(f) = at <=> f = g)
    BY <1>2, <1>3, Places DEF HolderInv
  <1>6. CASE repo[g] = After(plan)[g] /\ written' = written \cup {g} /\ at' = at + 1
                /\ GoOn(p, "write") /\ UNCHANGED unread
    <2>1. /\ applier' \in [Appliers -> Records] /\ applier'[p].at = "write" /\ UNCHANGED outcome
          /\ applier'[p].plan = plan /\ \A q \in Appliers : q # p => applier'[q] = applier[q]
      BY <1>2, <1>6, GoesOn DEF GoOn
    <2>2. at' \in 1..4 /\ at' \in 0..4 /\ written' \subseteq Managed
      BY <1>2, <1>3, <1>6 DEF BootstrapTypes
    <2>3. BootstrapTypes'
      BY <1>1, <1>2, <1>6, <2>1, <2>2, CountIsKept DEF BootstrapTypes, Records
    <2>4. ASSUME NEW f \in Managed PROVE FileInv(p, f)'
      <3>1. /\ FileInv(p, f) /\ Place(f) \in 1..3 /\ (Place(f) = at <=> f = g)
            /\ (Place(f) < at' <=> Place(f) < at \/ Place(f) = at)
        BY <1>3, <1>5, <1>6
      <3>2. f \in written' <=> Place(f) < at'
        BY <1>1, <1>6, <3>1 DEF FileInv
      <3> QED
        BY <1>1, <1>6, <2>1, <3>1, <3>2 DEF FileInv
    <2>5. HolderInv(p)'
      BY <1>1, <1>2, <1>6, <2>1, <2>2, <2>4, CountIsKept DEF HolderInv
    <2> QED
      BY <1>1, <1>2, <2>1, <2>3, <2>5, HolderGoesOn
  <1>7. ASSUME at' = at - 1, GoOn(p, "undo"), UNCHANGED written, unread' \in BOOLEAN, ~unread' => ~unread /\ g \in late
        PROVE  BootstrapInv'
    <2>1. /\ applier' \in [Appliers -> Records] /\ applier'[p].at = "undo" /\ UNCHANGED outcome
          /\ applier'[p].plan = plan /\ \A q \in Appliers : q # p => applier'[q] = applier[q]
      BY <1>2, <1>7, GoesOn DEF GoOn
    <2>2. at' \in 0..4 /\ at' \in 0..3
      BY <1>3, <1>7
    <2>3. BootstrapTypes'
      BY <1>1, <1>2, <1>7, <2>1, <2>2, CountIsKept DEF BootstrapTypes, Records
    <2>4. ASSUME NEW f \in Managed PROVE FileInv(p, f)'
      <3>1. /\ FileInv(p, f) /\ Place(f) \in 1..3 /\ (Place(f) = at <=> f = g)
            /\ (Place(f) <= at' <=> Place(f) < at)
        BY <1>3, <1>5, <1>7
      <3>2. before'[f] = before[f] /\ backup'[f] = backup[f] /\ repo'[f] = repo[f]
        BY <1>1
      <3>3. ~unread' /\ f \notin late' => f # g /\ ~unread /\ f \notin late
        <4>1. UNCHANGED late
          BY <1>1
        <4> QED
          BY <1>7, <4>1, Zenon
      <3>4. CASE ~unread' /\ f \notin late'
        BY <1>1, <1>7, <2>1, <3>1, <3>2, <3>3, <3>4 DEF FileInv
      <3>5. CASE ~(~unread' /\ f \notin late')
        <4>1. before[f] # Nothing => f \in applyJournal'.backed /\ backup'[f] = before'[f]
          BY <1>1, <3>1, <3>2 DEF FileInv
        <4> QED
          BY <2>1, <3>2, <3>5, <4>1, Zenon DEF FileInv
      <3> QED
        BY <3>4, <3>5
    <2>5. HolderInv(p)'
      BY <1>1, <1>2, <1>7, <2>1, <2>2, <2>4, CountIsKept DEF HolderInv
    <2> QED
      BY <1>1, <1>2, <2>1, <2>3, <2>5, HolderGoesOn
  <1>8. CASE ~(repo[g] = After(plan)[g] /\ kept) /\ at' = at - 1 /\ GoOn(p, "undo") /\ UNCHANGED <<written, unread>>
    <2>1. ASSUME ~unread, g \notin late PROVE FALSE
      <3>1. repo[g] = After(plan)[g]
        BY <1>1, <1>3, <1>5, <2>1 DEF FileInv
      <3>2. before[g] = plan.before[g]
        BY <1>1, <1>3, <1>5, <2>1 DEF FileInv
      <3> QED
        BY <1>4, <1>8, <3>1, <3>2, AfterIsShaped DEF Sound
    <2>2. ~unread' => ~unread /\ g \in late
      BY <1>8, <2>1
    <2>3. unread' \in BOOLEAN
      BY <1>2, <1>8 DEF BootstrapTypes
    <2> QED
      BY <1>7, <1>8, <2>2, <2>3
  <1>9. CASE at' = at - 1 /\ GoOn(p, "undo") /\ unread' = TRUE /\ UNCHANGED written
    BY <1>7, <1>9
  <1> QED
    BY <1>1, <1>6, <1>8, <1>9

\* The journal with another state is a journal, of the same plan.
LEMMA JournalIsClosed ==
  ASSUME applyJournal \in ApplyJournals, Sound(applyJournal.plan),
         NEW s \in {"complete", "rolledback"}
  PROVE  /\ [applyJournal EXCEPT !.state = s] \in ApplyJournals
         /\ Sound([applyJournal EXCEPT !.state = s].plan)
  <1>1. [applyJournal EXCEPT !.state = s].plan = applyJournal.plan
    BY DEF ApplyJournals
  <1>2. [applyJournal EXCEPT !.state = s] \in ApplyJournals
    BY DEF ApplyJournals
  <1> QED
    BY <1>1, <1>2

LEMMA CompleteStep == ASSUME BootstrapInv, NEW p \in Appliers, Complete(p) PROVE BootstrapInv'
  <1> DEFINE plan == applier[p].plan
  <1>1. /\ applier[p].at = "write" /\ at > 3 /\ (Works \/ Fails)
        /\ UNCHANGED <<repo, backup, late, unread>>
        /\ Ends(p, "applied") /\ Unlock(p) /\ Forget
        /\ applyJournal' = [applyJournal EXCEPT !.state = "complete"] \/ UNCHANGED applyJournal
    BY Places DEF Complete
  <1>2. applier[p].at \in Holding /\ BootstrapTypes /\ HolderInv(p)
    BY <1>1 DEF Holding, BootstrapInv
  <1>3. Sound(plan) /\ lock' = NoPlan
    BY <1>1, <1>2, HolderIsAlone DEF Unlock
  <1>4. /\ applier' \in [Appliers -> Records] /\ applier'[p].at = "idle" /\ outcome' = "applied"
        /\ \A q \in Appliers : q # p => applier'[q] = applier[q]
    BY <1>1, <1>2, ItEnds
  <1>5. applyJournal' \in ApplyJournals /\ Sound(applyJournal'.plan)
    <2>1. applyJournal \in ApplyJournals /\ Sound(applyJournal.plan)
      BY <1>1, <1>2 DEF HolderInv, BootstrapTypes
    <2> QED
      BY <1>1, <2>1, JournalIsClosed
  <1>6. BootstrapTypes'
    <2>1. repo' \in Shaped
      BY <1>1, <1>2 DEF BootstrapTypes
    <2> QED
      BY <1>1, <1>2, <1>3, <1>5, <2>1, CountIsKept, EndIsTyped
  <1>7. ASSUME count'.edits = 0 PROVE ~Conflict(repo')
    <2>1. late = {}
      BY <1>1, <1>2, <1>7, CountIsKept DEF HolderInv
    <2>2. ASSUME NEW f \in Managed PROVE repo[f] = After(plan)[f]
      <3>1. FileInv(p, f) /\ Place(f) < at
        BY <1>1, <1>2, Places DEF HolderInv, BootstrapTypes
      <3> QED
        BY <1>1, <2>1, <3>1 DEF FileInv
    <2> QED
      BY <1>1, <1>3, <2>2, AfterAgrees
  <1> QED
    BY <1>1, <1>2, <1>4, <1>6, <1>7, HolderIsDone DEF Forget
LEMMA UndoFileStep == ASSUME BootstrapInv, NEW p \in Appliers, UndoFile(p) PROVE BootstrapInv'
  <1> DEFINE plan == applier[p].plan
             g    == Order[at]
             now  == IF before[g] = Nothing THEN Nothing ELSE backup[g]
             Kept(f) == f \notin late /\ ~unread =>
                          /\ Place(f) <= at' => f \in written /\ repo'[f] = After(plan)[f]
                          /\ Place(f) > at' => \/ repo'[f] = plan.before[f]
                                               \/ refused' /\ repo'[f] = After(plan)[f]
  <1>1. /\ applier[p].at = "undo" /\ at > 0 /\ (Works \/ Fails)
        /\ UNCHANGED <<lock, applyJournal, backup, applier, outcome, before, written, late, unread>>
        /\ \/ g \notin written /\ at' = at - 1 /\ UNCHANGED <<repo, refused>>
           \/ g \in written /\ at' = at - 1 /\ repo[g] # After(plan)[g] /\ refused' = TRUE /\ UNCHANGED repo
           \/ /\ g \in written /\ at' = at - 1 /\ repo[g] = After(plan)[g]
              /\ repo' = [repo EXCEPT ![g] = now] /\ UNCHANGED refused
           \/ at' = 0 /\ refused' = TRUE /\ UNCHANGED repo
    BY DEF UndoFile
  <1>2. applier[p].at \in Holding /\ BootstrapTypes /\ HolderInv(p)
    BY <1>1 DEF Holding, BootstrapInv
  <1>3. at \in 1..3 /\ g \in Managed /\ Place(g) = at
    BY <1>1, <1>2, Places DEF HolderInv
  <1>4. \A f \in Managed : FileInv(p, f) /\ Place(f) \in 1..3 /\ (Place(f) = at <=> f = g)
    BY <1>2, <1>3, Places DEF HolderInv
  <1>5. \A f \in Managed : f \notin late /\ ~unread =>
           /\ Place(f) <= at => f \in written /\ repo[f] = After(plan)[f]
           /\ Place(f) > at => repo[f] = plan.before[f] \/ (refused /\ repo[f] = After(plan)[f])
    BY <1>1, <1>4 DEF FileInv
  <1>6. at' \in 0..3 /\ at' \in 0..4
    BY <1>1, <1>3
  <1>7. refused' \in BOOLEAN
    <2>1. refused' = TRUE \/ refused' = refused
      BY <1>1
    <2>2. refused \in BOOLEAN
      BY <1>2 DEF BootstrapTypes
    <2> QED
      BY <2>1, <2>2, Zenon
  <1>8. repo' \in Shaped
    <2>1. repo \in Shaped /\ backup \in Shaped
      BY <1>2 DEF BootstrapTypes
    <2>2. [repo EXCEPT ![g] = now] \in Shaped
      BY <1>3, <2>1, ShapeIsKept
    <2> QED
      BY <1>1, <2>1, <2>2
  <1>9. BootstrapTypes'
    BY <1>1, <1>2, <1>6, <1>7, <1>8, CountIsKept DEF BootstrapTypes
  <1>10. ASSUME NEW f \in Managed PROVE Kept(f)
    <2>1. /\ Place(f) \in 1..3 /\ (Place(f) = at <=> f = g)
          /\ f \notin late /\ ~unread =>
               /\ Place(f) <= at => f \in written /\ repo[f] = After(plan)[f]
               /\ Place(f) > at => repo[f] = plan.before[f] \/ (refused /\ repo[f] = After(plan)[f])
      BY <1>4, <1>5
    <2>2. CASE g \notin written /\ at' = at - 1 /\ UNCHANGED <<repo, refused>>
      BY <1>3, <2>1, <2>2
    <2>3. CASE g \in written /\ at' = at - 1 /\ repo[g] # After(plan)[g] /\ refused' = TRUE /\ UNCHANGED repo
      BY <1>3, <2>1, <2>3
    <2>4. CASE /\ g \in written /\ at' = at - 1 /\ repo[g] = After(plan)[g]
               /\ repo' = [repo EXCEPT ![g] = now] /\ UNCHANGED refused
      <3>1. repo'[f] = IF f = g THEN now ELSE repo[f]
        BY <1>2, <1>3, <2>4 DEF BootstrapTypes, Shaped
      <3>2. CASE f = g
        <4>1. f \notin late /\ ~unread => before[f] = plan.before[f]
          BY <1>1, <1>4 DEF FileInv
        <4>2. before[f] # Nothing => backup[f] = before[f]
          BY <1>1, <1>4 DEF FileInv
        <4> QED
          BY <1>3, <2>1, <2>4, <3>1, <3>2, <4>1, <4>2
      <3>3. CASE f # g
        BY <1>3, <2>1, <2>4, <3>1, <3>3
      <3> QED
        BY <3>2, <3>3
    <2>5. CASE at' = 0 /\ refused' = TRUE /\ UNCHANGED repo
      BY <1>3, <2>1, <2>5
    <2> QED
      BY <1>1, <2>2, <2>3, <2>4, <2>5
  <1>11. ASSUME NEW f \in Managed PROVE FileInv(p, f)'
    <2>1. Kept(f)
      BY <1>10
    <2> HIDE DEF Kept
    <2>2. /\ f \notin late /\ ~unread => before[f] = plan.before[f]
          /\ before[f] # Nothing => f \in applyJournal.backed /\ backup[f] = before[f]
      BY <1>1, <1>4 DEF FileInv
    <2> QED
      BY <1>1, <2>1, <2>2 DEF FileInv, Kept
  <1>12. HolderInv(p)'
    BY <1>1, <1>2, <1>6, <1>11, CountIsKept DEF HolderInv
  <1> QED
    BY <1>1, <1>2, <1>9, <1>12, HolderGoesOn

LEMMA UndoneStep == ASSUME BootstrapInv, NEW p \in Appliers, Undone(p) PROVE BootstrapInv'
  <1> DEFINE plan == applier[p].plan
             how  == IF refused THEN "rollbackrefused" ELSE "rolledback"
  <1>1. /\ applier[p].at = "undo" /\ at = 0 /\ (Works \/ Fails)
        /\ UNCHANGED <<repo, backup, late, unread>>
        /\ Ends(p, how) /\ Unlock(p) /\ Forget
        /\ applyJournal' = [applyJournal EXCEPT !.state = "rolledback"] \/ UNCHANGED applyJournal
    BY DEF Undone
  <1>2. applier[p].at \in Holding /\ BootstrapTypes /\ HolderInv(p)
    BY <1>1 DEF Holding, BootstrapInv
  <1>3. Sound(plan) /\ lock' = NoPlan
    BY <1>1, <1>2, HolderIsAlone DEF Unlock
  <1>4. /\ applier' \in [Appliers -> Records] /\ applier'[p].at = "idle" /\ outcome' = how
        /\ \A q \in Appliers : q # p => applier'[q] = applier[q]
    BY <1>1, <1>2, ItEnds
  <1>5. applyJournal' \in ApplyJournals /\ Sound(applyJournal'.plan)
    <2>1. applyJournal \in ApplyJournals /\ Sound(applyJournal.plan)
      BY <1>1, <1>2 DEF HolderInv, BootstrapTypes
    <2> QED
      BY <1>1, <2>1, JournalIsClosed
  <1>6. BootstrapTypes'
    <2>1. repo' \in Shaped
      BY <1>1, <1>2 DEF BootstrapTypes
    <2>2. how \in {"rollbackrefused", "rolledback"}
      OBVIOUS
    <2> QED
      BY <1>1, <1>2, <1>3, <1>5, <2>1, <2>2, CountIsKept, EndIsTyped
  <1>7. ASSUME outcome' \in {"applied", "rolledback"}, count'.edits = 0, ~unread' PROVE ~Conflict(repo')
    <2>1. late = {} /\ ~refused /\ ~unread
      BY <1>1, <1>2, <1>4, <1>7, CountIsKept DEF HolderInv
    <2>2. ASSUME NEW f \in Managed PROVE repo[f] = plan.before[f]
      <3>1. FileInv(p, f) /\ Place(f) > at
        BY <1>1, <1>2, Places DEF HolderInv
      <3> QED
        BY <1>1, <2>1, <3>1 DEF FileInv
    <2> QED
      BY <1>1, <1>3, <2>2, BeforeAgrees
  <1> QED
    BY <1>1, <1>2, <1>4, <1>6, <1>7, HolderIsDone DEF Forget

\* The holder, or the process that takes a journal back, is gone: nobody holds the lock or the journal.
LEMMA NobodyIsLeft ==
  ASSUME BootstrapInv, BootstrapTypes', NEW p \in Appliers, applier[p].at \in Holding \cup {"rollback"},
         applier'[p].at = "idle", \A q \in Appliers : q # p => applier'[q] = applier[q],
         written' = {} /\ ~refused', InterruptedApplyIsReversible', NextPlanIsAccepted'
  PROVE  BootstrapInv'
  <1>1. \A q \in Appliers : q # p => applier[q].at \notin Holding \cup {"rollback"}
    BY HolderIsAlone DEF BootstrapInv, OneAtATime, Holding
  <1>2. \A q \in Appliers : applier'[q].at \notin Holding \cup {"rollback"}
    BY <1>1 DEF Holding
  <1>3. OneAtATime'
    BY <1>2 DEF OneAtATime, BootstrapInv
  <1>4. Forgotten' /\ RollbackInv' /\ \A q \in Appliers : HolderInv(q)'
    BY <1>2 DEF Forgotten, RollbackInv, HolderInv, Holding
  <1> QED
    BY <1>3, <1>4 DEF BootstrapInv

LEMMA DiesStep == ASSUME BootstrapInv, NEW p \in Appliers, Dies(p) PROVE BootstrapInv'
  <1>1. /\ applier[p].at \notin {"idle", "approved"}
        /\ count.deaths < MaxDeaths /\ count' = [count EXCEPT !.deaths = @ + 1]
        /\ Ends(p, "none") /\ UNCHANGED <<repo, lock, applyJournal, backup, late, unread>>
        /\ IF applier[p].at = "acquire" THEN UNCHANGED <<before, at, written, refused>> ELSE Forget
    BY DEF Dies
  <1>2. BootstrapTypes
    BY DEF BootstrapInv
  <1>3. /\ count' \in [edits : 0..MaxHumanEdits, deaths : 0..MaxDeaths, errors : 0..MaxErrors]
        /\ count'.edits = count.edits
    BY <1>1, <1>2, BootstrapAssumption DEF BootstrapTypes
  <1>4. /\ applier' \in [Appliers -> Records] /\ applier'[p].at = "idle" /\ outcome' = "none"
        /\ \A q \in Appliers : q # p => applier'[q] = applier[q]
    BY <1>1, <1>2, ItEnds
  <1>5. CASE applier[p].at = "acquire"
    BY <1>1, <1>3, <1>4, <1>5, OutsideStep
  <1>6. CASE applier[p].at # "acquire"
    <2>1. applier[p].at \in Holding \cup {"rollback"}
      BY <1>1, <1>2, <1>6 DEF BootstrapTypes
    <2>2. /\ repo' \in Shaped
          /\ applyJournal' = NoPlan \/ (applyJournal' \in ApplyJournals /\ Sound(applyJournal'.plan))
      BY <1>1, <1>2 DEF BootstrapTypes
    <2>3. BootstrapTypes'
      BY <1>1, <1>2, <1>3, <1>6, <2>2, EndIsTyped
    <2>4. InterruptedApplyIsReversible'
      BY <1>1 DEF BootstrapInv, InterruptedApplyIsReversible, Reversible
    <2>5. NextPlanIsAccepted'
      BY <1>4 DEF NextPlanIsAccepted
    <2> QED
      BY <1>1, <1>4, <1>6, <2>1, <2>3, <2>4, <2>5, NobodyIsLeft DEF Forget
  <1> QED
    BY <1>5, <1>6

LEMMA PlanRollbackStep == ASSUME BootstrapInv, NEW p \in Appliers, PlanRollback(p) PROVE BootstrapInv'
  <1> DEFINE plan == applyJournal.plan
  <1>1. /\ \A q \in Appliers : applier[q].at = "idle"
        /\ applyJournal # NoPlan /\ \A f \in Writes(plan) : Reversible(f)
        /\ applier' = [applier EXCEPT ![p].at = "rollback"] /\ outcome' = "none"
        /\ at' = 3 /\ late' = {}
        /\ written' = {f \in Writes(plan) : repo[f] # plan.before[f]}
        /\ UNCHANGED <<repo, lock, applyJournal, backup, before, refused, unread, count>>
    BY Places DEF PlanRollback
  <1>2. BootstrapTypes
    BY DEF BootstrapInv
  <1>3. Sound(plan) /\ Writes(plan) = Managed
    BY <1>1, <1>2 DEF BootstrapTypes, Sound
  <1>4. /\ applier' \in [Appliers -> Records] /\ applier'[p].at = "rollback"
        /\ \A q \in Appliers : q # p => applier'[q] = applier[q]
    BY <1>1, <1>2, GoesOn
  <1>5. BootstrapTypes'
    BY <1>1, <1>2, <1>3, <1>4 DEF BootstrapTypes, Records
  <1>6. \A q \in Appliers : applier'[q].at \notin Holding
    BY <1>1, <1>4 DEF Holding
  <1>7. OneAtATime' /\ Forgotten' /\ \A q \in Appliers : HolderInv(q)'
    BY <1>1, <1>4, <1>6 DEF OneAtATime, Forgotten, HolderInv, Holding
  <1>8. RollbackInv'
    <2>1. ASSUME NEW f \in Managed
          PROVE  repo[f] = IF f \in written' /\ Place(f) <= 3 THEN After(plan)[f] ELSE plan.before[f]
      <3>1. Reversible(f) /\ Place(f) <= 3
        BY <1>1, <1>3, Places
      <3> QED
        BY <1>1, <1>3, <3>1 DEF Reversible
    <2> QED
      BY <1>1, <2>1 DEF RollbackInv
  <1>9. InterruptedApplyIsReversible'
    BY <1>1 DEF InterruptedApplyIsReversible, Reversible
  <1>10. NextPlanIsAccepted'
    BY <1>1 DEF NextPlanIsAccepted
  <1> QED
    BY <1>5, <1>7, <1>8, <1>9, <1>10 DEF BootstrapInv

LEMMA RollbackFileStep == ASSUME BootstrapInv, NEW p \in Appliers, RollbackFile(p) PROVE BootstrapInv'
  <1> DEFINE plan == applyJournal.plan
             g    == Order[at]
  <1>1. /\ applier[p].at = "rollback" /\ at > 0 /\ (Works \/ Fails)
        /\ UNCHANGED <<lock, applyJournal, backup, late, unread>>
        /\ \/ /\ repo' = IF g \in written THEN [repo EXCEPT ![g] = plan.before[g]] ELSE repo
              /\ at' = at - 1 /\ UNCHANGED <<applier, outcome, before, written, refused>>
           \/ Ends(p, "refused") /\ Forget /\ UNCHANGED repo
    BY DEF RollbackFile
  <1>2. BootstrapTypes /\ RollbackInv
    BY DEF BootstrapInv
  <1>3. /\ applyJournal # NoPlan /\ at \in 1..3 /\ (count.edits = 0 => late = {})
        /\ \A f \in Managed \ late :
              repo[f] = IF f \in written /\ Place(f) <= at THEN After(plan)[f] ELSE plan.before[f]
    BY <1>1, <1>2 DEF RollbackInv
  <1>4. g \in Managed /\ Place(g) = at /\ applyJournal \in ApplyJournals /\ Sound(plan)
    BY <1>2, <1>3, Places DEF BootstrapTypes
  <1>5. \A q \in Appliers : q # p => applier[q].at = "idle"
    BY <1>1 DEF BootstrapInv, OneAtATime
  <1>6. CASE /\ repo' = IF g \in written THEN [repo EXCEPT ![g] = plan.before[g]] ELSE repo
             /\ at' = at - 1 /\ UNCHANGED <<applier, outcome, before, written, refused>>
    <2>1. repo' \in Shaped
      BY <1>2, <1>4, <1>6, ShapeIsKept DEF BootstrapTypes, Sound
    <2>2. at' \in 0..3 /\ at' \in 0..4
      BY <1>3, <1>6
    <2>3. BootstrapTypes'
      BY <1>1, <1>2, <1>6, <2>1, <2>2, CountIsKept DEF BootstrapTypes
    <2>4. OneAtATime' /\ Forgotten' /\ \A q \in Appliers : HolderInv(q)'
      BY <1>1, <1>5, <1>6 DEF BootstrapInv, OneAtATime, Forgotten, HolderInv, Holding
    <2>5. \A f \in Managed : repo'[f] = IF f = g /\ g \in written THEN plan.before[f] ELSE repo[f]
      BY <1>2, <1>4, <1>6 DEF BootstrapTypes, Shaped
    <2>6. RollbackInv'
      <3>1. ASSUME NEW f \in Managed \ late
            PROVE  repo'[f] = IF f \in written /\ Place(f) <= at' THEN After(plan)[f] ELSE plan.before[f]
        <4>1. Place(f) \in 1..3 /\ (Place(f) = at => f = g)
          BY Places
        <4> QED
          BY <1>3, <1>4, <1>6, <2>5, <4>1
      <3> QED
        BY <1>1, <1>2, <1>3, <1>6, <2>2, <3>1, CountIsKept DEF RollbackInv
    <2>7. InterruptedApplyIsReversible'
      <3> SUFFICES ASSUME applyJournal.state = "intent", lock = plan, NEW f \in Writes(plan) \ late, ~unread
                   PROVE  Reversible(f)'
        BY <1>1 DEF InterruptedApplyIsReversible
      <3>1. Reversible(f) /\ f \in Managed
        BY <1>3 DEF BootstrapInv, InterruptedApplyIsReversible, Writes
      <3> QED
        BY <1>1, <2>5, <3>1 DEF Reversible
    <2>8. NextPlanIsAccepted'
      BY <1>1, <1>6 DEF NextPlanIsAccepted
    <2> QED
      BY <2>3, <2>4, <2>6, <2>7, <2>8 DEF BootstrapInv
  <1>7. CASE Ends(p, "refused") /\ Forget /\ UNCHANGED repo
    <2>1. /\ applier' \in [Appliers -> Records] /\ applier'[p].at = "idle" /\ outcome' = "refused"
          /\ \A q \in Appliers : q # p => applier'[q] = applier[q]
      BY <1>2, <1>7, ItEnds
    <2>2. /\ repo' \in Shaped
          /\ applyJournal' = NoPlan \/ (applyJournal' \in ApplyJournals /\ Sound(applyJournal'.plan))
      BY <1>1, <1>2, <1>7 DEF BootstrapTypes
    <2>3. BootstrapTypes'
      BY <1>1, <1>2, <1>7, <2>2, CountIsKept, EndIsTyped
    <2>4. InterruptedApplyIsReversible'
      BY <1>1, <1>7 DEF BootstrapInv, InterruptedApplyIsReversible, Reversible
    <2>5. NextPlanIsAccepted'
      BY <2>1 DEF NextPlanIsAccepted
    <2> QED
      BY <1>1, <1>7, <2>1, <2>3, <2>4, <2>5, NobodyIsLeft DEF Forget
  <1> QED
    BY <1>1, <1>6, <1>7

\* At the end of a rollback, everything the human did not touch is as it was.
LEMMA RollbackIsComplete ==
  ASSUME BootstrapInv, NEW p \in Appliers, applier[p].at = "rollback", at = 0
  PROVE  /\ applyJournal \in ApplyJournals /\ Sound(applyJournal.plan)
         /\ \A f \in Managed \ late : repo[f] = applyJournal.plan.before[f]
         /\ count.edits = 0 => late = {}
  <1>1. RollbackInv /\ BootstrapTypes
    BY DEF BootstrapInv
  <1>2. \A f \in Managed : ~(Place(f) <= 0)
    BY Places
  <1> QED
    BY <1>1, <1>2 DEF RollbackInv, BootstrapTypes

LEMMA RollbackDoneStep == ASSUME BootstrapInv, NEW p \in Appliers, RollbackDone(p) PROVE BootstrapInv'
  <1>1. /\ applier[p].at = "rollback" /\ at = 0 /\ (Works \/ Fails) /\ Forget
        /\ UNCHANGED <<repo, lock, backup, late, unread>>
        /\ \/ applyJournal' = [applyJournal EXCEPT !.state = "rolledback"] /\ Ends(p, "rolledback")
           \/ UNCHANGED applyJournal /\ Ends(p, "refused")
    BY DEF RollbackDone
  <1>2. BootstrapTypes
    BY DEF BootstrapInv
  <1>3. PICK how \in {"rolledback", "refused"} : Ends(p, how)
    BY <1>1
  <1>4. /\ applier' \in [Appliers -> Records] /\ applier'[p].at = "idle" /\ outcome' = how
        /\ \A q \in Appliers : q # p => applier'[q] = applier[q]
    BY <1>2, <1>3, ItEnds
  <1>5. /\ applyJournal \in ApplyJournals /\ Sound(applyJournal.plan)
        /\ \A f \in Managed \ late : repo[f] = applyJournal.plan.before[f]
        /\ count.edits = 0 => late = {}
    BY <1>1, RollbackIsComplete
  <1>6. applyJournal' \in ApplyJournals /\ Sound(applyJournal'.plan)
    BY <1>1, <1>5, JournalIsClosed
  <1>7. BootstrapTypes'
    <2>1. repo' \in Shaped
      BY <1>1, <1>2 DEF BootstrapTypes
    <2> QED
      BY <1>1, <1>2, <1>3, <1>6, <2>1, CountIsKept, EndIsTyped
  <1>8. InterruptedApplyIsReversible'
    <2>1. CASE applyJournal' = [applyJournal EXCEPT !.state = "rolledback"]
      <3>1. applyJournal'.state = "rolledback"
        BY <1>5, <2>1 DEF ApplyJournals
      <3> QED
        BY <3>1 DEF InterruptedApplyIsReversible
    <2>2. CASE UNCHANGED applyJournal
      BY <1>1, <2>2 DEF BootstrapInv, InterruptedApplyIsReversible, Reversible
    <2> QED
      BY <1>1, <2>1, <2>2
  <1>9. NextPlanIsAccepted'
    <2>1. ASSUME count'.edits = 0 PROVE ~Conflict(repo')
      <3>1. count.edits = 0
        BY <1>1, <1>2, <2>1, CountIsKept
      <3> QED
        BY <1>1, <1>5, <3>1, BeforeAgrees
    <2> QED
      BY <2>1 DEF NextPlanIsAccepted
  <1> QED
    BY <1>1, <1>4, <1>7, <1>8, <1>9, NobodyIsLeft DEF Forget

LEMMA BootstrapStep == ASSUME BootstrapInv, [BootstrapNext]_uvars PROVE BootstrapInv'
  <1>1. ASSUME NEW p \in Appliers, EngineStep(p) PROVE BootstrapInv'
    BY <1>1, ReplanStep, AcquireStep, VerifyStep, ReadBeforeStep, BackupStep, IntentStep, WriteFileStep,
       CheckFileStep, CompleteStep, UndoFileStep, UndoneStep, PlanRollbackStep, RollbackFileStep,
       RollbackDoneStep DEF EngineStep
  <1>2. CASE UNCHANGED uvars
    <2>1. UNCHANGED <<repo, lock, applyJournal, backup, applier, outcome, before, at, written, refused, late,
                      unread, count>>
      BY <1>2 DEF uvars
    <2>2. ASSUME NEW q \in Appliers PROVE HolderInv(q)'
      BY <2>1 DEF BootstrapInv, HolderInv, FileInv
    <2>3. BootstrapTypes' /\ OneAtATime' /\ Forgotten' /\ RollbackInv'
      BY <2>1 DEF BootstrapInv, BootstrapTypes, OneAtATime, Forgotten, RollbackInv
    <2>4. InterruptedApplyIsReversible' /\ NextPlanIsAccepted'
      BY <2>1 DEF BootstrapInv, InterruptedApplyIsReversible, Reversible, NextPlanIsAccepted
    <2> QED
      BY <2>2, <2>3, <2>4 DEF BootstrapInv
  <1> QED
    BY <1>1, <1>2, DiesStep, ApproveStep, HumanStep DEF BootstrapNext

(* However an apply ends, and wherever it dies, the repository is one that *)
(* the next plan accepts or the bytes it replaced can be restored, and one *)
(* process at a time is past the lock (bootstrap apply.rs, rollback.rs),   *)
(* for any number of appliers, templates, edits, deaths and errors.        *)
THEOREM ApplyIsReversible == BootstrapSpec => []ApplyEndsOrIsReversible
  BY BootstrapStarts, BootstrapStep, BootstrapInvSafe, PTL DEF BootstrapSpec
\* The files change only by the hand of a human, who is counted, or of the one
\* process that writes, undoes or rolls back.
LEMMA WhoWrites ==
  ASSUME BootstrapInv, [BootstrapNext]_uvars, NEW p \in Appliers,
         applier[p].at \in {"write", "undo", "rollback"}, repo' # repo, count'.edits = count.edits
  PROVE  WriteFile(p) \/ UndoFile(p) \/ RollbackFile(p)
  <1>1. \A q \in Appliers : q # p => applier[q].at \notin {"write", "undo", "rollback"}
    <2>1. CASE applier[p].at = "rollback"
      BY <2>1 DEF BootstrapInv, OneAtATime
    <2>2. CASE applier[p].at # "rollback"
      BY <2>2, HolderIsAlone DEF Holding
    <2> QED
      BY <2>1, <2>2
  <1>2. ASSUME NEW f \in Managed, NEW content, HumanEdits(f, content) PROVE FALSE
    BY <1>2 DEF HumanEdits, BootstrapInv, BootstrapTypes
  <1>3. PICK q \in Appliers : WriteFile(q) \/ UndoFile(q) \/ RollbackFile(q)
    BY <1>2
    DEF BootstrapNext, EngineStep, uvars, Dies, Approve, Replan, Acquire, Verify, ReadBefore, Backup, Intent,
        CheckFile, Complete, Undone, PlanRollback, RollbackDone
  <1>4. q = p
    BY <1>1, <1>3 DEF WriteFile, UndoFile, RollbackFile
  <1> QED
    BY <1>3, <1>4

LEMMA ApprovedBytes ==
  ASSUME BootstrapInv, [BootstrapNext]_uvars, NEW p \in Appliers, NEW f \in Managed,
         repo'[f] # repo[f], count'.edits = count.edits, applier[p].at \in {"write", "undo", "rollback"}
  PROVE  LET plan == IF applier[p].at = "rollback" THEN applyJournal.plan ELSE applier[p].plan
         IN  f \in late \/ repo[f] \in {plan.before[f], After(plan)[f]}
  <1>1. WriteFile(p) \/ UndoFile(p) \/ RollbackFile(p)
    BY WhoWrites
  <1>2. repo \in [Managed -> Bytes]
    BY DEF BootstrapInv, BootstrapTypes, Shaped
  <1>3. CASE WriteFile(p)
    <2>1. applier[p].at = "write" /\ at <= 3 /\ f = Order[at]
      BY <1>2, <1>3, Places DEF WriteFile
    <2>2. at \in 1..3 /\ Place(f) = at /\ FileInv(p, f)
      BY <2>1, Places DEF BootstrapInv, HolderInv, Holding
    <2>3. f \notin late => repo[f] = applier[p].plan.before[f]
      BY <2>1, <2>2 DEF FileInv
    <2> QED
      BY <2>1, <2>3
  <1>4. CASE UndoFile(p)
    <2>1. applier[p].at = "undo" /\ f = Order[at] /\ repo[f] = After(applier[p].plan)[f]
      BY <1>2, <1>4 DEF UndoFile
    <2> QED
      BY <2>1
  <1>5. CASE RollbackFile(p)
    <2>1. applier[p].at = "rollback" /\ f = Order[at] /\ repo[f] = After(applyJournal.plan)[f]
      BY <1>2, <1>5 DEF RollbackFile
    <2> QED
      BY <2>1
  <1> QED
    BY <1>1, <1>3, <1>4, <1>5

LEMMA RollbackEndsWell ==
  ASSUME BootstrapInv, [BootstrapNext]_uvars, NEW p \in Appliers,
         applier[p].at = "rollback", outcome' = "rolledback", applier'[p].at = "idle"
  PROVE  \A f \in Writes(applyJournal.plan) \ late : repo[f] = applyJournal.plan.before[f]
  <1>1. \A q \in Appliers : q # p => applier[q].at = "idle"
    BY DEF BootstrapInv, OneAtATime
  <1>2. BootstrapTypes
    BY DEF BootstrapInv
  <1>3. ASSUME NEW q \in Appliers, EngineStep(q) \/ Dies(q) PROVE RollbackDone(q) /\ q = p
    <2>1. q = p
      BY <1>1, <1>3
      DEF EngineStep, Dies, Replan, Acquire, Verify, ReadBefore, Backup, Intent, WriteFile, CheckFile, Complete,
          UndoFile, Undone, PlanRollback, RollbackFile, RollbackDone
    <2>2. RollbackFile(p) \/ RollbackDone(p) \/ Dies(p)
      BY <1>3, <2>1
      DEF EngineStep, Replan, Acquire, Verify, ReadBefore, Backup, Intent, WriteFile, CheckFile, Complete,
          UndoFile, Undone, PlanRollback
    <2>3. ~Dies(p)
      BY DEF Dies, Ends
    <2>4. ~RollbackFile(p)
      BY DEF RollbackFile, Ends
    <2> QED
      BY <2>1, <2>2, <2>3, <2>4
  <1>4. RollbackDone(p)
    BY <1>3 DEF BootstrapNext, uvars, Approve, HumanEdits
  <1>5. at = 0
    BY <1>4 DEF RollbackDone
  <1> QED
    BY <1>5, RollbackIsComplete DEF Writes

(* An apply, its undoing and a rollback replace only bytes of the approved *)
(* plan, unless a human came after the check under the lock, and a         *)
(* rollback that reports success has undone all of it (verify_repository,  *)
(* write_repository, rollback_repository).                                 *)
THEOREM ApprovedBytesChange == BootstrapSpec => OnlyApprovedBytesChange
  <1>1. BootstrapInv /\ [BootstrapNext]_uvars
        => [\A p \in Appliers, f \in Managed :
              repo'[f] # repo[f] /\ count'.edits = count.edits /\ applier[p].at \in {"write", "undo", "rollback"}
                => LET plan == IF applier[p].at = "rollback" THEN applyJournal.plan ELSE applier[p].plan
                   IN  f \in late \/ repo[f] \in {plan.before[f], After(plan)[f]}]_uvars
    BY ApprovedBytes
  <1>2. BootstrapInv /\ [BootstrapNext]_uvars
        => [\A p \in Appliers :
              applier[p].at = "rollback" /\ outcome' = "rolledback" /\ applier'[p].at = "idle"
                => \A f \in Writes(applyJournal.plan) \ late : repo[f] = applyJournal.plan.before[f]]_uvars
    BY RollbackEndsWell
  <1> QED
    BY <1>1, <1>2, BootstrapStarts, BootstrapStep, PTL
    DEF BootstrapSpec, OnlyApprovedBytesChange, EditsSurvive, RollbackRestoresAll
=============================================================================
