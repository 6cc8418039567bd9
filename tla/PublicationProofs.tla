-------------------------- MODULE PublicationProofs --------------------------
(***************************************************************************)
(* Proofs about the reconcile pass, for any files, contents, readers and   *)
(* any number of edits, crashes and rebuilds.                              *)
(***************************************************************************)
EXTENDS Publication, TLAPS

(* Type correctness of an initial state.                                   *)
LEMMA InitTypes == Init => TypeOK
<1> SUFFICES ASSUME Init PROVE TypeOK
  OBVIOUS
<1>1. row \in [Files -> Row] /\ facts \in [Files -> Contents \cup {Absent}]
  BY DEF Init, Row
<1>2. /\ pointer \in [Lanes -> Payloads \cup {NoPointer}]
      /\ installed \in [Lanes -> SUBSET Payloads]
      /\ staged \in [Lanes -> SUBSET Payloads]
      /\ pending \in [Lanes -> SUBSET [seq : Nat, manifest : Payloads \cup {NoManifest}]]
      /\ strays \in [Lanes -> SUBSET Nat]
  BY DEF Init
<1>3. reader \in [Readers -> [phase : {"out", "guarded", "pointed"}, lane : Lanes,
                              gen : Payloads \cup {NoPointer}]]
  <2>1. Away \in [phase : {"out", "guarded", "pointed"}, lane : Lanes,
                  gen : Payloads \cup {NoPointer}]
    BY DEF Away, Lanes
  <2> QED BY <2>1 DEF Init
<1>4. /\ source \in [Files -> Contents \cup {Absent}]
      /\ eventSeq \in Nat /\ seq \in Nat
      /\ outbox \subseteq [seq : Nat, gen : Payloads, state : {"PENDING", "PUBLISHED"}]
      /\ published \subseteq [lane : Lanes, gen : Payloads, revision : Payloads]
  BY DEF Init
<1>5. /\ pc \in Steps /\ at \in Lanes
      /\ hadPointer \in BOOLEAN /\ work \in BOOLEAN
      /\ todo \subseteq Files /\ cur \in Files \cup {NoFile}
      /\ payload \in Payloads \cup {NoPointer}
      /\ result \in Results
  BY DEF Init, Steps, Lanes, Results
<1>6. edits \in 0..MaxEdits /\ crashes \in 0..MaxCrashes /\ rebuilds \in 0..MaxRebuilds
  BY PublicationAssumption DEF Init
<1> QED BY <1>1, <1>2, <1>3, <1>4, <1>5, <1>6 DEF TypeOK

(* What a lane of the pass may be next.                                    *)
LEMMA LaneTypes ==
  ASSUME TypeOK, NEW same \in Steps, NEW then \in Steps, NextLane(same, then)
  PROVE  at' \in Lanes /\ pc' \in Steps
  BY DEF NextLane, TypeOK, Lanes

(* The rendered payload is a payload.                                      *)
LEMMA RenderedType == TypeOK => Rendered \in Payloads
  BY DEF TypeOK, Rendered, Payloads

(* A pass that ends leaves well-typed variables.                           *)
LEMMA EndTypes ==
  ASSUME PublicationAssumption, NEW how \in Results, EndPass(how)
  PROVE  /\ pc' \in Steps /\ at' \in Lanes /\ seq' \in Nat
         /\ hadPointer' \in BOOLEAN /\ work' \in BOOLEAN
         /\ todo' \subseteq Files /\ cur' \in Files \cup {NoFile}
         /\ payload' \in Payloads \cup {NoPointer}
         /\ result' \in Results
  BY DEF EndPass, Steps, Lanes

(* Something is being published: what TypeOK needs to be inductive, because *)
(* the staging directories and the outbox only ever hold payloads.          *)
HasPayload == pc \in PublishSteps => payload \in Payloads

(* Every step of the specification keeps the types.                        *)
LEMMA TypeStep == TypeOK /\ HasPayload /\ [Next]_vars => TypeOK'
<1> SUFFICES ASSUME TypeOK, HasPayload, [Next]_vars PROVE TypeOK'
  OBVIOUS
<1> USE PublicationAssumption
<1>1. ASSUME NEW f \in Files, NEW c \in Contents \cup {Absent}, Edit(f, c) PROVE TypeOK'
  BY <1>1 DEF Edit, TypeOK, store, disk, local
<1>2. CASE Crash
  <2>1. EndPass("exit")
    BY <1>2 DEF Crash
  <2> QED BY <1>2, <2>1, EndTypes DEF Results, Crash, TypeOK, store, disk
<1>3. ASSUME NEW full \in BOOLEAN, StartPass(full) PROVE TypeOK'
  <2>1. \A f \in Files : Invalidated(row[f]) \in Row
    BY DEF TypeOK, Row, Invalidated
  <2>2. row' \in [Files -> Row] /\ rebuilds' \in 0..MaxRebuilds /\ result' \in Results
    BY <1>3, <2>1 DEF StartPass, TypeOK, Results
  <2> QED BY <1>3, <2>2 DEF StartPass, TypeOK, disk, Steps, Lanes
<1>4. CASE RecoverNothing
  BY <1>4 DEF RecoverNothing, NextLane, TypeOK, store, disk, env, Steps, Lanes
<1>5. CASE RecoverInstall
  <2>1. payload' \in Payloads /\ installed' \in [Lanes -> SUBSET Payloads]
        /\ staged' \in [Lanes -> SUBSET Payloads]
        /\ pending' \in [Lanes -> SUBSET [seq : Nat, manifest : Payloads \cup {NoManifest}]]
        /\ strays' \in [Lanes -> SUBSET Nat]
    <3>1. CASE \E g \in staged[at] :
            /\ payload' = g
            /\ installed' = [installed EXCEPT ![at] = @ \cup {g}]
            /\ staged' = [staged EXCEPT ![at] = IF g \in installed[at] THEN @ ELSE @ \ {g}]
            /\ UNCHANGED <<pending, strays>>
      BY <3>1 DEF TypeOK
    <3>2. CASE \E d \in SealedPending(at) :
            /\ staged[at] = {}
            /\ payload' = d.manifest
            /\ strays' = [strays EXCEPT ![at] = @ \cup {d.seq}]
            /\ pending' = [pending EXCEPT ![at] = IF d.seq \in strays[at] THEN @ ELSE @ \ {d}]
            /\ UNCHANGED <<installed, staged>>
      BY <3>2 DEF TypeOK, SealedPending
    <3> QED BY <1>5, <3>1, <3>2 DEF RecoverInstall
  <2> QED BY <1>5, <2>1 DEF RecoverInstall, TypeOK, store, env, Steps
<1>6. CASE RecoverPoint
  BY <1>6 DEF RecoverPoint, NextLane, TypeOK, store, env, Steps, Lanes
<1>7. CASE RecoverDiscard
  BY <1>7 DEF RecoverDiscard, NextLane, TypeOK, store, env, Steps, Lanes
<1>8. CASE Inventory
  <2>1. PICK g \in Generations : row' = [f \in Files |-> Reconciled(f, g)]
    BY <1>8 DEF Inventory
  <2>2. g \in Nat
    BY DEF Generations
  <2>3. ASSUME NEW f \in Files PROVE Reconciled(f, g) \in Row
    <3>1. row[f] \in Row /\ source[f] \in Contents \cup {Absent}
      BY DEF TypeOK
    <3>2. [row[f] EXCEPT !.observed = source[f], !.desired = g] \in Row
      BY <2>2, <3>1 DEF Row
    <3> QED BY <3>1, <3>2 DEF Reconciled
  <2>4. row' \in [Files -> Row]
    BY <2>1, <2>3
  <2> QED BY <1>8, <2>4 DEF Inventory, TypeOK, disk, env, Steps
<1>9. ASSUME NEW f \in Files, AnalyzeFile(f) PROVE TypeOK'
  <2>1. facts' \in [Files -> Contents \cup {Absent}]
    BY <1>9 DEF AnalyzeFile, ReplaceFileFacts, TypeOK, AnalysisOf, Row
  <2> QED BY <1>9, <2>1 DEF AnalyzeFile, ReplaceFileFacts, TypeOK, disk, env, Steps
<1>10. CASE AckGeneration
  <2>1. row' = [row EXCEPT ![cur] = [row[cur] EXCEPT !.indexed = row[cur].desired]]
    BY <1>10 DEF AckGeneration
  <2>2. ASSUME cur \in Files PROVE [row[cur] EXCEPT !.indexed = row[cur].desired] \in Row
    BY <2>2 DEF TypeOK, Row
  <2>3. row' \in [Files -> Row]
    BY <2>1, <2>2 DEF TypeOK
  <2> QED BY <1>10, <2>3 DEF AckGeneration, TypeOK, disk, env, Steps
<1>11. CASE AnalysisRefused \/ AnalysisCancelled
  <2>1. EndPass("retry") \/ EndPass("exit")
    BY <1>11 DEF AnalysisRefused, AnalysisCancelled
  <2> QED BY <1>11, <2>1, EndTypes DEF Results, AnalysisRefused, AnalysisCancelled, TypeOK, store, disk, env
<1>12. CASE EndEmpty
  <2>1. EndPass("exit")
    BY <1>12 DEF EndEmpty
  <2> QED BY <1>12, <2>1, EndTypes DEF Results, EndEmpty, TypeOK, store, disk, env
<1>13. CASE EndUpToDate
  <2>1. EndPass("ok") \/ EndPass("exit")
    BY <1>13 DEF EndUpToDate
  <2> QED BY <1>13, <2>1, EndTypes DEF Results, EndUpToDate, TypeOK, store, disk, env
<1>14. CASE StartPublish
  BY <1>14, RenderedType DEF StartPublish, TypeOK, store, disk, env, Steps, Lanes
<1>15. CASE StageBegin
  BY <1>15 DEF StageBegin, TypeOK, store, local, env, Steps
<1>16. CASE StageManifest
  <2>1. pc' \in Steps
    BY <1>16 DEF StageManifest, Steps
  <2>2. pending' \in [Lanes -> SUBSET [seq : Nat, manifest : Payloads \cup {NoManifest}]]
    <3>1. [seq |-> seq, manifest |-> payload] \in [seq : Nat, manifest : Payloads \cup {NoManifest}]
      BY <1>16 DEF StageManifest, TypeOK, HasPayload, PublishSteps
    <3> QED BY <1>16, <3>1 DEF StageManifest, TypeOK, PendingOf
  <2> QED BY <1>16, <2>1, <2>2 DEF StageManifest, TypeOK, store, local, env
<1>17. CASE StageRename
  <2>1. pc' \in Steps /\ at' \in Lanes
    BY <1>17 DEF StageRename, Steps, Lanes, TypeOK
  <2>2. staged' \in [Lanes -> SUBSET Payloads]
    BY <1>17 DEF StageRename, TypeOK, HasPayload, PublishSteps
  <2>3. pending' \in [Lanes -> SUBSET [seq : Nat, manifest : Payloads \cup {NoManifest}]]
    BY <1>17 DEF StageRename, TypeOK, PendingOf
  <2> QED BY <1>17, <2>1, <2>2, <2>3 DEF StageRename, TypeOK, store, env
<1>19. CASE CommitIntent
  BY <1>19 DEF CommitIntent, HasPayload, PublishSteps, TypeOK, disk, local, env, Steps
<1>20. CASE BumpEventSeq
  BY <1>20 DEF BumpEventSeq, TypeOK, disk, env, Steps, Lanes
<1>21. CASE LockLane
  <2>1. EndPass("exit") \/ (pc' = "install" /\ UNCHANGED <<local, result>>)
    BY <1>21 DEF LockLane
  <2> QED BY <1>21, <2>1, EndTypes DEF Results, LockLane, TypeOK, store, disk, local, env, Steps
<1>22. CASE InstallGeneration
  <2>1. pc' \in Steps
    BY <1>22 DEF InstallGeneration, Steps
  <2>2. staged' \in [Lanes -> SUBSET Payloads] /\ installed' \in [Lanes -> SUBSET Payloads]
    BY <1>22 DEF InstallGeneration, TypeOK, HasPayload, PublishSteps
  <2> QED BY <1>22, <2>1, <2>2 DEF InstallGeneration, TypeOK, store, local, env
<1>23. CASE MovePointer
  BY <1>23 DEF MovePointer, NextLane, TypeOK, store, env, Steps, Lanes
<1>24. CASE MarkPublished
  <2>1. pc' \in Steps
    BY <1>24 DEF MarkPublished, Steps
  <2>2. \A i \in outbox : [i EXCEPT !.state = "PUBLISHED"]
                           \in [seq : Nat, gen : Payloads, state : {"PENDING", "PUBLISHED"}]
    BY DEF TypeOK
  <2>3. outbox' \subseteq [seq : Nat, gen : Payloads, state : {"PENDING", "PUBLISHED"}]
    BY <1>24, <2>2 DEF MarkPublished, TypeOK
  <2> QED BY <1>24, <2>1, <2>3 DEF MarkPublished, TypeOK, disk, local, env
<1>25. CASE RecordGenerations
  <2>1. EndPass("ok")
    BY <1>25 DEF RecordGenerations
  <2>2. payload \in Payloads
    BY <1>25 DEF RecordGenerations, TypeOK, HasPayload, PublishSteps
  <2>3. published' \subseteq [lane : Lanes, gen : Payloads, revision : Payloads]
    BY <1>25, <2>2 DEF RecordGenerations, TypeOK
  <2> QED BY <1>25, <2>1, <2>3, EndTypes DEF Results, RecordGenerations, TypeOK, disk, env
<1>28. ASSUME NEW r \in Readers, NEW l \in Lanes, ReaderGuard(r, l) PROVE TypeOK'
  BY <1>28 DEF ReaderGuard, TypeOK, store, disk, local, env
<1>29. ASSUME NEW r \in Readers, ReaderPoint(r) PROVE TypeOK'
  BY <1>29 DEF ReaderPoint, TypeOK, store, disk, local, env
<1>30. ASSUME NEW r \in Readers, ReaderRelease(r) PROVE TypeOK'
  BY <1>30 DEF ReaderRelease, Away, TypeOK, store, disk, local, env, Lanes
<1>31. CASE UNCHANGED vars
  BY <1>31 DEF vars, TypeOK, store, disk, local, env
<1> QED
  BY <1>1, <1>2, <1>3, <1>4, <1>5, <1>6, <1>7, <1>8, <1>9, <1>10, <1>11, <1>12, <1>13, <1>14,
     <1>15, <1>16, <1>17, <1>19, <1>20, <1>21, <1>22, <1>23, <1>24, <1>25, <1>28, <1>29, <1>30,
     <1>31
  DEF Next, PassStep

(* A pass that enters or is in publication has rendered its payload.       *)
LEMMA PayloadStep == TypeOK /\ HasPayload /\ [Next]_vars => HasPayload'
<1> SUFFICES ASSUME TypeOK, HasPayload, [Next]_vars PROVE HasPayload'
  OBVIOUS
<1> USE DEF HasPayload, PublishSteps
<1>1. ASSUME pc' = pc, payload' = payload PROVE HasPayload'
  BY <1>1
<1>2. ASSUME pc' \notin PublishSteps PROVE HasPayload'
  BY <1>2
<1>3. ASSUME pc \in PublishSteps, payload' = payload PROVE HasPayload'
  BY <1>3
<1>4. ASSUME NEW how, EndPass(how) PROVE HasPayload'
  BY <1>4 DEF EndPass
<1>5. ASSUME NEW f \in Files, NEW c \in Contents \cup {Absent}, Edit(f, c) PROVE HasPayload'
  BY <1>1, <1>5 DEF Edit, local
<1>6. CASE Crash \/ AnalysisRefused \/ AnalysisCancelled \/ EndEmpty \/ EndUpToDate \/ RecordGenerations
  BY <1>4, <1>6 DEF Crash, AnalysisRefused, AnalysisCancelled, EndEmpty, EndUpToDate, RecordGenerations
<1>7. ASSUME NEW full \in BOOLEAN, StartPass(full) PROVE HasPayload'
  BY <1>2, <1>7 DEF StartPass
<1>8. CASE RecoverNothing \/ RecoverInstall \/ RecoverPoint \/ RecoverDiscard \/ Inventory
  BY <1>2, <1>8 DEF RecoverNothing, RecoverInstall, RecoverPoint, RecoverDiscard, Inventory, NextLane
<1>9. ASSUME NEW f \in Files, AnalyzeFile(f) PROVE HasPayload'
  BY <1>2, <1>9 DEF AnalyzeFile, ReplaceFileFacts
<1>10. CASE AckGeneration
  BY <1>2, <1>10 DEF AckGeneration
<1>11. CASE StartPublish
  BY <1>11, RenderedType DEF StartPublish
<1>12. CASE StageBegin \/ StageManifest \/ StageRename \/ CommitIntent \/ BumpEventSeq
  BY <1>3, <1>12 DEF StageBegin, StageManifest, StageRename, CommitIntent, BumpEventSeq, local
<1>13. CASE LockLane
  BY <1>3, <1>4, <1>13 DEF LockLane, local
<1>14. CASE InstallGeneration \/ MovePointer \/ MarkPublished
  BY <1>3, <1>14 DEF InstallGeneration, MovePointer, MarkPublished, local
<1>15. ASSUME NEW r \in Readers,
              (\E l \in Lanes : ReaderGuard(r, l)) \/ ReaderPoint(r) \/ ReaderRelease(r)
       PROVE  HasPayload'
  BY <1>1, <1>15 DEF ReaderGuard, ReaderPoint, ReaderRelease, local
<1>16. CASE UNCHANGED vars
  BY <1>1, <1>16 DEF vars, local
<1> QED
  BY <1>5, <1>6, <1>7, <1>8, <1>9, <1>10, <1>11, <1>12, <1>13, <1>14, <1>15, <1>16
  DEF Next, PassStep

(* Type correctness: the reconcile pass, recovery, publication and readers *)
(* only ever produce values of the declared kinds (serve.rs).              *)
THEOREM PublicationTypes == Spec => []TypeOK
<1>1. Init => TypeOK /\ HasPayload
  BY InitTypes DEF Init, HasPayload, PublishSteps
<1>2. (TypeOK /\ HasPayload) /\ [Next]_vars => (TypeOK /\ HasPayload)'
  BY TypeStep, PayloadStep
<1> QED BY <1>1, <1>2, PTL DEF Spec

-----------------------------------------------------------------------------
(* The facts, the dirty files and the payload of a pass: together they make *)
(* CleanFileIsIndexed and PublishesTheInventory inductive.                  *)
IndexInv ==
    /\ \A f \in Files : row[f].indexed <= row[f].desired
    /\ CleanFileIsIndexed
    /\ pc \in {"analyze", "ack"} => todo = {f \in Files : Dirty(f)}
    /\ pc = "ack" => cur \in Files /\ facts[cur] = AnalysisOf(cur, row[cur].observed)
    /\ PublishesTheInventory

(* A step that touches neither the file rows nor the facts, and keeps the  *)
(* place and the data of the pass or leaves analysis, keeps IndexInv.      *)
LEMMA IndexFrame ==
  ASSUME IndexInv, row' = row, facts' = facts,
         \/ pc' = pc /\ payload' = payload /\ todo' = todo /\ cur' = cur
         \/ pc' \notin PublishSteps \cup {"analyze", "ack"}
         \/ pc \in PublishSteps /\ pc' \in PublishSteps /\ payload' = payload
  PROVE  IndexInv'
<1>1. "analyze" \notin PublishSteps /\ "ack" \notin PublishSteps
  BY DEF PublishSteps
<1>2. CleanFileIsIndexed' /\ \A f \in Files : row'[f].indexed <= row'[f].desired
  BY DEF IndexInv, CleanFileIsIndexed, Dirty, AnalysisOf
<1>3. {f \in Files : Dirty(f)}' = {f \in Files : Dirty(f)}
  BY DEF Dirty
<1>4. (pc \in {"analyze", "ack"} => todo = {f \in Files : Dirty(f)})'
  BY <1>1, <1>3 DEF IndexInv
<1>5. (pc = "ack" => cur \in Files /\ facts[cur] = AnalysisOf(cur, row[cur].observed))'
  BY <1>1 DEF IndexInv, AnalysisOf
<1>6. PublishesTheInventory'
  BY <1>1 DEF IndexInv, PublishesTheInventory
<1> QED BY <1>2, <1>4, <1>5, <1>6 DEF IndexInv

(* A full rebuild only ever makes a row dirtier.                           *)
LEMMA InvalidatedRow ==
  ASSUME NEW r \in Row, r.indexed <= r.desired
  PROVE  /\ Invalidated(r).observed = r.observed
         /\ Invalidated(r).indexed = r.indexed
         /\ Invalidated(r).indexed <= Invalidated(r).desired
         /\ Invalidated(r) = r \/ Invalidated(r).desired > r.indexed
  BY DEF Invalidated, Row

(* The inventory leaves a row as it is or makes it dirty.                  *)
LEMMA ReconciledRow ==
  ASSUME TypeOK, NEW f \in Files, NEW g \in Nat, row[f].desired < g,
         row[f].indexed <= row[f].desired
  PROVE  /\ Reconciled(f, g).indexed <= Reconciled(f, g).desired
         /\ Reconciled(f, g) = row[f] \/ Reconciled(f, g).desired > Reconciled(f, g).indexed
<1>1. row[f] \in Row
  BY DEF TypeOK
<1>2. LET n == [row[f] EXCEPT !.observed = source[f], !.desired = g]
      IN  n.indexed = row[f].indexed /\ n.desired = g
  BY <1>1 DEF Row
<1>3. row[f].indexed \in Nat /\ row[f].desired \in Nat
  BY <1>1 DEF Row
<1> QED BY <1>2, <1>3 DEF Reconciled

(* Analysing or forgetting a file leaves the facts of its observed content. *)
LEMMA AnalysedFacts ==
  ASSUME TypeOK, NEW f \in Files, AnalyzeFile(f)
  PROVE  facts' = [facts EXCEPT ![f] = AnalysisOf(f, row[f].observed)]
<1>1. (IF row[f].observed = Absent THEN Absent ELSE AnalysisOf(f, source[f]))
        = AnalysisOf(f, row[f].observed)
  BY DEF AnalyzeFile, ReplaceFileFacts, Analysable, AnalysisOf
<1> QED BY <1>1 DEF AnalyzeFile, ReplaceFileFacts

(* When nothing is dirty the rendered payload is the inventory.            *)
LEMMA RenderedInventory ==
  ASSUME TypeOK, CleanFileIsIndexed, NEW f \in Files, ~Dirty(f)
  PROVE  Rendered[f] = IF row[f].observed = Absent THEN Absent
                       ELSE IF f \in Supported THEN row[f].observed ELSE Listed
  BY DEF CleanFileIsIndexed, Rendered, AnalysisOf

LEMMA IndexStep == TypeOK /\ IndexInv /\ [Next]_vars => IndexInv'
<1> SUFFICES ASSUME TypeOK, IndexInv, [Next]_vars PROVE IndexInv'
  OBVIOUS
<1>1. ASSUME NEW f \in Files, NEW c \in Contents \cup {Absent}, Edit(f, c) PROVE IndexInv'
  BY <1>1, IndexFrame DEF Edit, store, local
<1>2. ASSUME NEW how, EndPass(how), UNCHANGED <<row, facts>> PROVE IndexInv'
  BY <1>2, IndexFrame DEF EndPass, PublishSteps
<1>3. CASE Crash \/ AnalysisRefused \/ AnalysisCancelled \/ EndEmpty \/ EndUpToDate \/ RecordGenerations
  BY <1>2, <1>3 DEF Crash, AnalysisRefused, AnalysisCancelled, EndEmpty, EndUpToDate, RecordGenerations, store
<1>4. ASSUME NEW full \in BOOLEAN, StartPass(full) PROVE IndexInv'
  <2>1. CASE ~full
    BY <1>4, <2>1, IndexFrame DEF StartPass, PublishSteps
  <2>2. CASE full
    <3>1. /\ row' = [f \in Files |-> Invalidated(row[f])]
          /\ pc' = "recover" /\ facts' = facts
      BY <1>4, <2>2 DEF StartPass
    <3>2. ASSUME NEW f \in Files
          PROVE  /\ row'[f].indexed <= row'[f].desired
                 /\ ~Dirty(f)' => facts'[f] = AnalysisOf(f, row'[f].observed)
      <4>1. row[f] \in Row /\ row[f].indexed <= row[f].desired /\ row'[f] = Invalidated(row[f])
        BY <3>1 DEF TypeOK, IndexInv
      <4>2. row[f].indexed \in Nat /\ row[f].desired \in Nat
        BY <4>1 DEF Row
      <4> QED BY <3>1, <4>1, <4>2, InvalidatedRow DEF Dirty, IndexInv, CleanFileIsIndexed
    <3>3. CleanFileIsIndexed'
      BY <3>2 DEF CleanFileIsIndexed, AnalysisOf
    <3> QED BY <3>1, <3>2, <3>3 DEF IndexInv, PublishesTheInventory, PublishSteps
  <2> QED BY <2>1, <2>2
<1>5. CASE RecoverNothing \/ RecoverInstall \/ RecoverPoint \/ RecoverDiscard
  <2>1. row' = row /\ facts' = facts /\ pc' \in {"recover", "inventory", "recoverPoint"}
    BY <1>5 DEF RecoverNothing, RecoverInstall, RecoverPoint, RecoverDiscard, NextLane, store
  <2> QED BY <2>1, IndexFrame DEF PublishSteps
<1>6. CASE Inventory
  <2>1. PICK g \in Generations : IsNextGeneration(g) /\ row' = [f \in Files |-> Reconciled(f, g)]
    BY <1>6 DEF Inventory
  <2>2. g \in Nat
    BY DEF Generations
  <2>3. pc' = "analyze" /\ facts' = facts /\ todo' = {f \in Files : row'[f].desired > row'[f].indexed}
    BY <1>6 DEF Inventory
  <2>4. ASSUME NEW f \in Files
        PROVE  /\ row'[f].indexed <= row'[f].desired
               /\ row'[f] = row[f] \/ row'[f].desired > row'[f].indexed
    BY <2>1, <2>2, ReconciledRow DEF IsNextGeneration, IndexInv
  <2>5. CleanFileIsIndexed'
    BY <2>3, <2>4 DEF CleanFileIsIndexed, IndexInv, Dirty, AnalysisOf
  <2>6. todo' = {f \in Files : Dirty(f)}'
    BY <2>3 DEF Dirty
  <2> QED BY <2>3, <2>4, <2>5, <2>6 DEF IndexInv, PublishesTheInventory, PublishSteps
<1>7. ASSUME NEW f \in Files, AnalyzeFile(f) PROVE IndexInv'
  <2>1. /\ row' = row /\ todo' = todo /\ cur' = f /\ pc' = "ack"
        /\ facts' = [facts EXCEPT ![f] = AnalysisOf(f, row[f].observed)]
    BY <1>7, AnalysedFacts DEF AnalyzeFile, ReplaceFileFacts
  <2>2. todo = {h \in Files : Dirty(h)}
    BY <1>7 DEF AnalyzeFile, ReplaceFileFacts, IndexInv
  <2>3. CleanFileIsIndexed'
    BY <2>1 DEF CleanFileIsIndexed, IndexInv, Dirty, AnalysisOf, TypeOK
  <2>4. todo' = {h \in Files : Dirty(h)}'
    BY <2>1, <2>2 DEF Dirty
  <2>5. facts'[f] = AnalysisOf(f, row'[f].observed)
    BY <2>1 DEF TypeOK
  <2> QED BY <2>1, <2>3, <2>4, <2>5 DEF IndexInv, PublishesTheInventory, PublishSteps, AnalysisOf
<1>8. CASE AckGeneration
  <2>1. /\ pc' = "analyze" /\ facts' = facts /\ todo' = todo \ {cur}
        /\ row' = [row EXCEPT ![cur] = [row[cur] EXCEPT !.indexed = row[cur].desired]]
    BY <1>8 DEF AckGeneration
  <2>2. cur \in Files /\ facts[cur] = AnalysisOf(cur, row[cur].observed)
        /\ todo = {f \in Files : Dirty(f)}
    BY <1>8 DEF AckGeneration, IndexInv
  <2>3. /\ row'[cur].indexed = row[cur].desired /\ row'[cur].desired = row[cur].desired
        /\ row'[cur].observed = row[cur].observed /\ row[cur].desired \in Nat
    <3>1. row'[cur] = [row[cur] EXCEPT !.indexed = row[cur].desired] /\ row[cur] \in Row
      BY <2>1, <2>2 DEF TypeOK
    <3> QED BY <3>1 DEF Row
  <2>4. \A f \in Files \ {cur} : row'[f] = row[f]
    BY <2>1 DEF TypeOK
  <2>5. CleanFileIsIndexed' /\ \A f \in Files : row'[f].indexed <= row'[f].desired
    BY <2>1, <2>2, <2>3, <2>4 DEF CleanFileIsIndexed, IndexInv, Dirty, AnalysisOf
  <2>6. ASSUME NEW f \in Files PROVE (f \in todo \ {cur}) <=> row'[f].desired > row'[f].indexed
    BY <2>2, <2>3, <2>4 DEF Dirty
  <2>7. todo' = {f \in Files : Dirty(f)}'
    BY <2>1, <2>2, <2>6 DEF Dirty
  <2> QED BY <2>1, <2>5, <2>7 DEF IndexInv, PublishesTheInventory, PublishSteps
<1>9. CASE StartPublish
  <2>1. /\ row' = row /\ facts' = facts /\ payload' = Rendered /\ pc' = "begin"
        /\ \A f \in Files : ~Dirty(f)
    BY <1>9 DEF StartPublish, store, Analysed, IndexInv
  <2>2. PublishesTheInventory'
    BY <2>1, RenderedInventory DEF PublishesTheInventory, IndexInv
  <2>3. CleanFileIsIndexed' /\ \A f \in Files : row'[f].indexed <= row'[f].desired
    BY <2>1 DEF IndexInv, CleanFileIsIndexed, Dirty, AnalysisOf
  <2> QED BY <2>1, <2>2, <2>3 DEF IndexInv
<1>10. CASE \/ StageBegin \/ StageManifest \/ StageRename \/ CommitIntent \/ BumpEventSeq
            \/ InstallGeneration \/ MovePointer \/ MarkPublished
  <2>1. /\ row' = row /\ facts' = facts /\ payload' = payload
        /\ pc \in PublishSteps /\ pc' \in PublishSteps
    BY <1>10 DEF StageBegin, StageManifest, StageRename, CommitIntent, BumpEventSeq,
       InstallGeneration, MovePointer, MarkPublished, NextLane, store, local, PublishSteps
  <2> QED BY <2>1, IndexFrame
<1>11. CASE LockLane
  <2>1. row' = row /\ facts' = facts
    BY <1>11 DEF LockLane, store
  <2>2. CASE HasReader(at)
    BY <1>2, <1>11, <2>1, <2>2 DEF LockLane
  <2>3. CASE ~HasReader(at)
    BY <1>11, <2>1, <2>3, IndexFrame DEF LockLane, local, PublishSteps
  <2> QED BY <2>2, <2>3
<1>12. ASSUME NEW r \in Readers,
              (\E l \in Lanes : ReaderGuard(r, l)) \/ ReaderPoint(r) \/ ReaderRelease(r)
       PROVE  IndexInv'
  BY <1>12, IndexFrame DEF ReaderGuard, ReaderPoint, ReaderRelease, store, local
<1>13. CASE UNCHANGED vars
  BY <1>13, IndexFrame DEF vars, store, local
<1> QED
  BY <1>1, <1>3, <1>4, <1>5, <1>6, <1>7, <1>8, <1>9, <1>10, <1>11, <1>12, <1>13
  DEF Next, PassStep

LEMMA IndexInitially == Init => IndexInv
<1> SUFFICES ASSUME Init PROVE IndexInv
  OBVIOUS
<1>1. \A f \in Files : /\ row[f].indexed = 0 /\ row[f].desired = 0
                      /\ row[f].observed = Absent /\ facts[f] = Absent
  BY DEF Init
<1> QED BY <1>1 DEF Init, IndexInv, CleanFileIsIndexed, PublishesTheInventory, PublishSteps,
                    AnalysisOf

-----------------------------------------------------------------------------
(* The guards of the lanes: the pass points only at what it has installed,  *)
(* recovery only where there is no pointer, and a reader that is inside a   *)
(* lane keeps the writer out and has a pointer to follow.                   *)
LaneInv ==
    /\ pc = "point" => payload \in installed[at]
    /\ pc = "recoverPoint" => pointer[at] = NoPointer
    /\ pc \in {"install", "point"} => ~HasReader(at)
    /\ \A r \in Readers : reader[r].phase # "out" => pointer[reader[r].lane] # NoPointer
    /\ GuardedReaderIsUndisturbed

(* A step that touches neither pointers nor readers, does not remove a     *)
(* generation and is not at a guarded step afterwards keeps LaneInv.       *)
LEMMA LaneFrame ==
  ASSUME LaneInv, pointer' = pointer, reader' = reader,
         \/ pc' \notin {"point", "recoverPoint", "install"}
         \/ pc' = pc /\ at' = at /\ payload' = payload /\ installed' = installed
  PROVE  LaneInv'
  BY DEF LaneInv, GuardedReaderIsUndisturbed, HasReader

LEMMA LaneStep == TypeOK /\ HasPayload /\ LaneInv /\ [Next]_vars => LaneInv'
<1> SUFFICES ASSUME TypeOK, HasPayload, LaneInv, [Next]_vars PROVE LaneInv'
  OBVIOUS
<1>1. ASSUME NEW f \in Files, NEW c \in Contents \cup {Absent}, Edit(f, c) PROVE LaneInv'
  BY <1>1, LaneFrame DEF Edit, disk, local
<1>2. ASSUME NEW how, EndPass(how), UNCHANGED <<pointer, reader>> PROVE LaneInv'
  BY <1>2, LaneFrame DEF EndPass
<1>3. CASE Crash \/ AnalysisRefused \/ AnalysisCancelled \/ EndEmpty \/ EndUpToDate \/ RecordGenerations
  BY <1>2, <1>3 DEF Crash, AnalysisRefused, AnalysisCancelled, EndEmpty, EndUpToDate, RecordGenerations, disk
<1>4. ASSUME NEW full \in BOOLEAN, StartPass(full) PROVE LaneInv'
  BY <1>4, LaneFrame DEF StartPass, disk
<1>5. CASE RecoverNothing \/ RecoverDiscard \/ Inventory
  BY <1>5, LaneFrame DEF RecoverNothing, RecoverDiscard, Inventory, NextLane, disk
<1>6. CASE RecoverInstall
  <2>1. /\ pointer' = pointer /\ reader' = reader /\ at' = at /\ pc' = "recoverPoint"
        /\ pointer[at] = NoPointer
    BY <1>6 DEF RecoverInstall
  <2> QED BY <2>1 DEF LaneInv, GuardedReaderIsUndisturbed
<1>7. CASE RecoverPoint
  <2>1. /\ pointer' = [pointer EXCEPT ![at] = payload] /\ reader' = reader
        /\ pc' \in {"recover", "inventory"} /\ pointer[at] = NoPointer
    BY <1>7 DEF RecoverPoint, NextLane, LaneInv
  <2>2. ASSUME NEW r \in Readers, reader[r].phase # "out"
        PROVE  pointer'[reader[r].lane] = pointer[reader[r].lane]
    BY <2>1, <2>2 DEF LaneInv, TypeOK
  <2> QED BY <2>1, <2>2 DEF LaneInv, GuardedReaderIsUndisturbed
<1>8. ASSUME NEW f \in Files, AnalyzeFile(f) PROVE LaneInv'
  BY <1>8, LaneFrame DEF AnalyzeFile, ReplaceFileFacts, disk
<1>9. CASE AckGeneration \/ StartPublish
  BY <1>9, LaneFrame DEF AckGeneration, StartPublish, disk
<1>10. CASE \/ StageBegin \/ StageManifest \/ StageRename \/ CommitIntent \/ BumpEventSeq
            \/ MarkPublished
  BY <1>10, LaneFrame DEF StageBegin, StageManifest, StageRename, CommitIntent, BumpEventSeq,
     MarkPublished, disk
<1>11. CASE LockLane
  <2>1. CASE HasReader(at)
    BY <1>2, <1>11, <2>1 DEF LockLane, disk
  <2>2. CASE ~HasReader(at)
    <3>1. /\ pointer' = pointer /\ reader' = reader /\ at' = at /\ pc' = "install"
      BY <1>11, <2>2 DEF LockLane, disk, local
    <3>2. ~HasReader(at)'
      BY <2>2, <3>1 DEF HasReader
    <3> QED BY <3>1, <3>2 DEF LaneInv, GuardedReaderIsUndisturbed
  <2> QED BY <2>1, <2>2
<1>12. CASE InstallGeneration
  <2>1. /\ pointer' = pointer /\ reader' = reader /\ at' = at /\ pc' = "point" /\ pc = "install"
        /\ payload' = payload /\ installed' = [installed EXCEPT ![at] = @ \cup {payload}]
    BY <1>12 DEF InstallGeneration, local
  <2>2. payload' \in installed'[at']
    BY <2>1 DEF TypeOK
  <2>3. ~HasReader(at)'
    BY <2>1 DEF LaneInv, HasReader
  <2> QED BY <2>1, <2>2, <2>3 DEF LaneInv, GuardedReaderIsUndisturbed
<1>13. CASE MovePointer
  <2>1. /\ pointer' = [pointer EXCEPT ![at] = payload] /\ reader' = reader
        /\ pc' \in {"lock", "mark"} /\ ~HasReader(at)
    BY <1>13 DEF MovePointer, NextLane, LaneInv
  <2>2. ASSUME NEW r \in Readers, reader[r].phase # "out"
        PROVE  pointer'[reader[r].lane] = pointer[reader[r].lane]
    BY <2>1, <2>2 DEF HasReader, TypeOK
  <2> QED BY <2>1, <2>2 DEF LaneInv, GuardedReaderIsUndisturbed
<1>14. ASSUME NEW r \in Readers, NEW l \in Lanes, ReaderGuard(r, l) PROVE LaneInv'
  <2>1. /\ pointer' = pointer /\ pc' = pc /\ at' = at /\ payload' = payload /\ installed' = installed
        /\ reader' = [reader EXCEPT ![r] = [phase |-> "guarded", lane |-> l, gen |-> NoPointer]]
        /\ pointer[l] # NoPointer /\ ~WriterHolds(l)
    BY <1>14 DEF ReaderGuard, disk, local
  <2>2. reader'[r] = [phase |-> "guarded", lane |-> l, gen |-> NoPointer]
        /\ \A q \in Readers \ {r} : reader'[q] = reader[q]
    BY <2>1 DEF TypeOK
  <2>3. reader'[r].phase = "guarded" /\ reader'[r].lane = l
    BY <2>2
  <2>4. (pc \in {"install", "point"} => ~HasReader(at))'
    BY <2>1, <2>2, <2>3 DEF LaneInv, HasReader, WriterHolds
  <2> QED BY <2>1, <2>2, <2>3, <2>4 DEF LaneInv, GuardedReaderIsUndisturbed
<1>15. ASSUME NEW r \in Readers, ReaderPoint(r) PROVE LaneInv'
  <2>1. /\ pointer' = pointer /\ pc' = pc /\ at' = at /\ payload' = payload /\ installed' = installed
        /\ reader[r].phase = "guarded"
        /\ reader' = [reader EXCEPT ![r] = [phase |-> "pointed", lane |-> reader[r].lane,
                                            gen |-> pointer[reader[r].lane]]]
    BY <1>15 DEF ReaderPoint, disk, local
  <2>2. reader'[r] = [phase |-> "pointed", lane |-> reader[r].lane, gen |-> pointer[reader[r].lane]]
        /\ \A q \in Readers \ {r} : reader'[q] = reader[q]
    BY <2>1 DEF TypeOK
  <2>3. /\ reader'[r].phase = "pointed" /\ reader'[r].lane = reader[r].lane
        /\ reader'[r].gen = pointer[reader[r].lane]
    BY <2>2
  <2>4. (pc \in {"install", "point"} => ~HasReader(at))'
    BY <2>1, <2>2, <2>3 DEF LaneInv, HasReader
  <2> QED BY <2>1, <2>2, <2>3, <2>4 DEF LaneInv, GuardedReaderIsUndisturbed
<1>16. ASSUME NEW r \in Readers, ReaderRelease(r) PROVE LaneInv'
  <2>1. /\ pointer' = pointer /\ pc' = pc /\ at' = at /\ payload' = payload /\ installed' = installed
        /\ reader' = [reader EXCEPT ![r] = Away]
    BY <1>16 DEF ReaderRelease, disk, local
  <2>2. reader'[r].phase = "out" /\ \A q \in Readers \ {r} : reader'[q] = reader[q]
    BY <2>1 DEF TypeOK, Away
  <2>3. (pc \in {"install", "point"} => ~HasReader(at))'
    BY <2>1, <2>2 DEF LaneInv, HasReader
  <2> QED BY <2>1, <2>2, <2>3 DEF LaneInv, GuardedReaderIsUndisturbed
<1>17. CASE UNCHANGED vars
  BY <1>17, LaneFrame DEF vars, disk, local
<1> QED
  BY <1>1, <1>3, <1>4, <1>5, <1>6, <1>7, <1>8, <1>9, <1>10, <1>11, <1>12, <1>13, <1>14, <1>15,
     <1>16, <1>17
  DEF Next, PassStep

-----------------------------------------------------------------------------
(* The inductive invariant of the pass.                                    *)
PassInv == TypeOK /\ HasPayload /\ IndexInv /\ LaneInv

(* The inductive invariant holds in every reachable state.                 *)
LEMMA PassInvariant == Spec => []PassInv
<1>1. Init => PassInv
  <2>1. Init => LaneInv
    BY DEF Init, Away, LaneInv, GuardedReaderIsUndisturbed
  <2> QED BY <2>1, InitTypes, IndexInitially DEF Init, HasPayload, PublishSteps, PassInv
<1>2. PassInv /\ [Next]_vars => PassInv'
  BY TypeStep, PayloadStep, IndexStep, LaneStep DEF PassInv
<1> QED BY <1>1, <1>2, PTL DEF Spec

(* Whatever is edited, refused, stopped or interrupted, a file whose        *)
(* generation is acknowledged has the facts of its observed content         *)
(* (replace_file_facts before ack_generation, serve.rs).                    *)
THEOREM CleanFilesAreIndexed == Spec => []CleanFileIsIndexed
<1>1. PassInv => CleanFileIsIndexed
  BY DEF PassInv, IndexInv
<1> QED BY <1>1, PassInvariant, PTL

(* No generation mixes two inventories, or holds bytes that were not        *)
(* inventoried (the hash comparison before an analysis, serve.rs).          *)
THEOREM InventoryIsPublished == Spec => []PublishesTheInventory
<1>1. PassInv => PublishesTheInventory
  BY DEF PassInv, IndexInv
<1> QED BY <1>1, PassInvariant, PTL

(* A reader that holds the shared guard of a lane is never overtaken by a   *)
(* publication or a recovery of that lane (publish_lane, recovery resume).  *)
THEOREM ReadersAreUndisturbed == Spec => []GuardedReaderIsUndisturbed
<1>1. PassInv => GuardedReaderIsUndisturbed
  BY DEF PassInv, LaneInv
<1> QED BY <1>1, PassInvariant, PTL

ReaderStep ==
    \E r \in Readers : (\E l \in Lanes : ReaderGuard(r, l)) \/ ReaderPoint(r) \/ ReaderRelease(r)

(* Only recovery, publication and the readers touch what a reader sees.    *)
LEMMA VisibleSteps ==
  ASSUME [Next]_vars
  PROVE  \/ UNCHANGED <<pointer, installed, reader>>
         \/ RecoverInstall \/ RecoverPoint \/ InstallGeneration \/ MovePointer
         \/ ReaderStep
<1> DEFINE Hidden == UNCHANGED <<pointer, installed, reader>>
<1>1. ASSUME NEW f \in Files, NEW c \in Contents \cup {Absent}, Edit(f, c) PROVE Hidden
  BY <1>1 DEF Edit, disk
<1>2. CASE Crash \/ AnalysisRefused \/ AnalysisCancelled \/ EndEmpty \/ EndUpToDate \/ RecordGenerations
  BY <1>2 DEF Crash, AnalysisRefused, AnalysisCancelled, EndEmpty, EndUpToDate, RecordGenerations, disk
<1>3. ASSUME NEW full \in BOOLEAN, StartPass(full) PROVE Hidden
  BY <1>3 DEF StartPass, disk
<1>4. CASE RecoverNothing \/ RecoverDiscard \/ Inventory
  BY <1>4 DEF RecoverNothing, RecoverDiscard, Inventory, disk
<1>5. ASSUME NEW f \in Files, AnalyzeFile(f) PROVE Hidden
  BY <1>5 DEF AnalyzeFile, ReplaceFileFacts, disk
<1>6. CASE AckGeneration \/ StartPublish \/ LockLane
  BY <1>6 DEF AckGeneration, StartPublish, LockLane, disk
<1>7. CASE \/ StageBegin \/ StageManifest \/ StageRename \/ CommitIntent \/ BumpEventSeq
           \/ MarkPublished
  BY <1>7 DEF StageBegin, StageManifest, StageRename, CommitIntent, BumpEventSeq, MarkPublished, disk
<1>8. CASE UNCHANGED vars
  BY <1>8 DEF vars, disk
<1> QED BY <1>1, <1>2, <1>3, <1>4, <1>5, <1>6, <1>7, <1>8 DEF Next, PassStep, ReaderStep

(* Generations are only ever added to a lane, and only recovery and        *)
(* publication replace a pointer.                                          *)
LEMMA DiskSteps ==
  ASSUME TypeOK, [Next]_vars
  PROVE  /\ \A l \in Lanes : installed[l] \subseteq installed'[l]
         /\ pointer' = pointer \/ RecoverPoint \/ MovePointer
<1>1. CASE RecoverInstall
  BY <1>1 DEF RecoverInstall, TypeOK
<1>2. CASE InstallGeneration
  BY <1>2 DEF InstallGeneration, TypeOK
<1>3. CASE RecoverPoint \/ MovePointer
  BY <1>3 DEF RecoverPoint, MovePointer
<1>4. CASE ReaderStep
  BY <1>4 DEF ReaderStep, ReaderGuard, ReaderPoint, ReaderRelease, disk
<1> QED BY <1>1, <1>2, <1>3, <1>4, VisibleSteps

(* A lane that shows a generation shows one for ever, whatever crashes and  *)
(* recoveries come in between (publish_lane, recovery plan and resume).     *)
THEOREM LanesStayReadable == Spec => StaysReadable
<1>1. ASSUME PassInv, [Next]_vars, NEW l \in Lanes, Readable(l) PROVE Readable(l)'
  <2>1. installed[l] \subseteq installed'[l] /\ pointer[l] \in installed[l]
    BY <1>1, DiskSteps DEF PassInv, Readable
  <2>2. CASE pointer' = pointer
    BY <2>1, <2>2 DEF Readable
  <2>3. CASE RecoverPoint
    <3>1. pointer[at] = NoPointer /\ pointer' = [pointer EXCEPT ![at] = payload]
      BY <1>1, <2>3 DEF RecoverPoint, PassInv, LaneInv
    <3>2. l # at
      BY <1>1, <2>1, <3>1, PublicationAssumption DEF PassInv, TypeOK
    <3> QED BY <1>1, <2>1, <3>1, <3>2 DEF Readable, PassInv, TypeOK
  <2>4. CASE MovePointer
    <3>1. payload \in installed[at] /\ pointer' = [pointer EXCEPT ![at] = payload]
      BY <1>1, <2>4 DEF MovePointer, PassInv, LaneInv
    <3> QED BY <1>1, <2>1, <3>1 DEF Readable, PassInv, TypeOK
  <2> QED BY <1>1, <2>2, <2>3, <2>4, DiskSteps DEF PassInv
<1>2. PassInv /\ [Next]_vars => [\A l \in Lanes : Readable(l) => Readable(l)']_vars
  BY <1>1
<1> QED BY <1>2, PassInvariant, PTL DEF Spec, StaysReadable

-----------------------------------------------------------------------------
(* The refinement of the snapshot register.                                *)

(* What a lane shows depends on its pointer and its generations only.      *)
LEMMA SameView ==
  ASSUME \A l \in Lanes : (IF Readable(l) THEN pointer[l] ELSE NoPointer)'
                          = (IF Readable(l) THEN pointer[l] ELSE NoPointer)
  PROVE  View' = View
  BY DEF View

(* What a reader has pinned, reader by reader.                             *)
PinOf(r) == IF reader[r].phase = "pointed" /\ reader[r].gen \in installed[reader[r].lane]
            THEN <<reader[r].lane, reader[r].gen>> ELSE <<>>

LEMMA SamePins ==
  ASSUME reader' = reader,
         \A r \in Readers : reader[r].phase = "pointed" =>
              installed'[reader[r].lane] = installed[reader[r].lane]
  PROVE  Pinned' = Pinned
<1>1. \A r \in Readers : PinOf(r)' = PinOf(r)
  BY DEF PinOf
<1> QED BY <1>1 DEF Pinned, PinOf

(* A pin is on the lane the reader is in.                                  *)
LEMMA PinnedLane ==
  ASSUME NEW l \in Lanes, ~HasReader(l)
  PROVE  ~Register!PinnedOn(l)
<1> SUFFICES ASSUME NEW r \in Readers, Pinned[r] # <<>>, Pinned[r][1] = l PROVE FALSE
  BY DEF Register!PinnedOn, Register!Unpinned
<1>1. reader[r].phase = "pointed" /\ Pinned[r] = <<reader[r].lane, reader[r].gen>>
  BY DEF Pinned
<1>2. reader[r].lane = l
  BY <1>1
<1> QED BY <1>1, <1>2 DEF HasReader

(* A lane is shown a generation by the one step that makes it readable.    *)
LEMMA ShowStep ==
  ASSUME NEW l \in Lanes, NEW g \in Payloads, ~HasReader(l), Pinned' = Pinned,
         View' = [View EXCEPT ![l] = g]
  PROVE  Register!Next
<1>1. Register!Show(l, g)
  BY PinnedLane DEF Register!Show
<1> QED BY <1>1 DEF Register!Next

LEMMA RegisterStep ==
  ASSUME PassInv, PassInv', [Next]_vars
  PROVE  [Register!Next]_(Register!vars)
<1> USE DEF PassInv
<1>1. CASE UNCHANGED <<pointer, installed, reader>>
  <2>1. View' = View
    BY <1>1 DEF View, Readable
  <2>2. Pinned' = Pinned
    BY <1>1, SamePins
  <2> QED BY <2>1, <2>2 DEF Register!vars
<1>2. CASE RecoverInstall
  <2>1. /\ pointer' = pointer /\ reader' = reader /\ pointer[at] = NoPointer
        /\ \A l \in Lanes \ {at} : installed'[l] = installed[l]
    BY <1>2 DEF RecoverInstall, TypeOK
  <2>2. View' = View
    <3>1. ASSUME NEW l \in Lanes PROVE Readable(l)' = Readable(l)
      <4>1. CASE l = at
        BY <2>1, <4>1, PublicationAssumption DEF Readable, TypeOK
      <4>2. CASE l # at
        BY <2>1, <4>2 DEF Readable
      <4> QED BY <4>1, <4>2
    <3> QED BY <2>1, <3>1, SameView
  <2>3. Pinned' = Pinned
    BY <2>1, SamePins DEF LaneInv, TypeOK
  <2> QED BY <2>2, <2>3 DEF Register!vars
<1>3. CASE RecoverPoint
  <2>1. /\ pointer' = [pointer EXCEPT ![at] = payload] /\ installed' = installed
        /\ reader' = reader /\ pointer[at] = NoPointer
    BY <1>3 DEF RecoverPoint, LaneInv
  <2>2. Pinned' = Pinned
    BY <2>1, SamePins
  <2>3. ~HasReader(at)
    BY <2>1 DEF LaneInv, HasReader
  <2>4. at \in Lanes /\ NoPointer \notin installed[at]
    BY PublicationAssumption DEF TypeOK
  <2>5. CASE payload \in installed[at]
    <3>1. View' = [View EXCEPT ![at] = payload]
      BY <2>1, <2>4, <2>5 DEF View, Readable, TypeOK
    <3> QED BY <2>2, <2>3, <2>4, <2>5, <3>1, ShowStep DEF TypeOK
  <2>6. CASE payload \notin installed[at]
    <3>1. View' = View
      BY <2>1, <2>4, <2>6 DEF View, Readable, TypeOK
    <3> QED BY <2>2, <3>1 DEF Register!vars
  <2> QED BY <2>5, <2>6
<1>4. CASE InstallGeneration
  <2>1. /\ pointer' = pointer /\ reader' = reader /\ ~HasReader(at) /\ payload \in Payloads
        /\ installed' = [installed EXCEPT ![at] = @ \cup {payload}]
    BY <1>4 DEF InstallGeneration, LaneInv, HasPayload, PublishSteps
  <2>2. at \in Lanes /\ installed'[at] = installed[at] \cup {payload}
        /\ \A l \in Lanes \ {at} : installed'[l] = installed[l]
    BY <2>1 DEF TypeOK
  <2>3. Pinned' = Pinned
    BY <2>1, <2>2, SamePins DEF HasReader, TypeOK
  <2>4. CASE pointer[at] = payload
    <3>1. View' = [View EXCEPT ![at] = payload]
      BY <2>1, <2>2, <2>4 DEF View, Readable
    <3> QED BY <2>1, <2>2, <2>3, <3>1, ShowStep
  <2>5. CASE pointer[at] # payload
    <3>1. View' = View
      BY <2>1, <2>2, <2>5 DEF View, Readable
    <3> QED BY <2>3, <3>1 DEF Register!vars
  <2> QED BY <2>4, <2>5
<1>5. CASE MovePointer
  <2>1. /\ pointer' = [pointer EXCEPT ![at] = payload] /\ installed' = installed
        /\ reader' = reader /\ ~HasReader(at) /\ payload \in installed[at]
    BY <1>5 DEF MovePointer, LaneInv
  <2>2. Pinned' = Pinned
    BY <2>1, SamePins
  <2>3. at \in Lanes /\ payload \in Payloads
    BY <2>1 DEF TypeOK
  <2>4. View' = [View EXCEPT ![at] = payload]
    BY <2>1, <2>3 DEF View, Readable, TypeOK
  <2> QED BY <2>1, <2>2, <2>3, <2>4, ShowStep
<1>6. ASSUME NEW r \in Readers, NEW l \in Lanes, ReaderGuard(r, l)
      PROVE  UNCHANGED Register!vars
  <2>1. /\ pointer' = pointer /\ installed' = installed /\ reader[r].phase = "out"
        /\ reader' = [reader EXCEPT ![r] = [phase |-> "guarded", lane |-> l, gen |-> NoPointer]]
    BY <1>6 DEF ReaderGuard, disk
  <2>2. reader'[r].phase = "guarded" /\ \A q \in Readers \ {r} : reader'[q] = reader[q]
    BY <2>1 DEF TypeOK
  <2>3. \A q \in Readers : PinOf(q)' = PinOf(q)
    BY <2>1, <2>2 DEF PinOf
  <2>4. View' = View /\ Pinned' = Pinned
    BY <2>1, <2>3 DEF View, Readable, Pinned, PinOf
  <2> QED BY <2>4 DEF Register!vars
<1>7. ASSUME NEW r \in Readers, ReaderPoint(r)
      PROVE  Register!Next \/ UNCHANGED Register!vars
  <2> DEFINE l == reader[r].lane
  <2>1. /\ pointer' = pointer /\ installed' = installed /\ reader[r].phase = "guarded"
        /\ reader' = [reader EXCEPT ![r] = [phase |-> "pointed", lane |-> l, gen |-> pointer[l]]]
    BY <1>7 DEF ReaderPoint, disk
  <2>2. l \in Lanes
    BY DEF TypeOK
  <2>3. /\ reader'[r].phase = "pointed" /\ reader'[r].lane = l /\ reader'[r].gen = pointer[l]
        /\ \A q \in Readers \ {r} : reader'[q] = reader[q]
    BY <2>1 DEF TypeOK
  <2>4. View' = View
    BY <2>1 DEF View, Readable
  <2>5. PinOf(r) = <<>> /\ \A q \in Readers \ {r} : PinOf(q)' = PinOf(q)
    BY <2>1, <2>3 DEF PinOf
  <2>6. CASE Readable(l)
    <3>1. PinOf(r)' = <<l, pointer[l]>>
      BY <2>1, <2>3, <2>6 DEF PinOf, Readable
    <3>2. View[l] = pointer[l] /\ View[l] # NoPointer
      BY <2>2, <2>6, PublicationAssumption DEF View, Readable, TypeOK
    <3>3. Pinned = [q \in Readers |-> PinOf(q)] /\ Pinned' = [q \in Readers |-> PinOf(q)']
      BY DEF Pinned, PinOf
    <3> HIDE DEF l
    <3>4. Pinned' = [Pinned EXCEPT ![r] = <<l, View[l]>>] /\ Pinned[r] = <<>>
      BY <2>5, <3>1, <3>2, <3>3
    <3>5. Register!Pin(r, l)
      BY <2>4, <3>2, <3>4 DEF Register!Pin, Register!Unpinned
    <3> QED BY <2>2, <3>5 DEF Register!Next
  <2>7. CASE ~Readable(l)
    <3>1. PinOf(r)' = <<>>
      BY <2>1, <2>3, <2>7 DEF PinOf, Readable
    <3>2. Pinned' = Pinned
      BY <2>5, <3>1 DEF Pinned, PinOf
    <3> QED BY <2>4, <3>2 DEF Register!vars
  <2> QED BY <2>6, <2>7
<1>8. ASSUME NEW r \in Readers, ReaderRelease(r) PROVE Register!Next
  <2>1. /\ pointer' = pointer /\ installed' = installed
        /\ reader' = [reader EXCEPT ![r] = Away]
    BY <1>8 DEF ReaderRelease, disk
  <2>2. reader'[r].phase = "out" /\ \A q \in Readers \ {r} : reader'[q] = reader[q]
    BY <2>1 DEF TypeOK, Away
  <2>3. PinOf(r)' = <<>> /\ \A q \in Readers \ {r} : PinOf(q)' = PinOf(q)
    BY <2>1, <2>2 DEF PinOf
  <2>4. Pinned = [q \in Readers |-> PinOf(q)] /\ Pinned' = [q \in Readers |-> PinOf(q)']
    BY DEF Pinned, PinOf
  <2>5. View' = View /\ Pinned' = [Pinned EXCEPT ![r] = <<>>]
    BY <2>1, <2>3, <2>4 DEF View, Readable
  <2>6. Register!Unpin(r)
    BY <2>5 DEF Register!Unpin, Register!Unpinned
  <2> QED BY <2>6 DEF Register!Next
<1> QED BY <1>1, <1>2, <1>3, <1>4, <1>5, <1>6, <1>7, <1>8, VisibleSteps DEF ReaderStep

(* Whatever is interrupted, a lane goes from one whole generation to the    *)
(* next and stands still for a reader: the pass, its recovery and the       *)
(* readers implement the snapshot register (publish_lane, resume, load).    *)
THEOREM PublicationImplementsRegister == Spec => ImplementsRegister
<1>1. Init => Register!Init
  <2> SUFFICES ASSUME Init PROVE Register!Init
    OBVIOUS
  <2>1. \A l \in Lanes : ~Readable(l)
    BY DEF Init, Readable
  <2>2. \A r \in Readers : reader[r].phase = "out"
    BY DEF Init, Away
  <2> QED BY <2>1, <2>2 DEF Register!Init, Register!Unpinned, View, Pinned
<1>2. PassInv /\ PassInv' /\ [Next]_vars => [Register!Next]_(Register!vars)
  BY RegisterStep
<1> QED BY <1>1, <1>2, PassInvariant, PTL DEF Spec, ImplementsRegister, Register!Spec

(* Index, payload and readers, for any files, contents, edits, crashes and *)
(* rebuilds (reconcile_project, publish, load).                            *)
THEOREM PublicationIsFaithful == Spec => []PublicationFollowsTheInventory
  BY PublicationTypes, CleanFilesAreIndexed, InventoryIsPublished, ReadersAreUndisturbed, PTL
     DEF PublicationFollowsTheInventory

(* The lanes implement the register and stay readable, for every value of  *)
(* the constants (replace, load, resume).                                  *)
THEOREM LanesImplementRegister == Spec => LanesAreARegister
  BY LanesStayReadable, PublicationImplementsRegister, PTL DEF LanesAreARegister
-----------------------------------------------------------------------------
(* A pass that ended well, when nothing cuts a pass short after it has     *)
(* acknowledged a file: no crash, no termination signal, no reader in the   *)
(* way of a guard, and no file whose acknowledgement is not counted as new  *)
(* work.  What the model leaves are edits at any moment, refused analyses   *)
(* and full rebuilds; each of the four conditions is needed.                *)
Undisturbed == MaxCrashes = 0 /\ ~MayShutdown /\ Readers = {} /\ Supported = Files

Nowhere == \A l \in Lanes : pointer[l] = NoPointer

\* Nothing is left to analyse and the lanes show what the store holds.
Settled == (\A f \in Files : ~Dirty(f)) /\ \A l \in Lanes : pointer[l] = Rendered

\* A present file is dirty: a pass that analyses it publishes.
Owed == \E f \in Files : Dirty(f) /\ row[f].observed # Absent

\* The lanes have no pointer and nothing to recover, or each has a pointer.
LanesAgree ==
    \/ Nowhere /\ \A l \in Lanes : staged[l] = {} /\ pending[l] = {}
    \/ \A l \in Lanes : pointer[l] # NoPointer

\* The lanes whose pointer this publication has moved.
LaneDone(l) ==
    \/ pc \in {"mark", "record"}
    \/ pc \in {"lock", "install", "point"} /\ at = "checkpoint" /\ l = "live"

(* Outside a publication what the lanes do not show is still owed: by this  *)
(* pass, which has seen new work, or by the next, which will analyse a file.*)
OkInv ==
    /\ pc \notin PublishSteps =>
         /\ pc # "recoverPoint"
         /\ LanesAgree
         /\ pc # "idle" => hadPointer = (pointer["live"] # NoPointer)
         /\ (pc \in {"analyze", "ack"} /\ work) \/ Owed \/ Nowhere \/ Settled
    /\ pc = "ack" => (row[cur].observed # Absent => work)
    /\ pc \in PublishSteps => payload = Rendered /\ \A f \in Files : ~Dirty(f)
    /\ \A l \in Lanes : LaneDone(l) => pointer[l] = payload
    /\ OkPassIsPublished

(* A step that leaves the store, the disk and the pass alone keeps OkInv.   *)
LEMMA OkFrame ==
  ASSUME OkInv, UNCHANGED <<store, disk, pc, local, result>>
  PROVE  OkInv'
<1>1. Nowhere' = Nowhere /\ Settled' = Settled /\ Owed' = Owed /\ Rendered' = Rendered
  BY DEF Nowhere, Settled, Owed, Rendered, Dirty, store, disk
<1>2. at' = at /\ pc' = pc /\ UNCHANGED <<pointer, staged, pending>>
  BY DEF local, disk
<1>3. LanesAgree' <=> LanesAgree
  BY <1>1, <1>2 DEF LanesAgree
<1>4. \A l \in Lanes : LaneDone(l)' <=> LaneDone(l)
  BY <1>2 DEF LaneDone
<1>5. UNCHANGED <<row, pointer, pc, hadPointer, work, cur, payload, result>>
  BY DEF store, disk, local
<1>6. OkPassIsPublished'
  BY <1>1, <1>5 DEF OkInv, OkPassIsPublished
<1>7. \A l \in Lanes : LaneDone(l)' => pointer'[l] = payload'
  BY <1>4, <1>5 DEF OkInv
<1>8. \A f \in Files : Dirty(f)' <=> Dirty(f)
  BY <1>5 DEF Dirty
<1>9. pc' \notin PublishSteps =>
         /\ pc' # "recoverPoint"
         /\ LanesAgree'
         /\ pc' # "idle" => hadPointer' = (pointer'["live"] # NoPointer)
         /\ (pc' \in {"analyze", "ack"} /\ work') \/ Owed' \/ Nowhere' \/ Settled'
  BY <1>1, <1>3, <1>5 DEF OkInv
<1> QED BY <1>1, <1>5, <1>6, <1>7, <1>8, <1>9 DEF OkInv

(* A pass that ends outside a publication without publishing keeps OkInv,  *)
(* when what it leaves undone is still owed and it does not claim success.  *)
LEMMA OkEnds ==
  ASSUME OkInv, NEW how, EndPass(how), UNCHANGED <<store, disk>>,
         pc \notin PublishSteps,
         Owed \/ Nowhere \/ Settled,
         how = "ok" => Settled
  PROVE  OkInv'
<1>1. Nowhere' = Nowhere /\ Settled' = Settled /\ Owed' = Owed /\ Rendered' = Rendered
  BY DEF Nowhere, Settled, Owed, Rendered, Dirty, store, disk
<1>2. LanesAgree' = LanesAgree /\ \A l \in Lanes : ~LaneDone(l)'
  BY <1>1 DEF LanesAgree, LaneDone, EndPass, disk
<1>3. pc' = "idle" /\ result' = how /\ pc' \notin PublishSteps
  BY DEF EndPass, PublishSteps
<1>4. OkPassIsPublished'
  BY <1>1, <1>3 DEF OkPassIsPublished, Settled, disk
<1> QED BY <1>1, <1>2, <1>3, <1>4 DEF OkInv

(* A step of the pass before a publication that leaves the lanes alone.     *)
LEMMA OkBefore ==
  ASSUME OkInv, UNCHANGED <<disk, hadPointer>>,
         pc \notin PublishSteps, pc # "idle",
         pc' \in {"recover", "inventory", "analyze"},
         (pc' = "analyze" /\ work') \/ Owed' \/ Nowhere \/ Settled'
  PROVE  OkInv'
<1>1. Nowhere' = Nowhere /\ LanesAgree' = LanesAgree /\ \A l \in Lanes : ~LaneDone(l)'
  BY DEF Nowhere, LanesAgree, LaneDone, disk
<1>2. pc' \notin PublishSteps /\ pc' # "idle" /\ pc' # "ack" /\ pc' # "recoverPoint"
  BY DEF PublishSteps
<1>3. hadPointer' = (pointer'["live"] # NoPointer)
  BY DEF OkInv, disk
<1> QED BY <1>1, <1>2, <1>3 DEF OkInv, OkPassIsPublished

LEMMA OkStep ==
  ASSUME Undisturbed, PassInv, OkInv, [Next]_vars
  PROVE  OkInv'
<1> USE PublicationAssumption
<1>t. TypeOK /\ IndexInv
  BY DEF PassInv
<1>u. MaxCrashes = 0 /\ ~MayShutdown /\ Readers = {} /\ Supported = Files
  BY DEF Undisturbed
<1>1. ASSUME NEW f \in Files, NEW c \in Contents \cup {Absent}, Edit(f, c) PROVE OkInv'
  BY <1>1, OkFrame DEF Edit
<1>2. ~Crash
  BY <1>t, <1>u DEF Crash, TypeOK
<1>3. ~AnalysisCancelled
  BY <1>u DEF AnalysisCancelled
<1>4. ASSUME NEW full \in BOOLEAN, StartPass(full) PROVE OkInv'
  <2>1. /\ pc = "idle" /\ pc' = "recover" /\ UNCHANGED disk
        /\ hadPointer' = (pointer["live"] # NoPointer)
        /\ facts' = facts
    BY <1>4 DEF StartPass
  <2>2. pc \notin PublishSteps /\ pc' \notin PublishSteps
    BY <2>1 DEF PublishSteps
  <2>3. ASSUME NEW f \in Files
        PROVE  /\ row'[f].observed = row[f].observed
               /\ Dirty(f) => Dirty(f)'
               /\ Dirty(f)' => Dirty(f) \/ row[f].observed # Absent
    <3>1. row[f] \in Row /\ row[f].indexed <= row[f].desired
      BY <1>t DEF TypeOK, IndexInv
    <3>2. row'[f] = row[f] \/ (row'[f] = Invalidated(row[f]) /\ row[f].observed # Absent)
      BY <1>4 DEF StartPass, Invalidated
    <3>3. CASE row'[f] = Invalidated(row[f])
      <4>1. Invalidated(row[f]) = row[f] \/ row[f].observed # Absent
        BY DEF Invalidated
      <4> QED BY <3>1, <3>3, <4>1, InvalidatedRow DEF Dirty, Row
    <3> QED BY <3>2, <3>3 DEF Dirty
  <2>4. Rendered' = Rendered /\ Nowhere' = Nowhere
    BY <1>u, <2>1 DEF Rendered, Nowhere, disk
  <2>5. (Owed => Owed') /\ (Settled => Settled' \/ Owed')
    BY <2>1, <2>3, <2>4 DEF Owed, Settled, disk
  <2>6. LanesAgree' = LanesAgree /\ \A l \in Lanes : ~LaneDone(l)'
    BY <2>1, <2>4 DEF LanesAgree, LaneDone, disk
  <2> QED BY <2>1, <2>2, <2>4, <2>5, <2>6 DEF OkInv, OkPassIsPublished, disk
<1>5. CASE RecoverNothing
  <2>1. /\ UNCHANGED <<store, disk, hadPointer>>
        /\ pc = "recover" /\ pc' \in {"recover", "inventory"}
    BY <1>5 DEF RecoverNothing, NextLane
  <2>2. pc \notin PublishSteps /\ pc \notin {"analyze", "ack"} /\ pc # "idle"
    BY <2>1 DEF PublishSteps
  <2>3. Nowhere' = Nowhere /\ Settled' = Settled /\ Owed' = Owed
    BY <2>1 DEF Nowhere, Settled, Owed, Rendered, Dirty, store, disk
  <2>4. Owed \/ Nowhere \/ Settled
    BY <2>1, <2>2 DEF OkInv
  <2> QED BY <2>1, <2>2, <2>3, <2>4, OkBefore
<1>6. ~RecoverInstall /\ ~RecoverDiscard
  <2> SUFFICES ASSUME RecoverInstall \/ RecoverDiscard PROVE FALSE
    OBVIOUS
  <2>1. pc = "recover" /\ pointer[at] = NoPointer /\ at \in Lanes
        /\ (staged[at] # {} \/ pending[at] # {})
    BY <1>t DEF RecoverInstall, RecoverDiscard, SealedPending, TypeOK
  <2> QED BY <2>1 DEF OkInv, LanesAgree, PublishSteps
<1>7. ~RecoverPoint
  BY DEF RecoverPoint, OkInv, PublishSteps
<1>8. CASE Inventory
  <2>1. /\ pc = "inventory" /\ pc' = "analyze" /\ UNCHANGED <<disk, hadPointer>>
        /\ facts' = facts
        /\ work' = (\E f \in Files : source[f] # row[f].observed)
    BY <1>8 DEF Inventory
  <2>2. pc \notin PublishSteps /\ pc \notin {"analyze", "ack"} /\ pc # "idle"
    BY <2>1 DEF PublishSteps
  <2>3. CASE work'
    BY <2>1, <2>2, <2>3, OkBefore
  <2>4. CASE ~work'
    <3>1. row' = row
      <4>1. PICK g \in Generations : row' = [f \in Files |-> Reconciled(f, g)]
        BY <1>8 DEF Inventory
      <4>2. \A f \in Files : Reconciled(f, g) = row[f]
        BY <2>1, <2>4 DEF Reconciled
      <4> QED BY <4>1, <4>2, <1>t DEF TypeOK
    <3>2. Nowhere' = Nowhere /\ Settled' = Settled /\ Owed' = Owed
      BY <2>1, <3>1 DEF Nowhere, Settled, Owed, Rendered, Dirty, disk
    <3>3. Owed \/ Nowhere \/ Settled
      BY <2>1, <2>2 DEF OkInv
    <3> QED BY <2>1, <2>2, <3>2, <3>3, OkBefore
  <2> QED BY <2>3, <2>4
<1>9. ASSUME NEW f \in Files, AnalyzeFile(f) PROVE OkInv'
  <2>1. /\ pc = "analyze" /\ pc' = "ack" /\ UNCHANGED <<disk, hadPointer, row>>
        /\ cur' = f /\ f \in todo
        /\ work' = (work \/ row[f].observed # Absent)
    BY <1>9, <1>u DEF AnalyzeFile
  <2>2. pc \notin PublishSteps /\ pc' \notin PublishSteps
    BY <2>1 DEF PublishSteps
  <2>3. Dirty(f) /\ ~Settled
    BY <1>t, <2>1 DEF IndexInv, Settled
  <2>4. /\ Nowhere' = Nowhere /\ Owed' = Owed /\ LanesAgree' = LanesAgree
        /\ \A l \in Lanes : ~LaneDone(l)'
    BY <2>1 DEF Nowhere, Owed, Dirty, LanesAgree, LaneDone, disk
  <2>5. work' \/ Owed' \/ Nowhere'
    BY <2>1, <2>2, <2>3, <2>4 DEF OkInv
  <2> QED BY <2>1, <2>2, <2>4, <2>5 DEF OkInv, OkPassIsPublished, disk
<1>10. CASE AckGeneration
  <2>1. /\ pc = "ack" /\ pc' = "analyze" /\ UNCHANGED <<disk, hadPointer, facts>>
        /\ work' = work
        /\ row' = [row EXCEPT ![cur].indexed = row[cur].desired]
    BY <1>10 DEF AckGeneration
  <2>2. pc \notin PublishSteps /\ pc # "idle"
    BY <2>1 DEF PublishSteps
  <2>3. CASE work
    BY <2>1, <2>2, <2>3, OkBefore
  <2>4. CASE ~work
    <3>1. row[cur].observed = Absent /\ cur \in Files
      BY <1>t, <2>1, <2>4 DEF OkInv, IndexInv
    <3>2. row \in [Files -> Row]
      BY <1>t DEF TypeOK
    <3>3. ASSUME NEW f \in Files
          PROVE  /\ row'[f].observed = row[f].observed
                 /\ f # cur => row'[f] = row[f]
                 /\ Dirty(f)' => Dirty(f)
      <4>1. CASE f = cur
        <5>1. row'[f] = [row[f] EXCEPT !.indexed = row[f].desired]
          BY <2>1, <3>2, <4>1
        <5>2. row[f] \in Row
          BY <3>2
        <5>3. row'[f].observed = row[f].observed /\ row'[f].indexed = row[f].desired
              /\ row'[f].desired = row[f].desired /\ row[f].desired \in Nat
          BY <5>1, <5>2 DEF Row
        <5> QED BY <4>1, <5>3 DEF Dirty
      <4>2. CASE f # cur
        BY <2>1, <3>2, <4>2 DEF Dirty
      <4> QED BY <4>1, <4>2
    <3>4. Rendered' = Rendered /\ Nowhere' = Nowhere
      BY <1>u, <2>1 DEF Rendered, Nowhere, disk
    <3>5. Owed => Owed'
      BY <3>1, <3>3 DEF Owed, Dirty
    <3>6. Settled => Settled'
      BY <2>1, <3>3, <3>4 DEF Settled, disk
    <3>7. Owed \/ Nowhere \/ Settled
      BY <2>1, <2>2, <2>4 DEF OkInv
    <3> QED BY <2>1, <2>2, <3>4, <3>5, <3>6, <3>7, OkBefore
  <2> QED BY <2>3, <2>4
<1>11. CASE AnalysisRefused
  <2>1. PICK f \in todo : pc = "analyze" /\ ~Analysable(f)
    BY <1>11 DEF AnalysisRefused
  <2>2. Owed
    BY <1>t, <2>1 DEF Owed, IndexInv, Analysable
  <2>3. /\ EndPass(IF result \in {"ok", "retry"} THEN "retry" ELSE "exit")
        /\ UNCHANGED <<store, disk>>
    BY <1>11 DEF AnalysisRefused
  <2>4. pc \notin PublishSteps
    BY <2>1 DEF PublishSteps
  <2> QED BY <2>2, <2>3, <2>4, OkEnds
<1>12. ASSUME Analysed
       PROVE  /\ pc = "analyze" /\ pc \notin PublishSteps
              /\ \A f \in Files : ~Dirty(f)
              /\ ~Owed
              /\ work \/ Nowhere \/ Settled
              /\ hadPointer = (pointer["live"] # NoPointer)
              /\ LanesAgree
  <2>1. pc = "analyze" /\ pc \notin PublishSteps
    BY <1>12 DEF Analysed, PublishSteps
  <2>2. (\A f \in Files : ~Dirty(f)) /\ ~Owed
    BY <1>t, <1>12 DEF Analysed, IndexInv, Owed
  <2> QED BY <2>1, <2>2 DEF OkInv
<1>13. CASE EndEmpty
  <2>1. Analysed /\ ~hadPointer /\ EndPass("exit") /\ UNCHANGED <<store, disk>>
    BY <1>13 DEF EndEmpty, NothingToPublish
  <2>2. Nowhere
    BY <1>12, <2>1 DEF LanesAgree, Nowhere, Lanes
  <2> QED BY <1>12, <2>1, <2>2, OkEnds
<1>14. CASE EndUpToDate
  <2>1. /\ Analysed /\ UpToDate /\ UNCHANGED <<store, disk>>
        /\ EndPass(IF pointer["live"] \in installed["live"] THEN "ok" ELSE "exit")
    BY <1>14 DEF EndUpToDate
  <2>2. Settled
    BY <1>12, <2>1 DEF UpToDate, Nowhere, Lanes
  <2> QED BY <1>12, <2>1, <2>2, OkEnds
<1>15. CASE StartPublish
  <2>1. /\ UNCHANGED <<store, disk>> /\ payload' = Rendered /\ at' = "live" /\ pc' = "begin"
    BY <1>15 DEF StartPublish
  <2>2. Rendered' = Rendered
    BY <2>1 DEF Rendered, store
  <2>3. pc' \in PublishSteps /\ \A l \in Lanes : ~LaneDone(l)'
    BY <2>1 DEF PublishSteps, LaneDone
  <2>4. \A f \in Files : ~Dirty(f)'
    BY <1>12, <1>15, <2>1 DEF StartPublish, Dirty, store
  <2> QED BY <2>1, <2>2, <2>3, <2>4 DEF OkInv, OkPassIsPublished
<1>16. ASSUME pc \in PublishSteps, pc' \in PublishSteps, payload' = payload,
              UNCHANGED <<row, facts>>,
              \A l \in Lanes : LaneDone(l)' => pointer'[l] = payload
       PROVE  OkInv'
  <2>1. Rendered' = Rendered /\ \A f \in Files : Dirty(f)' = Dirty(f)
    BY <1>16 DEF Rendered, Dirty
  <2> QED BY <1>16, <2>1 DEF OkInv, OkPassIsPublished, PublishSteps
<1>17. CASE StageBegin \/ StageManifest \/ StageRename \/ CommitIntent \/ BumpEventSeq
  <2>1. /\ pc \in PublishSteps /\ pc' \in PublishSteps /\ payload' = payload
        /\ UNCHANGED <<row, facts>>
    BY <1>17 DEF StageBegin, StageManifest, StageRename, CommitIntent, BumpEventSeq, store,
                 local, PublishSteps
  <2>2. \A l \in Lanes : ~LaneDone(l)'
    BY <1>17 DEF StageBegin, StageManifest, StageRename, CommitIntent, BumpEventSeq, LaneDone
  <2> QED BY <1>16, <2>1, <2>2
<1>18. CASE LockLane \/ InstallGeneration \/ MarkPublished
  <2>1. ~HasReader(at)
    BY <1>u DEF HasReader
  <2>2. /\ pc \in PublishSteps /\ pc' \in PublishSteps /\ payload' = payload
        /\ UNCHANGED <<row, facts, pointer, at>>
        /\ \/ pc \in {"lock", "install"} /\ pc' \in {"install", "point"}
           \/ pc = "mark" /\ pc' = "record"
    BY <1>18, <2>1 DEF LockLane, InstallGeneration, MarkPublished, store, disk, local,
                       PublishSteps
  <2>3. \A l \in Lanes : LaneDone(l)' <=> LaneDone(l)
    BY <2>2 DEF LaneDone
  <2> QED BY <1>16, <2>2, <2>3 DEF OkInv
<1>19. CASE MovePointer
  <2>1. /\ pc \in PublishSteps /\ pc' \in PublishSteps /\ payload' = payload
        /\ UNCHANGED <<row, facts>>
    BY <1>19 DEF MovePointer, NextLane, store, PublishSteps
  <2>2. pc = "point" /\ pointer' = [pointer EXCEPT ![at] = payload] /\ NextLane("lock", "mark")
    BY <1>19 DEF MovePointer
  <2>3. pointer \in [Lanes -> Payloads \cup {NoPointer}] /\ at \in Lanes
    BY <1>t DEF TypeOK
  <2>4. CASE at = "live"
    <3>1. \A l \in Lanes : LaneDone(l)' => l = "live"
      BY <2>2, <2>4 DEF NextLane, LaneDone
    <3> QED BY <1>16, <2>1, <2>2, <2>3, <2>4, <3>1
  <2>5. CASE at = "checkpoint"
    <3>1. pointer["live"] = payload
      BY <2>2, <2>5 DEF OkInv, LaneDone, Lanes
    <3>2. \A l \in Lanes : pointer'[l] = payload
      BY <2>2, <2>3, <2>5, <3>1 DEF Lanes
    <3> QED BY <1>16, <2>1, <3>2
  <2> QED BY <2>3, <2>4, <2>5 DEF Lanes
<1>20. CASE RecordGenerations
  <2>1. pc = "record" /\ EndPass("ok") /\ UNCHANGED <<row, facts, disk>>
    BY <1>20 DEF RecordGenerations
  <2>2. pc \in PublishSteps /\ pc' = "idle" /\ pc' \notin PublishSteps
    BY <2>1 DEF EndPass, PublishSteps
  <2>3. \A l \in Lanes : pointer[l] = Rendered
    BY <2>1, <2>2 DEF OkInv, LaneDone
  <2>4. Rendered' = Rendered
    BY <2>1 DEF Rendered
  <2>5. Rendered \in Payloads
    BY <1>t, RenderedType
  <2>6. \A l \in Lanes : /\ pointer'[l] = Rendered' /\ pointer'[l] # NoPointer
                          /\ ~LaneDone(l)'
    BY <2>1, <2>2, <2>3, <2>4, <2>5 DEF disk, LaneDone
  <2>7. Settled'
    BY <2>1, <2>2, <2>6 DEF OkInv, Settled, Dirty
  <2> QED BY <2>2, <2>6, <2>7 DEF OkInv, OkPassIsPublished, LanesAgree
<1>21. CASE UNCHANGED vars
  BY <1>21, OkFrame DEF vars
<1> QED
  BY <1>u, <1>1, <1>2, <1>3, <1>4, <1>5, <1>6, <1>7, <1>8, <1>9, <1>10, <1>11, <1>13, <1>14, <1>15,
     <1>17, <1>18, <1>19, <1>20, <1>21
  DEF Next, PassStep

(* When nothing cuts passes short, what a pass that ended well leaves in    *)
(* both lanes is what the store holds, through any edits, refused analyses  *)
(* and rebuilds before it: the last analysed state is the published one     *)
(* (has_new_work and the decision not to publish, serve.rs).                *)
THEOREM UndisturbedPassIsPublished ==
  ASSUME Undisturbed
  PROVE  Spec => []OkPassIsPublished
<1>1. Init => OkInv
  BY DEF Init, OkInv, OkPassIsPublished, PublishSteps, Nowhere, LanesAgree, LaneDone
<1>2. PassInv /\ OkInv /\ [Next]_vars => OkInv'
  BY OkStep
<1>3. OkInv => OkPassIsPublished
  BY DEF OkInv
<1> QED BY <1>1, <1>2, <1>3, PassInvariant, PTL DEF Spec
=============================================================================
