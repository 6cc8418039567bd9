------------------------------ MODULE Operator ------------------------------
(***************************************************************************)
(* The approved changes of `axiom` that are neither an install nor an      *)
(* update: `axiom host apply`, which replaces one configuration file of an *)
(* agent host (host_runtime.rs), and `axiom skills apply` or `axiom specs  *)
(* apply`, which places a content bundle and moves its pointer             *)
(* (package_runtime.rs over skills/install.rs).  Both take the maintenance *)
(* lock; the first compares its plan before the lock and the second after. *)
(*                                                                         *)
(* A configuration is what people wrote in it and the server its managed   *)
(* entry names; a bundle is a version and a revision of its content.       *)
(***************************************************************************)
EXTENDS Naturals, FiniteSets

CONSTANTS
    Admins,         \* processes that run an apply
    Servers,        \* MCP commands a managed entry may name
    BundleVersions, Revisions,
    MaxTyped,       \* bound on the edits of the configuration by hand
    MaxDocuments,   \* bound on the plans reviewed
    MaxFailures,    \* bound on applies that die or fail, and on files changed by hand
    NoAdmin, NoServer, NoBundle, NoDocument

ASSUME OperatorAssumption ==
    /\ MaxTyped \in Nat /\ MaxDocuments \in Nat /\ MaxFailures \in Nat
    /\ NoAdmin \notin Admins /\ NoServer \notin Servers
    /\ NoBundle \notin BundleVersions \X Revisions
    /\ Revisions \cap {"absent", "partial", "damaged"} = {}

Bundles == BundleVersions \X Revisions

Configs == [typed : 0..MaxTyped, server : Servers \cup {NoServer}]

HostDocuments == [was : Configs, becomes : Configs]

ContentDocuments == [was : Bundles \cup {NoBundle}, bundle : Bundles]

VARIABLES
    config,      \* the host's configuration file
    folder,      \* <component>/<version>: the revision it holds whole, or how it is not whole
    active,      \* <component>/current
    receipts,    \* <component>/transactions: the plans that were begun
    hostPlans, contentPlans,   \* plan documents that were reviewed
    keeper,      \* who holds maintenance.lock
    apply,       \* [Admins -> step, document, and whether the file moved since the comparison]
    failures

documents == <<hostPlans, contentPlans>>
ovars == <<config, folder, active, receipts, documents, keeper, apply, failures>>

OperatorSteps == {"idle", "lock", "replace", "receipt", "files", "manifest", "pointer"}

OperatorTypeOK ==
    /\ config \in Configs
    /\ folder \in [BundleVersions -> Revisions \cup {"absent", "partial", "damaged"}]
    /\ active \in Bundles \cup {NoBundle}
    /\ receipts \subseteq ContentDocuments
    /\ hostPlans \subseteq HostDocuments /\ contentPlans \subseteq ContentDocuments
    /\ keeper \in Admins \cup {NoAdmin}
    /\ \A p \in Admins :
          /\ apply[p].step \in OperatorSteps /\ apply[p].moved \in BOOLEAN
          /\ CASE apply[p].step = "idle" -> apply[p].document = NoDocument
               [] apply[p].step \in {"lock", "replace"} -> apply[p].document \in HostDocuments
               [] OTHER -> apply[p].document \in ContentDocuments
    /\ failures \in 0..MaxFailures

Resting == [step |-> "idle", document |-> NoDocument, moved |-> FALSE]

OperatorInit ==
    /\ config = [typed |-> 0, server |-> NoServer]
    /\ folder = [v \in BundleVersions |-> "absent"] /\ active = NoBundle
    /\ receipts = {} /\ hostPlans = {} /\ contentPlans = {} /\ keeper = NoAdmin
    /\ apply = [p \in Admins |-> Resting] /\ failures = 0

-----------------------------------------------------------------------------

Free == keeper = NoAdmin

Doing(p, step) == apply[p].step = step

Document(p) == apply[p].document

StepTo(p, step) == apply' = [apply EXCEPT ![p].step = step]

\* A return, with or without an error: the guard of the lock goes with it.
Returns(p) == /\ apply' = [apply EXCEPT ![p] = Resting]
              /\ keeper' = IF keeper = p THEN NoAdmin ELSE keeper

\* The configuration file is written, under the eyes of every apply that has compared it.
Rewrite(new, of) ==
    /\ config' = new
    /\ apply' = [p \in Admins |->
                    IF p = of THEN Resting
                    ELSE [apply[p] EXCEPT !.moved = @ \/ apply[p].step \in {"lock", "replace"}]]

RoomForPlan == Cardinality(hostPlans) + Cardinality(contentPlans) < MaxDocuments

-----------------------------------------------------------------------------
\* host apply.

\* preview: the managed entry is put into what the file holds, and the rest is kept.
Preview(server) == [was |-> config, becomes |-> [config EXCEPT !.server = server]]

PlanHost(server) ==
    /\ RoomForPlan /\ hostPlans' = hostPlans \cup {Preview(server)}
    /\ UNCHANGED <<contentPlans, config, folder, active, receipts, keeper, apply, failures>>

\* The plan is rendered again and must be the approved one; a file that is already what the plan
\* makes of it, or any other, ends the command.
CompareHost(p) ==
    /\ Doing(p, "idle")
    /\ \E doc \in hostPlans :
          /\ Preview(doc.becomes.server) = doc /\ config # doc.becomes
          /\ apply' = [apply EXCEPT ![p] = [step |-> "lock", document |-> doc, moved |-> FALSE]]
    /\ UNCHANGED <<config, folder, active, receipts, documents, keeper, failures>>

LockHost(p) ==
    /\ Doing(p, "lock")
    /\ \/ Free /\ keeper' = p /\ StepTo(p, "replace")
       \/ ~Free /\ Returns(p)
    /\ UNCHANGED <<config, folder, active, receipts, documents, failures>>

\* The staged file replaces the configuration atomically.
ReplaceHost(p) ==
    /\ Doing(p, "replace")
    /\ Rewrite(Document(p).becomes, p)
    /\ keeper' = NoAdmin
    /\ UNCHANGED <<folder, active, receipts, documents, failures>>

\* Somebody, or the host itself, writes the file.
TypeConfig ==
    /\ config.typed < MaxTyped
    /\ Rewrite([config EXCEPT !.typed = @ + 1], NoAdmin)
    /\ UNCHANGED <<folder, active, receipts, documents, keeper, failures>>

-----------------------------------------------------------------------------
\* skills apply and specs apply.

\* pointer: the active generation is read back and must be as it was activated.
ActiveVerified == active # NoBundle => folder[active[1]] = active[2]

PlanContent(b) ==
    /\ ActiveVerified
    /\ active # NoBundle => active[1] # b[1] \/ active = b
    /\ RoomForPlan /\ contentPlans' = contentPlans \cup {[was |-> active, bundle |-> b]}
    /\ UNCHANGED <<hostPlans, config, folder, active, receipts, keeper, apply, failures>>

Accepted(p, doc) == /\ keeper' = p
                    /\ apply' = [apply EXCEPT ![p] = [step |-> "receipt", document |-> doc, moved |-> FALSE]]

\* An apply that does not compare the active generation with the approved one.
BeginContentAnyway(p) ==
    /\ Doing(p, "idle") /\ Free /\ ActiveVerified
    /\ \E doc \in contentPlans : active # doc.bundle /\ Accepted(p, doc)
    /\ UNCHANGED <<config, folder, active, receipts, documents, failures>>

\* Under the lock: the active generation must be the one the plan found.  A bundle that is active
\* already, or a plan for another generation, ends the command.
BeginContent(p) ==
    /\ Doing(p, "idle") /\ Free /\ ActiveVerified
    /\ \E doc \in contentPlans :
          active # doc.bundle /\ active = doc.was /\ Accepted(p, doc)
    /\ UNCHANGED <<config, folder, active, receipts, documents, failures>>

\* write_new: the receipt is created before anything is placed, and never twice.
WriteReceipt(p) ==
    /\ Doing(p, "receipt")
    /\ \/ /\ Document(p) \notin receipts
          /\ receipts' = receipts \cup {Document(p)} /\ StepTo(p, "files") /\ UNCHANGED keeper
       \/ Document(p) \in receipts /\ Returns(p) /\ UNCHANGED receipts
    /\ UNCHANGED <<config, folder, active, documents, failures>>

\* install: a version directory that is there, whole or not, is refused.
PlaceFiles(p) ==
    /\ Doing(p, "files")
    /\ LET v == Document(p).bundle[1] IN
       \/ /\ folder[v] = "absent"
          /\ folder' = [folder EXCEPT ![v] = "partial"] /\ StepTo(p, "manifest") /\ UNCHANGED keeper
       \/ folder[v] # "absent" /\ Returns(p) /\ UNCHANGED folder
    /\ UNCHANGED <<config, active, receipts, documents, failures>>

\* An apply that moves the pointer before the manifest is there.
PlaceManifestLast(p) ==
    /\ Doing(p, "manifest")
    /\ active' = Document(p).bundle
    /\ StepTo(p, "pointer")
    /\ UNCHANGED <<config, folder, receipts, documents, keeper, failures>>

PlaceManifest(p) ==
    /\ Doing(p, "manifest")
    /\ folder' = [folder EXCEPT ![Document(p).bundle[1]] = Document(p).bundle[2]]
    /\ StepTo(p, "pointer")
    /\ UNCHANGED <<config, active, receipts, documents, keeper, failures>>

MovePointer(p) ==
    /\ Doing(p, "pointer")
    /\ active' = Document(p).bundle
    /\ Returns(p)
    /\ UNCHANGED <<config, folder, receipts, documents, failures>>

-----------------------------------------------------------------------------

\* An apply dies, or one of its reads and writes fails.
ApplyFails(p) ==
    /\ ~Doing(p, "idle") /\ failures < MaxFailures
    /\ failures' = failures + 1
    /\ Returns(p)
    /\ UNCHANGED <<config, folder, active, receipts, documents>>

\* A file of a placed bundle is changed by hand.
SpoilContent(v) ==
    /\ folder[v] \in Revisions /\ failures < MaxFailures
    /\ failures' = failures + 1
    /\ folder' = [folder EXCEPT ![v] = "damaged"]
    /\ UNCHANGED <<config, active, receipts, documents, keeper, apply>>

\* A command that is refused, or finds its work done, changes nothing.
Decline ==
    /\ \/ \E doc \in hostPlans : config # doc.was \/ config = doc.becomes
       \/ \E doc \in contentPlans :
             ~Free \/ ~ActiveVerified \/ active # doc.was \/ active = doc.bundle
    /\ UNCHANGED ovars

OperatorNext ==
    \/ TypeConfig \/ Decline
    \/ \E s \in Servers : PlanHost(s)
    \/ \E b \in Bundles : PlanContent(b)
    \/ \E v \in BundleVersions : SpoilContent(v)
    \/ \E p \in Admins :
          \/ CompareHost(p) \/ LockHost(p) \/ ReplaceHost(p)
          \/ BeginContent(p) \/ WriteReceipt(p) \/ PlaceFiles(p) \/ PlaceManifest(p) \/ MovePointer(p)
          \/ ApplyFails(p)

OperatorSpec == OperatorInit /\ [][OperatorNext]_ovars

-----------------------------------------------------------------------------
\* Properties.

(* "the host configuration ... changed after planning" is refused          *)
(* (host-plan-stale, host_runtime.rs:404): an apply takes away neither     *)
(* what somebody typed nor a server another apply put there after the      *)
(* review.  The comparison comes before the lock, so what is written       *)
(* between the comparison and the replacement is not covered.              *)
ReviewedConfigIsReplaced ==
    [][\A p \in Admins : Doing(p, "replace") /\ config' # config /\ Doing(p, "idle")'
          => apply[p].moved \/ config = Document(p).was]_ovars

(* A generation is activated only over the one its plan was approved for   *)
(* (installed-state-changed, package_runtime.rs:430), whatever applies ran *)
(* between the review and this one, and its receipt is there already.      *)
ActivationIsApproved ==
    [][active' # active => \E doc \in contentPlans : /\ active = doc.was /\ active' = doc.bundle
                                                     /\ doc \in receipts]_ovars

(* The active pointer names a version directory that was placed completely *)
(* with the content of its own revision, whatever died or failed, and what *)
(* is changed by hand there is never covered up by a later apply.          *)
ActiveContentIsPlaced ==
    active # NoBundle => folder[active[1]] \in {active[2], "damaged"}

(* One apply at a time is past its checks: every durable step of an apply  *)
(* has the lock, although it is given up on every failure.                 *)
ApplyHoldsTheLock ==
    \A p \in Admins : apply[p].step \notin {"idle", "lock"} <=> keeper = p

(* Under the maintenance lock, in every state that deaths and failures     *)
(* leave: one apply at a time, and what is active is whole.                *)
ContentIsPlaced ==
    /\ OperatorTypeOK
    /\ ActiveContentIsPlaced
    /\ ApplyHoldsTheLock

(* An apply changes what was reviewed: the configuration its plan was made *)
(* from, the generation its plan was approved over.                        *)
ApplyIsApproved ==
    /\ ReviewedConfigIsReplaced
    /\ ActivationIsApproved
=============================================================================
