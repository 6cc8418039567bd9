------------------------------- MODULE Store -------------------------------
(***************************************************************************)
(* The database file of a home (crates/graph-store): the schema ledger that   *)
(* every opener verifies and completes (migrations.rs, called by each pass    *)
(* and by each operator verb, with no lock of its own), and the writer actor  *)
(* that serialises mutations (writer.rs).                                     *)
(*                                                                           *)
(* A shipped migration is its SQL; the binaries of two releases may differ in *)
(* how many they ship and in what one of them says.  SQLite makes a            *)
(* transaction atomic; statements outside one are steps of their own.         *)
(***************************************************************************)
EXTENDS Naturals, Sequences, FiniteSets

CONSTANTS
    Openers,        \* processes that open the store
    Releases,       \* binaries
    Shipped,        \* [Releases -> Seq]: shipped_migrations
    Mutations,      \* closures handed to the actor
    Capacity,       \* of the actor's queue
    MaxMishaps,     \* bound on failing statements, failing commits and panics
    NoRelease, NoMutation

ASSUME StoreAssumption ==
    /\ Releases # {} /\ \A r \in Releases : Shipped[r] \in Seq(STRING) /\ Shipped[r] # <<>>
    /\ Capacity \in Nat \ {0} /\ MaxMishaps \in Nat
    /\ NoRelease \notin Releases /\ NoMutation \notin Mutations

VARIABLES
    ledger,      \* the rows of schema_migrations, by version
    userVersion, \* PRAGMA user_version
    opener,      \* [Openers -> [at, release, read, moved]]
    handed,      \* mutations accepted by submit, in their order
    mailbox,     \* the queue of the actor
    draining,    \* a drain holds the mutex
    open,        \* the mutation in a transaction that was not ended, or NoMutation
    durable,     \* mutations committed through this actor
    outcome,     \* [Mutations -> what the drain counted it as]
    poisoned,    \* a mutation panicked under the mutex
    mishaps

svars == <<ledger, userVersion, opener, handed, mailbox, draining, open, durable, outcome,
           poisoned, mishaps>>
schema == <<ledger, userVersion, opener>>
actor == <<handed, mailbox, draining, open, durable, outcome, poisoned>>

StoreTypeOK ==
    /\ ledger \in Seq(STRING) /\ userVersion \in Nat
    /\ \A p \in Openers :
          /\ opener[p].at \in {"idle", "rows", "version", "apply", "opened", "refused", "failed"}
          /\ opener[p].release \in Releases \cup {NoRelease}
          /\ opener[p].read \in Nat /\ opener[p].moved \in BOOLEAN
          /\ (opener[p].release = NoRelease) = (opener[p].at = "idle")
    /\ handed \in Seq(Mutations) /\ mailbox \in Seq(Mutations) /\ Len(mailbox) <= Capacity
    /\ durable \in Seq(Mutations) /\ open \in Mutations \cup {NoMutation}
    /\ draining \in BOOLEAN /\ poisoned \in BOOLEAN
    /\ outcome \in [Mutations -> {"none", "waiting", "applied", "failed"}]
    /\ mishaps \in 0..MaxMishaps

Closed == [at |-> "idle", release |-> NoRelease, read |-> 0, moved |-> FALSE]

StoreInit ==
    /\ ledger = <<>> /\ userVersion = 0
    /\ opener = [p \in Openers |-> Closed]
    /\ handed = <<>> /\ mailbox = <<>> /\ draining = FALSE /\ open = NoMutation /\ durable = <<>>
    /\ outcome = [m \in Mutations |-> "none"] /\ poisoned = FALSE /\ mishaps = 0

-----------------------------------------------------------------------------
(* The ledger. *)

Ships(p) == Shipped[opener[p].release]

Becomes(p, at) == opener' = [opener EXCEPT ![p].at = at]

BeginOpen(p, r) ==
    /\ opener[p].at = "idle"
    /\ opener' = [opener EXCEPT ![p] = [Closed EXCEPT !.at = "rows", !.release = r]]
    /\ UNCHANGED <<ledger, userVersion, actor, mishaps>>

\* reconcile: the applied rows are an ordered prefix of what is shipped, byte for byte.
Reconciles(rows, shipped) ==
    Len(rows) <= Len(shipped) /\ \A n \in 1..Len(rows) : rows[n] = shipped[n]

\* verify, its first statement.
ReadRows(p) ==
    /\ opener[p].at = "rows"
    /\ IF Reconciles(ledger, Ships(p))
       THEN opener' = [opener EXCEPT ![p].at = "version", ![p].read = Len(ledger)]
       ELSE Becomes(p, "refused")
    /\ UNCHANGED <<ledger, userVersion, actor, mishaps>>

\* verify, its second statement: a newer database and a version that differs from the rows read
\* before are refused; plan is what the rows left.
ReadVersion(p) ==
    /\ opener[p].at = "version"
    /\ IF userVersion > Len(Ships(p)) \/ userVersion # opener[p].read THEN Becomes(p, "refused")
       ELSE IF opener[p].read = Len(Ships(p)) THEN Becomes(p, "opened")
       ELSE Becomes(p, "apply")
    /\ UNCHANGED <<ledger, userVersion, actor, mishaps>>

\* The next migration of p is committed, under the eyes of every other opener.
Commits(p, next) ==
    /\ ledger' = Append(ledger, Ships(p)[next])
    /\ opener' = [q \in Openers |->
                    IF q = p
                    THEN [opener[p] EXCEPT !.read = next,
                                           !.at = IF next = Len(Ships(p)) THEN "opened" ELSE "apply"]
                    ELSE [opener[q] EXCEPT !.moved = @ \/ opener[q].at \in {"rows", "version", "apply"}]]

\* Mutant: a migration somebody else applied is passed over.
ApplyOneOrSkip(p) ==
    /\ opener[p].at = "apply"
    /\ LET next == opener[p].read + 1 IN
       IF Len(ledger) >= next
       THEN /\ opener' = [opener EXCEPT ![p].read = next,
                                        ![p].at = IF next = Len(Ships(p)) THEN "opened" ELSE "apply"]
            /\ UNCHANGED <<ledger, userVersion>>
       ELSE Commits(p, next) /\ userVersion' = next
    /\ UNCHANGED <<actor, mishaps>>

\* apply_one: SQL, version and row in one transaction.  A migration somebody else has applied
\* meanwhile fails on its tables or on the key of its row, and ends the opening.
ApplyOne(p) ==
    /\ opener[p].at = "apply"
    /\ LET next == opener[p].read + 1 IN
       IF Len(ledger) >= next THEN Becomes(p, "failed") /\ UNCHANGED <<ledger, userVersion>>
       ELSE Commits(p, next) /\ userVersion' = next
    /\ UNCHANGED <<actor, mishaps>>

\* A statement fails; what its transaction did is rolled back.
StatementFails(p) ==
    /\ opener[p].at \in {"rows", "version", "apply"} /\ mishaps < MaxMishaps
    /\ mishaps' = mishaps + 1 /\ Becomes(p, "failed")
    /\ UNCHANGED <<ledger, userVersion, actor>>

\* The command ends, or dies.
CloseStore(p) ==
    /\ opener[p].at # "idle"
    /\ opener' = [opener EXCEPT ![p] = Closed]
    /\ UNCHANGED <<ledger, userVersion, actor, mishaps>>

-----------------------------------------------------------------------------
(* The writer actor. *)

\* submit: a full queue refuses, and the caller may try again.
Submit(m) ==
    /\ ~draining /\ ~poisoned /\ outcome[m] = "none" /\ Len(mailbox) < Capacity
    /\ mailbox' = Append(mailbox, m) /\ handed' = Append(handed, m)
    /\ outcome' = [outcome EXCEPT ![m] = "waiting"]
    /\ UNCHANGED <<schema, draining, open, durable, poisoned, mishaps>>

BeginDrain ==
    /\ ~draining /\ ~poisoned /\ mailbox # <<>>
    /\ draining' = TRUE
    /\ UNCHANGED <<schema, handed, mailbox, open, durable, outcome, poisoned, mishaps>>

EndDrain ==
    /\ draining /\ mailbox = <<>>
    /\ draining' = FALSE
    /\ UNCHANGED <<schema, handed, mailbox, open, durable, outcome, poisoned, mishaps>>

Takes == draining /\ mailbox # <<>> /\ mailbox' = Tail(mailbox) /\ UNCHANGED <<schema, handed, draining>>

Counted(as) == outcome' = [outcome EXCEPT ![Head(mailbox)] = as]

\* Mutant: a transaction that is open already is good enough.
DrainOneJoining ==
    /\ Takes
    /\ durable' = IF open = NoMutation THEN Append(durable, Head(mailbox))
                  ELSE durable \o <<open, Head(mailbox)>>
    /\ open' = NoMutation /\ Counted("applied")
    /\ UNCHANGED <<poisoned, mishaps>>

\* apply_one: BEGIN IMMEDIATE fails while a transaction is open; otherwise the mutation runs and is
\* committed.
DrainOne ==
    /\ Takes
    /\ IF open = NoMutation THEN Counted("applied") /\ durable' = Append(durable, Head(mailbox))
                            ELSE Counted("failed") /\ UNCHANGED durable
    /\ UNCHANGED <<open, poisoned, mishaps>>

\* The mutation returns an error and is rolled back, or its COMMIT fails, which rolls nothing back.
DrainFails(commit) ==
    /\ Takes /\ open = NoMutation /\ mishaps < MaxMishaps
    /\ mishaps' = mishaps + 1
    /\ Counted("failed")
    /\ open' = IF commit THEN Head(mailbox) ELSE open
    /\ UNCHANGED <<durable, poisoned>>

\* The mutation panics: the mutex is poisoned, and so is every later call.
DrainPanics ==
    /\ draining /\ mailbox # <<>> /\ open = NoMutation /\ mishaps < MaxMishaps
    /\ mishaps' = mishaps + 1
    /\ mailbox' = Tail(mailbox) /\ open' = Head(mailbox) /\ draining' = FALSE /\ poisoned' = TRUE
    /\ UNCHANGED <<schema, handed, durable, outcome>>

\* The process ends and another one begins: SQLite rolls back what was open, and an actor of its own
\* starts to count.
NewActor ==
    /\ ~draining /\ handed # <<>>
    /\ handed' = <<>> /\ mailbox' = <<>> /\ open' = NoMutation /\ durable' = <<>>
    /\ outcome' = [m \in Mutations |-> "none"] /\ poisoned' = FALSE
    /\ UNCHANGED <<schema, draining, mishaps>>

-----------------------------------------------------------------------------
LedgerNext ==
    \E p \in Openers :
       \/ \E r \in Releases : BeginOpen(p, r)
       \/ ReadRows(p) \/ ReadVersion(p) \/ ApplyOne(p) \/ StatementFails(p) \/ CloseStore(p)

ActorNext ==
    \/ \E m \in Mutations : Submit(m)
    \/ BeginDrain \/ DrainOne \/ EndDrain \/ DrainPanics \/ NewActor
    \/ \E commit \in BOOLEAN : DrainFails(commit)

StoreNext == LedgerNext \/ ActorNext

StoreSpec == StoreInit /\ [][StoreNext]_svars

-----------------------------------------------------------------------------
(* Properties. *)

(* Openers of several releases that migrate at the same time never mix two    *)
(* lineages: the ledger is what one release ships, and the version agrees      *)
(* with it ("the applied rows must be an ordered prefix of the shipped          *)
(* migrations", migrations.rs:13; verify and the transaction of apply_one       *)
(* are separated by statements of other openers).                              *)
LedgerIsOneLineage ==
    /\ \E r \in Releases : Reconciles(ledger, Shipped[r])
    /\ userVersion = Len(ledger)

(* Who gets a connection finds every migration it ships applied, its own SQL   *)
(* and nobody else's (apply: verify, then each pending migration).             *)
OpenedIsMigrated ==
    \A p \in Openers : opener[p].at = "opened" => Reconciles(Ships(p), ledger)

(* A compatible database is refused only to an opener whose reading another     *)
(* one's migration ran into: the rows and the version are read by two           *)
(* statements (migrations.rs:170, 172).                                         *)
RefusalHasCause ==
    \A p \in Openers : opener[p].at = "refused" =>
        opener[p].moved \/ ~Reconciles(ledger, Ships(p))

(* The database holds exactly the mutations that were counted as applied, in    *)
(* the order in which they were submitted: one reported as failed never         *)
(* becomes durable with a later one, even when its COMMIT failed and left its    *)
(* transaction open (drain, apply_one).                                         *)
CountedAsAppliedIsDurable ==
    \E at \in [1..Len(durable) -> 1..Len(handed)] :
        /\ {at[n] : n \in 1..Len(durable)} = {k \in 1..Len(handed) : outcome[handed[k]] = "applied"}
        /\ \A n, k \in 1..Len(durable) : n < k => at[n] < at[k]
        /\ \A n \in 1..Len(durable) : durable[n] = handed[at[n]]

(* The schema ledger under openers of several releases: one lineage,       *)
(* complete for whoever is let in, refused only with a cause.              *)
LedgerIsSound ==
    /\ StoreTypeOK
    /\ LedgerIsOneLineage
    /\ OpenedIsMigrated
    /\ RefusalHasCause
=============================================================================
