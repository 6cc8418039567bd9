------------------------------- MODULE Burst -------------------------------
(***************************************************************************)
(* Holding back and bounding a burst of hints: the debouncer                 *)
(* (crates/graph-watch/src/debounce.rs) in front of the dirty-path pressure   *)
(* tracker (crates/graph-queue/src/pressure.rs).                              *)
(*                                                                           *)
(* The caller feeds every observed path to the debouncer with the present     *)
(* time, takes a batch when its deadline comes, notes the batch with the      *)
(* tracker, takes the tracker's paths to dirty rows, and answers the          *)
(* full-scan intent by scheduling a scan, acknowledging it and running it.   *)
(* A path that a full debouncer refuses is answered with the scan its error   *)
(* asks for.                                                                  *)
(***************************************************************************)
EXTENDS Naturals, FiniteSets

CONSTANTS
    Files,      \* portable paths
    Quiet,      \* debounce_ms, in ticks
    MaxWait,    \* max_debounce_ms, in ticks
    MaxHeld,    \* MAX_DEBOUNCED_PATHS
    HighWater   \* HIGH_WATER_DISTINCT_DIRTY_PATHS

ASSUME BurstAssumption ==
    /\ IsFiniteSet(Files) /\ Quiet \in Nat \ {0} /\ MaxWait \in Nat /\ Quiet <= MaxWait
    /\ MaxHeld \in Nat \ {0} /\ HighWater \in Nat \ {0}

VARIABLES
    held,       \* the debouncer's pending paths
    first,      \* ticks since the oldest of them was noted (first_pending_at)
    last,       \* ticks since the newest hint (last_hint_at)
    distinct,   \* the tracker's paths
    scan,       \* full_scan_required
    overflows,  \* whether overflow_events is not zero
    rescan,     \* the scan that was asked for: "none", "scheduled"
    flush,      \* paths of a debounced batch on their way to the tracker
    owed,       \* paths that changed and whose rows do not know it yet
    age         \* [Files -> ticks]: how long each held path has been held, for WaitIsBounded

bvars == <<held, first, last, distinct, scan, overflows, rescan, flush, owed, age>>

BurstTypeOK ==
    /\ held \subseteq Files /\ distinct \subseteq Files /\ flush \subseteq Files /\ owed \subseteq Files
    /\ Cardinality(held) <= MaxHeld /\ Cardinality(distinct) < HighWater
    /\ first \in 0..MaxWait /\ last \in 0..first
    /\ scan \in BOOLEAN /\ overflows \in BOOLEAN
    /\ rescan \in {"none", "scheduled"}
    /\ age \in [Files -> 0..MaxWait + 1]

BurstInit ==
    /\ held = {} /\ first = 0 /\ last = 0
    /\ distinct = {} /\ scan = FALSE /\ overflows = FALSE
    /\ rescan = "none" /\ flush = {} /\ owed = {}
    /\ age = [p \in Files |-> 0]

\* next_deadline has come: the quiet period or the maximum wait, whichever is
\* earlier.
Due == held # {} /\ (last >= Quiet \/ first >= MaxWait)

\* note: the clock of the oldest path starts with an empty buffer only; a new
\* path in a full buffer is an error and leaves the buffer alone.
NotePath(p) ==
    /\ owed' = owed \cup {p}
    /\ IF p \notin held /\ Cardinality(held) >= MaxHeld
       THEN scan' = TRUE /\ UNCHANGED <<held, first, last>>
       ELSE /\ held' = held \cup {p}
            /\ first' = IF held = {} THEN 0 ELSE first
            /\ last' = 0
            /\ UNCHANGED scan
    /\ age' = [age EXCEPT ![p] = IF p \in held THEN @ ELSE 0]
    /\ UNCHANGED <<distinct, overflows, rescan, flush>>

\* The caller waits no longer than next_deadline tells it to; beyond the
\* maximum wait ages are not told apart.
BurstTick ==
    /\ held # {} /\ ~Due
    /\ first' = IF first < MaxWait THEN first + 1 ELSE first
    /\ last' = IF last < first' THEN last + 1 ELSE last
    /\ age' = [p \in Files |-> IF p \in held /\ age[p] <= MaxWait THEN age[p] + 1 ELSE age[p]]
    /\ UNCHANGED <<held, distinct, scan, overflows, rescan, flush, owed>>

\* take at the deadline, or flush_now at any time; both clocks are reset.
TakeBatch(now) ==
    /\ flush = {} /\ held # {} /\ (now \/ Due)
    /\ flush' = held
    /\ held' = {} /\ first' = 0 /\ last' = 0
    /\ age' = [p \in Files |-> 0]
    /\ UNCHANGED <<distinct, scan, overflows, rescan, owed>>

\* Mutant: the paths are cleared at the mark and the intent is left for later.
NoteDirtyDropping(p) ==
    /\ p \in flush
    /\ flush' = flush \ {p}
    /\ distinct' = IF Cardinality(distinct \cup {p}) >= HighWater THEN {} ELSE distinct \cup {p}
    /\ UNCHANGED <<held, first, last, rescan, owed, scan, overflows, age>>

\* DirtyPressure::note: nothing is stored while a scan is required; at the mark
\* the intent is recorded before the paths are cleared.
NoteDirty(p) ==
    /\ p \in flush
    /\ flush' = flush \ {p}
    /\ LET grown == distinct \cup {p}
       IN  IF scan THEN UNCHANGED <<distinct, scan, overflows>>
           ELSE IF Cardinality(grown) >= HighWater
           THEN distinct' = {} /\ scan' = TRUE /\ overflows' = TRUE
           ELSE distinct' = grown /\ UNCHANGED <<scan, overflows>>
    /\ UNCHANGED <<held, first, last, rescan, owed, age>>

\* DirtyPressure::take: the rows of these paths are dirtied.
TakeDirty ==
    /\ distinct # {}
    /\ owed' = owed \ distinct
    /\ distinct' = {}
    /\ UNCHANGED <<held, first, last, scan, overflows, rescan, flush, age>>

\* acknowledge_full_scan: the scan is persisted and scheduled, and everything
\* the tracker held is forgotten.
AcknowledgeFullScan ==
    /\ scan
    /\ rescan' = "scheduled"
    /\ scan' = FALSE /\ overflows' = FALSE /\ distinct' = {}
    /\ UNCHANGED <<held, first, last, flush, owed, age>>

\* The scan looks at every path.
RunScan ==
    /\ rescan = "scheduled"
    /\ rescan' = "none"
    /\ owed' = {}
    /\ UNCHANGED <<held, first, last, distinct, scan, overflows, flush, age>>

BurstNext ==
    \/ BurstTick \/ (\E now \in BOOLEAN : TakeBatch(now)) \/ TakeDirty \/ AcknowledgeFullScan \/ RunScan
    \/ \E p \in Files : NotePath(p) \/ NoteDirty(p)

BurstSpec == BurstInit /\ [][BurstNext]_bvars

-----------------------------------------------------------------------------
(* Properties. *)

(* Every path that changed is on its way to a row or covered by a scan that  *)
(* has yet to run, in every order of flushes, overflows and acknowledgements *)
(* ("no hint is dropped without a persisted full scan", is_accounted_for).    *)
BurstIsAccountedFor ==
    \A p \in owed : p \in held \/ p \in flush \/ p \in distinct \/ scan \/ rescan = "scheduled"

(* An editor that never rests does not hold a path back: repeated hints move *)
(* the quiet period, but no path of the buffer, the oldest one or one that    *)
(* joined it, waits longer than the maximum ("it never postpones              *)
(* reconciliation forever", note and next_deadline), and the buffer and the     *)
(* tracker stay within their bounds.                                            *)
WaitIsBounded == BurstTypeOK /\ \A p \in held : age[p] <= MaxWait

(* A burst, however long and wide: no path is lost, none waits too long,   *)
(* and nothing grows over its bound.                                       *)
BurstIsHandled ==
    /\ BurstIsAccountedFor
    /\ WaitIsBounded
=============================================================================
