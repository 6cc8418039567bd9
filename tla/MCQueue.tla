------------------------------ MODULE MCQueue ------------------------------
(***************************************************************************)
(* The queue and the store of a home, checked side by side: a behaviour is     *)
(* about the rows and their leases, about the intents, their order and the     *)
(* freshness barrier, about a burst of hints on its way in, or about the        *)
(* opening of the database and its writer.                                     *)
(***************************************************************************)
EXTENDS JobQueue, Admission, Burst, Store

MCClass == [n \in 1..NScopes |-> n - 1]

\* Two releases that continue the first one, each in its way.
MCShipped == [old |-> <<"initial">>, new |-> <<"initial", "second", "third">>,
              fork |-> <<"initial", "other">>]

VARIABLE focus

qvars == <<vars, avars, bvars, svars, focus>>

QueueInit ==
    /\ focus \in {"rows", "intents", "burst", "ledger", "writer"}
    /\ Init /\ AdmissionInit /\ BurstInit /\ StoreInit

QueueNext ==
    \/ focus = "rows" /\ Next /\ UNCHANGED <<avars, bvars, svars, focus>>
    \/ focus = "intents" /\ AdmissionNext /\ UNCHANGED <<vars, bvars, svars, focus>>
    \/ focus = "burst" /\ BurstNext /\ UNCHANGED <<vars, avars, svars, focus>>
    \/ focus = "ledger" /\ LedgerNext /\ UNCHANGED <<vars, avars, bvars, focus>>
    \/ focus = "writer" /\ ActorNext /\ UNCHANGED <<vars, avars, bvars, focus>>

Of(f) == focus = f /\ UNCHANGED focus

\* With one slot at most one scope runs, so the engine as a whole never waits
\* for a particular scope.
QueueSpec ==
    /\ QueueInit /\ [][QueueNext]_qvars
    /\ WF_avars(Of("intents") /\ Engine)
    /\ WF_avars(Of("intents") /\ Pass)
=============================================================================
