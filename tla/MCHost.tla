------------------------------- MODULE MCHost -------------------------------
(***************************************************************************)
(* What `axiom` writes on a host, checked side by side: a behaviour is     *)
(* about the installed ecosystem under the maintenance lock, the managed   *)
(* content of one repository under its own, the host configuration and the *)
(* content bundles, or the executables of an install root.  They share no  *)
(* file but the lock, which Update sees as the operation that runs.        *)
(***************************************************************************)
EXTENDS Update, Bootstrap, Operator, Replace, TLC

VARIABLE focus

hvars == <<vars, uvars, ovars, replaceVars, focus>>

HostInit ==
    /\ focus \in {"ecosystem", "repository", "operator", "executables"}
    /\ Init /\ BootstrapInit /\ OperatorInit /\ ReplaceInit
    /\ focus # "repository" => repo = [f \in Managed |-> Nothing]
    /\ focus # "ecosystem" => skills = First /\ ~service.owned
    /\ focus # "executables" => binary = [x \in Executables |-> CHOOSE a \in Artifacts : TRUE]
    /\ focus # "executables" => open = {}
    /\ repo["owner"].block # 2      \* templates are told apart only by equality

HostNext ==
    \/ focus = "ecosystem" /\ Next /\ UNCHANGED <<uvars, ovars, replaceVars, focus>>
    \/ focus = "repository" /\ BootstrapNext /\ UNCHANGED <<vars, ovars, replaceVars, focus>>
    \/ focus = "operator" /\ OperatorNext /\ UNCHANGED <<vars, uvars, replaceVars, focus>>
    \/ focus = "executables" /\ ReplaceNext /\ UNCHANGED <<vars, uvars, ovars, focus>>

HostSpec == HostInit /\ [][HostNext]_hvars

\* Transactions and processes are told apart only by equality.
HostSymmetry == Permutations(Txns) \cup Permutations(Appliers)
=============================================================================
