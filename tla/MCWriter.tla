------------------------------ MODULE MCWriter ------------------------------
(***************************************************************************)
(* Who may write a home and what a writer does, checked side by side: a        *)
(* behaviour is about the instance lock, about the daemon that owns it, or     *)
(* about the migration command, which owns it instead of the daemon; the       *)
(* others stay in their initial state.                                         *)
(***************************************************************************)
EXTENDS InstanceLock, Daemon, Import

\* Two graphs a legacy place may hold; which one is named first makes no difference.
CONSTANTS s1, s2

MCSnapshots == {s1, s2}

VARIABLE focus

wvars == <<vars, dvars, ivars, focus>>

WriterInit ==
    /\ focus \in {"lock", "daemon", "import"}
    /\ Init /\ DaemonInit /\ ImportInit
    /\ focus # "daemon" => source = [p \in Projects |-> 0]
    /\ legacy["graph"] \in {NoSnapshot, s1} /\ (legacy["grahp"] = s2 => legacy["graph"] = s1)
    /\ focus # "import" => legacy = [p \in Places |-> NoSnapshot]

WriterNext ==
    \/ focus = "lock" /\ Next /\ UNCHANGED <<dvars, ivars, focus>>
    \/ focus = "daemon" /\ DaemonNext /\ UNCHANGED <<vars, ivars, focus>>
    \/ focus = "import" /\ ImportNext /\ UNCHANGED <<vars, dvars, focus>>

Of(f) == focus = f /\ UNCHANGED focus

WriterSpec ==
    /\ WriterInit /\ [][WriterNext]_wvars
    /\ WF_dvars(Of("daemon") /\ PassStep) /\ WF_dvars(Of("daemon") /\ LoopStep)
    /\ WF_dvars(Of("daemon") /\ FallbackElapses)
    /\ \A g \in {"lane", "catalog"} : WF_dvars(Of("daemon") /\ EndRead(g))
=============================================================================
