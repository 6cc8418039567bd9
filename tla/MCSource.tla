------------------------------ MODULE MCSource ------------------------------
(***************************************************************************)
(* The way from the worktree to the lanes, checked side by side: a behaviour *)
(* is about one project's reconcile passes, or about the watch that says which *)
(* of its paths have to be read again.                                         *)
(***************************************************************************)
EXTENDS Publication, Watch

CONSTANTS a1, a2, lower, out, key

MCPlain == {a1, a2, lower}
MCIgnored == {out}
MCSecret == {key}

\* On a host without case, lower is a1 in another spelling.
MCFold == [p \in MCPlain \cup MCIgnored \cup MCSecret |-> IF p = lower THEN a1 ELSE p]

VARIABLE focus

svars == <<vars, wvars, focus>>

\* The half that a behaviour is not about stays where it starts: a source that
\* no pass could publish, an empty worktree.
SourceInit ==
    /\ focus \in {"passes", "watch"}
    /\ Init /\ WatchInit
    /\ focus = "watch" => \A f \in Files : source[f] \in Invalid
    /\ focus = "watch" => tree[a2] = 0
    /\ focus = "passes" => tree = [p \in Paths |-> 0]

SourceNext ==
    \/ focus = "passes" /\ Next /\ UNCHANGED <<wvars, focus>>
    \/ focus = "watch" /\ WatchNext /\ UNCHANGED <<vars, focus>>

Of(f) == focus = f /\ UNCHANGED focus

SourceSpec ==
    /\ SourceInit /\ [][SourceNext]_svars
    /\ WF_vars(Of("passes") /\ result # "exit" /\ StartPass(FALSE))
    /\ WF_vars(Of("passes") /\ PassStep)
    /\ WF_wvars(Of("watch") /\ WatchCaller)
    /\ WF_wvars(Of("watch") /\ WatchStart)
    /\ WF_wvars(Of("watch") /\ RequireScan)
=============================================================================
