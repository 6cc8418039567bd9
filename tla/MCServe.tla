------------------------------- MODULE MCServe ------------------------------
(***************************************************************************)
(* How a host gets its graphs, checked side by side: a behaviour is about    *)
(* the lanes that the daemon publishes, the service that keeps the daemon    *)
(* running, the round trip of a host's request through the MCP process, or   *)
(* the guards under which other processes publish, read and collect.         *)
(***************************************************************************)
EXTENDS MCPublication, Service, RoundTrip, Guard

CONSTANTS g1, g2

MCActivations == {g1, g2}

VARIABLE focus

cvars == <<vars, serviceVars, tvars, guardVars, focus>>

\* The parts that a behaviour is not about stay where they start. The tree of
\* the lanes starts with the analysed files only; edits add and remove others.
ServeInit ==
    /\ focus \in {"lanes", "service", "host", "guards"}
    /\ Init /\ ServiceInit /\ RoundTripInit /\ GuardInit
    /\ focus = "lanes" => \A f \in Files : source[f] = Absent <=> f \notin Supported
    /\ focus # "lanes" => \A f \in Files : source[f] = Absent
    /\ focus # "service" => plist = NoDefinition /\ gen = g1
    /\ focus # "guards" => current = CHOOSE g \in Releasable : TRUE

ServeNext ==
    \/ focus = "lanes" /\ Next /\ UNCHANGED <<serviceVars, tvars, guardVars, focus>>
    \/ focus = "service" /\ ServiceNext /\ UNCHANGED <<vars, tvars, guardVars, focus>>
    \/ focus = "host" /\ RoundTripNext /\ UNCHANGED <<vars, serviceVars, guardVars, focus>>
    \/ focus = "guards" /\ GuardNext /\ UNCHANGED <<vars, serviceVars, tvars, focus>>

ServeSpec == ServeInit /\ [][ServeNext]_cvars
=============================================================================
