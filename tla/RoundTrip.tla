----------------------------- MODULE RoundTrip -----------------------------
(***************************************************************************)
(* `axiom host verify`: the round trip with the configured MCP process     *)
(* (host_runtime.rs, hosts/verify.rs).  Three requests are sent one after  *)
(* the other; a thread reads the lines of the process into a bounded       *)
(* channel, and the request takes from it until a line carries its id or   *)
(* its deadline passes.  The process may answer late, twice, wrongly or    *)
(* not at all, send lines nobody asked for, and exit.                      *)
(*                                                                         *)
(* A line is the id it carries, 0 for none, and what is in it: the result  *)
(* that step expects, something else, or no JSON.                          *)
(***************************************************************************)
EXTENDS Naturals, Sequences

CONSTANTS
    Channel,     \* sync_channel(16): lines that may wait
    Timeout      \* REQUEST_TIMEOUT_MS in ticks

ASSUME RoundTripAssumption == Channel \in Nat \ {0} /\ Timeout \in Nat \ {0}

RpcIds == 1..3       \* initialize, tools/list and tools/call, in the order of VerifyStep::all

Lines == [id : 0..3, body : {"expected", "other", "garbage"}]

VARIABLES
    phase,       \* of the verification: send, await, done
    asked,       \* next_id: the number of requests sent
    lines,       \* lines in the channel
    running,     \* the process is there
    answered,    \* requests it has answered as expected
    left,        \* ticks to the deadline of the request
    spent,       \* ticks the request has taken
    verdict      \* of verify_mcp

tvars == <<phase, asked, lines, running, answered, left, spent, verdict>>

RoundTripTypeOK ==
    /\ phase \in {"send", "await", "done"} /\ asked \in 0..3
    /\ lines \in Seq(Lines) /\ Len(lines) <= Channel
    /\ running \in BOOLEAN /\ answered \subseteq RpcIds
    /\ left \in 0..Timeout /\ spent \in 0..Timeout
    /\ verdict \in {"none", "integrated", "not-integrated"}

RoundTripInit ==
    /\ phase = "send" /\ asked = 0 /\ lines = <<>> /\ running = TRUE /\ answered = {}
    /\ left = Timeout /\ spent = 0 /\ verdict = "none"

-----------------------------------------------------------------------------

\* verify_mcp stops at the first step that fails; the process is killed with the transport.
Fail == phase' = "done" /\ verdict' = "not-integrated" /\ running' = FALSE

SendRequest ==
    /\ phase = "send"
    /\ asked' = asked + 1 /\ left' = Timeout /\ spent' = 0
    /\ \/ running /\ phase' = "await" /\ UNCHANGED <<verdict, running>>
       \/ ~running /\ Fail
    /\ UNCHANGED <<lines, answered>>

\* The step has passed: the next one, or the verdict.
StepPassed ==
    IF asked = 3 THEN phase' = "done" /\ verdict' = "integrated" /\ running' = FALSE
                 ELSE phase' = "send" /\ UNCHANGED <<verdict, running>>

\* A request that takes any line for its answer.
ReceiveAnything ==
    /\ phase = "await" /\ lines # <<>> /\ left > 0
    /\ lines' = Tail(lines)
    /\ IF Head(lines).body = "expected" THEN StepPassed ELSE Fail
    /\ UNCHANGED <<asked, answered, left, spent>>

\* recv_timeout with the time that is left: garbage ends the request, a line with another id is
\* passed over, and the body of its own answer is checked.
Receive ==
    /\ phase = "await" /\ lines # <<>> /\ left > 0
    /\ lines' = Tail(lines)
    /\ \/ Head(lines).body = "garbage" /\ Fail
       \/ /\ Head(lines).body # "garbage" /\ Head(lines).id # asked
          /\ UNCHANGED <<phase, verdict, running>>
       \/ /\ Head(lines).body # "garbage" /\ Head(lines).id = asked
          /\ IF Head(lines).body = "expected" THEN StepPassed ELSE Fail
    /\ UNCHANGED <<asked, answered, left, spent>>

\* The deadline has passed, or the stream is closed and nothing is left in it.
GiveUp ==
    /\ phase = "await" /\ (left = 0 \/ (~running /\ lines = <<>>))
    /\ Fail
    /\ UNCHANGED <<asked, lines, answered, left, spent>>

-----------------------------------------------------------------------------
\* The process and the time.

\* The reader thread hands a line on when the channel has room, and waits otherwise.
Speaks(line) == /\ running /\ Len(lines) < Channel
                /\ lines' = Append(lines, line)

\* It answers a request it has received, perhaps not for the first time.
Answer(id, body) ==
    /\ id <= asked /\ Speaks([id |-> id, body |-> body])
    /\ answered' = IF body = "expected" THEN answered \cup {id} ELSE answered
    /\ UNCHANGED <<phase, asked, running, left, spent, verdict>>

\* It says something nobody asked for: a notification of its own, a log line or too long a line.
Babble(body) ==
    /\ Speaks([id |-> 0, body |-> body])
    /\ UNCHANGED <<phase, asked, running, answered, left, spent, verdict>>

\* Another `host verify`, with a process of its own.
VerifyAgain ==
    /\ phase = "done"
    /\ phase' = "send" /\ asked' = 0 /\ lines' = <<>> /\ running' = TRUE /\ answered' = {}
    /\ left' = Timeout /\ spent' = 0 /\ verdict' = "none"

Exits ==
    /\ running /\ running' = FALSE
    /\ UNCHANGED <<phase, asked, lines, answered, left, spent, verdict>>

TimePasses ==
    /\ phase = "await" /\ left > 0
    /\ left' = left - 1 /\ spent' = spent + 1
    /\ UNCHANGED <<phase, asked, lines, running, answered, verdict>>

RoundTripNext ==
    \/ VerifyAgain \/ SendRequest \/ Receive \/ GiveUp \/ Exits \/ TimePasses
    \/ \E id \in RpcIds, body \in {"expected", "other"} : Answer(id, body)
    \/ \E body \in {"expected", "garbage"} : Babble(body)

RoundTripSpec == RoundTripInit /\ [][RoundTripNext]_tvars

-----------------------------------------------------------------------------
\* Properties.

(* "Integrated" is said only when the process has answered each of the     *)
(* three requests, in this run and after it was asked: late, repeated and  *)
(* unasked-for lines count for nothing (the id check of request,           *)
(* host_runtime.rs:225; the start-only rule of verify_mcp).  No request    *)
(* takes longer than its deadline, whatever comes in meanwhile (:212).     *)
IntegratedMeansAnswered == RoundTripTypeOK /\ (verdict = "integrated" => answered = RpcIds)
=============================================================================
