------------------------------ MODULE AgentTurn ------------------------------
(***************************************************************************)
(* run_agent of asas-agent: the tool calls of the model's answers, run as  *)
(* coroutines of one loop.  A call takes its index and its place when its  *)
(* coroutine starts, waits for the calls its place names, runs, and ends;  *)
(* what it does between two awaits is one step.  The SDK around it starts  *)
(* the calls of an answer in order, goes back to the model when all have   *)
(* ended, and ends the run when one raises; whether and when it then       *)
(* cancels the others is its own affair.                                   *)
(***************************************************************************)
EXTENDS Naturals, Sequences

CONSTANTS
    Tools,      \* the host's tools
    ReadOnly,   \* those declared read_only
    AskTool,    \* renderer.ask_tool
    Always,     \* renderer.always
    Skills,
    ToolsOf,    \* the tools each skill holds
    Start,      \* snapshot["active_skill"], NoSkill when it is no skill of the release
    NoSkill,    \* no active skill, and an unknown name passed to activate_skill
    MaxTools,   \* release["max_tools"]
    MaxCalls    \* bound: calls in one run

Activate == "activate_skill"
Calls == 1 .. MaxCalls

ASSUME AgentAssumption ==
    /\ ReadOnly \subseteq Tools /\ Always \subseteq Tools
    /\ AskTool \in Tools \ ReadOnly
    /\ Activate \notin Tools
    /\ ToolsOf \in [Skills -> SUBSET Tools]
    /\ NoSkill \notin Skills
    /\ Start \in Skills \cup {NoSkill}
    /\ MaxTools \in Nat /\ MaxCalls \in Nat

VARIABLES
    run,       \* where the run is, or how it ended
    calls,     \* state.calls
    turn,      \* the calls made before this answer
    tool, arg, \* each call's tool, and the skill it names
    phase,        \* where each call is; its event is set when it has ended
    waits,     \* the calls it waits for
    alone,     \* the last call that runs alone, 0 for None
    beside,    \* the read-only calls started since
    cancelled, \* has the SDK, or the host, cancelled the calls?
    active,    \* state.active
    record,    \* state.record
    held,      \* what each call leaves for the trace
    traced,
    trace,     \* state.trace
    revision,  \* the host's record
    saw        \* the revision a running call works on

placeVars == <<calls, tool, arg, waits, alone, beside>>
traceVars == <<held, traced, trace>>
hostVars == <<record, revision, saw>>
agentVars == <<run, turn, phase, cancelled, active, placeVars, traceVars, hostVars>>

AnySkill == Skills \cup {NoSkill}

AgentTypeOK ==
    /\ run \in {"model", "tools", "failed", "asked", "answered", "asking", "error"}
    /\ calls \in 0 .. MaxCalls /\ turn \in 0 .. calls
    /\ tool \in [Calls -> Tools \cup {Activate}]
    /\ arg \in [Calls -> AnySkill]
    /\ phase \in [Calls -> {"none", "waiting", "running", "ended"}]
    /\ \A i \in Calls : phase[i] = "none" <=> i > calls
    /\ waits \in [Calls -> SUBSET Calls]
    /\ alone \in 0 .. calls
    /\ beside \subseteq 1 .. calls
    /\ cancelled \in BOOLEAN
    /\ active \in Skills \cup {Start}
    /\ held \in [Calls -> {"no", "event", "nothing"}]
    /\ traced \in 0 .. calls
    /\ trace \in Seq(Calls)
    /\ revision \in Nat /\ record \in 0 .. revision
    /\ saw \in [Calls -> Nat]

AgentInit ==
    /\ run = "model"
    /\ calls = 0 /\ turn = 0
    /\ tool = [i \in Calls |-> Activate]
    /\ arg = [i \in Calls |-> NoSkill]
    /\ phase = [i \in Calls |-> "none"]
    /\ waits = [i \in Calls |-> {}]
    /\ alone = 0 /\ beside = {}
    /\ cancelled = FALSE
    /\ active = Start
    /\ held = [i \in Calls |-> "no"]
    /\ traced = 0 /\ trace = <<>>
    /\ revision = 0 /\ record = 0
    /\ saw = [i \in Calls |-> 0]

-----------------------------------------------------------------------------
(* The pieces of invoke.                                                    *)

\* Mutant: activating a skill runs beside the reads.
BesideActivate(t) == t \in ReadOnly \cup {Activate}
RunsBeside(t) == t \in ReadOnly

\* Mutant: a call that runs alone does not wait for the reads before it.
WaitsForAlone(t) == {alone} \ {0}
\* Mutant: a call takes its place before it reads the others'.
WaitsForItself(t) == {calls + 1} \cup beside
\* The events a call that starts now waits for.
WaitsFor(t) == ({alone} \ {0}) \cup (IF RunsBeside(t) THEN {} ELSE beside)

Enabled(t) == t = Activate \/ t \in Always \/ (active \in Skills /\ t \in ToolsOf[active])

\* release_trace stops at the first call that has left nothing yet.
Upto(h) == CHOOSE n \in traced .. MaxCalls :
              /\ \A k \in traced + 1 .. n : h[k] # "no"
              /\ n = MaxCalls \/ h[n + 1] = "no"

\* A call ends, with an event for the trace or without.
CallEnds(i, what) ==
    LET h == [held EXCEPT ![i] = what]
        n == Upto(h)
    IN  /\ phase' = [phase EXCEPT ![i] = "ended"]
        /\ held' = h
        /\ traced' = n
        /\ trace' = trace \o SelectSeq([k \in 1 .. n - traced |-> traced + k],
                                       LAMBDA k : h[k] = "event")

\* The first call that raises decides how the run ends.
Fails(how) == run' = IF run = "tools" THEN how ELSE run

-----------------------------------------------------------------------------
(* A call.                                                                  *)

\* The SDK starts the next call of the answer; the model chose it.
Invoke(t, s) ==
    /\ run \in {"tools", "failed", "asking"} /\ ~ cancelled
    /\ calls < MaxCalls
    /\ LET i == calls + 1
       IN  /\ calls' = i
           /\ tool' = [tool EXCEPT ![i] = t]
           /\ arg' = [arg EXCEPT ![i] = s]
           /\ waits' = [waits EXCEPT ![i] = WaitsFor(t)]
           /\ IF RunsBeside(t)
              THEN /\ beside' = {e \in beside : phase[e] # "ended"} \cup {i}
                   /\ UNCHANGED alone
              ELSE alone' = i /\ beside' = {}
           /\ IF i > MaxTools
              THEN CallEnds(i, "nothing") /\ Fails("failed")
              ELSE /\ phase' = [phase EXCEPT ![i] = "waiting"]
                   /\ UNCHANGED <<traceVars, run>>
    /\ UNCHANGED <<turn, cancelled, active, hostVars>>

MyTurn(i) == phase[i] = "waiting" /\ ~ cancelled /\ \A j \in waits[i] : phase[j] = "ended"

\* A tool the active skill does not hold is refused.
Denied(i) ==
    /\ MyTurn(i) /\ ~ Enabled(tool[i])
    /\ CallEnds(i, "event")
    /\ UNCHANGED <<run, turn, cancelled, active, placeVars, hostVars>>

\* The arguments are no JSON: the error ends the run.
BadArguments(i) ==
    /\ MyTurn(i)
    /\ CallEnds(i, "nothing") /\ Fails("failed")
    /\ UNCHANGED <<turn, cancelled, active, placeVars, hostVars>>

ActivateSkill(i) ==
    /\ MyTurn(i) /\ tool[i] = Activate
    /\ active' = IF arg[i] \in Skills THEN arg[i] ELSE active
    /\ CallEnds(i, "event")
    /\ UNCHANGED <<run, turn, cancelled, placeVars, hostVars>>

Dispatch(i) ==
    /\ MyTurn(i) /\ tool[i] # Activate /\ Enabled(tool[i])
    /\ phase' = [phase EXCEPT ![i] = "running"]
    /\ saw' = [saw EXCEPT ![i] = revision]
    /\ UNCHANGED <<run, turn, cancelled, active, placeVars, traceVars, record, revision>>

\* The host's tool returns.  A read returns the record it saw, a write the next
\* revision; either may return none.
Returned(i) ==
    /\ phase[i] = "running" /\ ~ cancelled /\ tool[i] # AskTool
    /\ \E wrote, carries \in BOOLEAN :
        /\ wrote => tool[i] \notin ReadOnly
        /\ revision' = revision + (IF wrote THEN 1 ELSE 0)
        /\ record' = IF ~ carries THEN record ELSE IF wrote THEN revision' ELSE saw[i]
    /\ saw' = [saw EXCEPT ![i] = 0]
    /\ CallEnds(i, "event")
    /\ UNCHANGED <<run, turn, cancelled, active, placeVars>>

\* The question is answered while the run waits.
AskAnswered(i) ==
    /\ phase[i] = "running" /\ ~ cancelled /\ tool[i] = AskTool
    /\ CallEnds(i, "event")
    /\ UNCHANGED <<run, turn, cancelled, active, placeVars, hostVars>>

\* Or it is only recorded: AskPending, traced.
AskPending(i) ==
    /\ phase[i] = "running" /\ ~ cancelled /\ tool[i] = AskTool
    /\ CallEnds(i, "event") /\ Fails("asking")
    /\ UNCHANGED <<turn, cancelled, active, placeVars, hostVars>>

\* An AgentsException of the dispatcher.
Raised(i) ==
    /\ phase[i] = "running" /\ ~ cancelled
    /\ CallEnds(i, "nothing") /\ Fails("failed")
    /\ UNCHANGED <<turn, cancelled, active, placeVars, hostVars>>

\* A cancelled call does nothing more than its finally.
CancelledEnds(i) ==
    /\ cancelled /\ phase[i] \in {"waiting", "running"}
    /\ CallEnds(i, "nothing")
    /\ UNCHANGED <<run, turn, cancelled, active, placeVars, hostVars>>

CallStep(i) ==
    \/ Denied(i) \/ BadArguments(i) \/ ActivateSkill(i) \/ Dispatch(i)
    \/ Returned(i) \/ AskAnswered(i) \/ AskPending(i) \/ Raised(i) \/ CancelledEnds(i)

-----------------------------------------------------------------------------
(* The run.                                                                 *)

ModelCallsTools ==
    /\ run = "model" /\ calls < MaxCalls
    /\ run' = "tools"
    /\ turn' = calls
    /\ UNCHANGED <<phase, cancelled, active, placeVars, traceVars, hostVars>>

AllEnded == \A i \in Calls : phase[i] \in {"none", "ended"}

ToolsReturn ==
    /\ run = "tools" /\ calls > turn /\ AllEnded /\ ~ cancelled
    /\ run' = "model"
    /\ UNCHANGED <<turn, phase, cancelled, active, placeVars, traceVars, hostVars>>

\* The SDK cancels the other calls of a failed answer, or the host the run.
Cancel ==
    /\ run \in {"tools", "failed", "asking"} /\ ~ cancelled
    /\ cancelled' = TRUE
    /\ Fails("failed")
    /\ UNCHANGED <<turn, phase, active, placeVars, traceVars, hostVars>>

RunEnds ==
    /\ \/ run = "model" /\ run' \in {"answered", "error"}
       \/ run = "failed" /\ run' = "error"
       \/ run = "asking" /\ run' = "asked"
    /\ UNCHANGED <<turn, phase, cancelled, active, placeVars, traceVars, hostVars>>

AgentNext ==
    \/ \E t \in Tools : Invoke(t, NoSkill)
    \/ \E s \in AnySkill : Invoke(Activate, s)
    \/ \E i \in Calls : CallStep(i)
    \/ ModelCallsTools \/ ToolsReturn \/ Cancel \/ RunEnds

AgentSpec == AgentInit /\ [][AgentNext]_agentVars

\* Tools return, and the loop runs the calls that can go on.
AgentFairSpec == AgentSpec /\ \A i \in Calls : WF_agentVars(CallStep(i))

-----------------------------------------------------------------------------
(* What the loop promises.                                                  *)

\* A call runs beside an earlier one that has not ended only if both are
\* read-only: "a write never races a read of the same record" (run_agent).
InTurn ==
    \A i, j \in Calls : phase[i] = "running" /\ j < i /\ phase[j] # "ended"
                        => {tool[i], tool[j]} \subseteq ReadOnly

\* A call runs under the skill that the calls before it, in the order the model
\* issued them, left active, whichever ended first; and no later one changes it.
SkillInOrder ==
    \A i \in Calls : \A j \in 1 .. i - 1 :
        /\ phase[i] = "running" /\ tool[j] = Activate /\ held[j] = "event" /\ arg[j] \in Skills
        /\ \A k \in j + 1 .. i - 1 : tool[k] = Activate => arg[k] \notin Skills
        => active = arg[j]

\* The record never goes back to one the run has replaced already.
RecordGoesForward == [][record' >= record]_agentVars

\* Calls do not wait for each other in a circle, nor for one that never ran.
EveryCallEnds == \A i \in Calls : phase[i] = "waiting" ~> phase[i] = "ended"

=============================================================================
