------------------------------- MODULE MCSmall -------------------------------
(***************************************************************************)
(* The delivery outbox, the circuit breakers and the agent's turn, which   *)
(* share no state, on small sets: a behavior is a behavior of one of them, *)
(* in which the other two never leave their initial state.                 *)
(***************************************************************************)
EXTENDS DeliveryOutbox, OracleBreaker, AgentTurn, TLC

CONSTANTS
    Parts, \* the components of the run
    p1, p2,
    c1, c2, c3, positions, grades,
    look, change, ask, editing, viewing

VARIABLE part \* the component of this behavior

\* Two callers share a resource; the third uses another.
TwoResources == c1 :> positions @@ c2 :> positions @@ c3 :> grades

\* Both skills may look; one may change.
Holds == editing :> {look, change} @@ viewing :> {look}

everything == <<part, vars, breakerVars, agentVars>>

InitOne == part \in Parts /\ Init /\ BreakerInit /\ AgentInit

NextOne ==
    /\ \/ part = "outbox" /\ Next /\ UNCHANGED <<breakerVars, agentVars>>
       \/ part = "breaker" /\ BreakerNext /\ UNCHANGED <<vars, agentVars>>
       \/ part = "agent" /\ AgentNext /\ UNCHANGED <<vars, breakerVars>>
    /\ UNCHANGED part

\* The fairness of the component that runs.
FairOne ==
    /\ InitOne /\ [][NextOne]_everything
    /\ \A p \in Passes : WF_vars(part = "outbox" /\ PassStep(p))
    /\ \A r \in Deliveries : WF_vars(part = "outbox" /\ ClaimAges(r))
    /\ \A n \in Names : WF_breakerVars(part = "breaker" /\ CooldownEnds(n))
    /\ \A c \in Callers : /\ WF_breakerVars(part = "breaker" /\ SendGuarded(c))
                          /\ WF_breakerVars(part = "breaker" /\ RequestEnds(c))
    /\ \A i \in Calls : WF_agentVars(part = "agent" /\ CallStep(i))
=============================================================================
