---------------------------- MODULE WorkflowEngine ----------------------------
(***************************************************************************)
(* The executor of asas-workflow: one process instance walking its pinned  *)
(* definition, and the concurrent host requests that open, decide, ask,    *)
(* answer, cancel, retry and reassign.  A request is one database          *)
(* transaction (Postgres, READ COMMITTED) over an ORM session: it loads    *)
(* rows, works on its copies and writes what it changed at the end.  So a  *)
(* request is two or three steps: the load, the row lock where the code    *)
(* takes one, and the commit of everything else.                           *)
(*                                                                         *)
(* Process data are abstracted to which results and answers they contain;  *)
(* a condition over them may hold or not.  The executions of nodes that    *)
(* complete in the transaction that creates them (start, notify, system,   *)
(* end) are left out.                                                      *)
(***************************************************************************)
EXTENDS Naturals, FiniteSets

CONSTANTS
    Nodes, Start,
    TypeOf,       \* each node's NodeType
    Conditional,  \* the targets of each node's transitions with a condition
    Default,      \* the target of its default transition, or Nobody
    AllQuorum,    \* the approval nodes with quorum "all"
    Members,
    Resolved,     \* the members each node's principals resolve to
    Floor,        \* the floor resolver's members
    Initiator,    \* initiated_by
    Admins,       \* members the host passes with actor_is_admin
    Nobody,       \* None
    Requests,     \* host sessions
    Racing,       \* the operations the host lets overlap with each other
    Consulted,    \* bound: the members an approver asks for information
    MaxExecutions \* bound: activations of approval and request_info nodes

AutoTypes == {"start", "notify", "system"}
Ops == {"decide", "request_info", "answer_info", "cancel", "retry", "reassign"}
Executions == 1 .. MaxExecutions

\* validate_definition: every node but approvals and ends has a default.
ASSUME DefinitionAssumption ==
    /\ Start \in Nodes
    /\ TypeOf \in [Nodes -> AutoTypes \cup {"approval", "request_info", "end"}]
    /\ Conditional \in [Nodes -> SUBSET Nodes]
    /\ Default \in [Nodes -> Nodes \cup {Nobody}]
    /\ \A n \in Nodes : Default[n] = Nobody => TypeOf[n] \in {"approval", "end"}
ASSUME PeopleAssumption ==
    /\ Resolved \in [Nodes -> SUBSET Members]
    /\ Floor \subseteq Members /\ Admins \subseteq Members
    /\ Initiator \in Members \cup {Nobody}
    /\ Nobody \notin Members \cup Nodes
    /\ Racing \subseteq Ops /\ Consulted \subseteq Members
    /\ MaxExecutions \in Nat

VARIABLES
    inst,     \* the process_instance row
    exec,     \* the node_execution rows, with the rows that hang on them
    pc,       \* where each request is
    op,       \* the operation it performs
    copy,     \* the instance as its session loaded it
    seen,     \* the executions it loaded to act on
    who,      \* the member whose ask or assignment it loaded
    held,     \* the executions whose rows it has locked
    applied   \* history: runs of the completion callback

requestVars == <<pc, op, copy, seen, who, held>>
vars == <<inst, exec, applied, requestVars>>

\* data holds <<e, Nobody>> for the result of e and <<e, m>> for m's answer.
Instance ==
    [status : {"absent", "running", "completed", "canceled", "error"},
     node : Nodes \cup {Nobody}, data : SUBSET (Executions \X (Members \cup {Nobody}))]
NoInstance == [status |-> "absent", node |-> Nobody, data |-> {}]

Results == {"none", "positive", "negative", "answered", "canceled"}
\* requested counts a member's node_assignee rows with that status, decided are
\* the members with a row that says so, asks are the info requests.
Execution ==
    [node : Nodes \cup {Nobody}, status : {"none", "active", "completed"}, result : Results,
     requested : [Members -> Nat], decided : SUBSET Members,
     verdict : [Members -> {"none", "positive", "negative"}],
     asks : [Members -> {"none", "pending", "answered", "withdrawn"}]]
NoExecution ==
    [node |-> Nobody, status |-> "none", result |-> "none",
     requested |-> [m \in Members |-> 0], decided |-> {},
     verdict |-> [m \in Members |-> "none"], asks |-> [m \in Members |-> "none"]]

TypeOK ==
    /\ inst \in Instance
    /\ exec \in [Executions -> Execution]
    /\ pc \in [Requests -> {"idle", "loaded", "locked"}]
    /\ op \in [Requests -> Ops \cup {"none"}]
    /\ copy \in [Requests -> Instance]
    /\ seen \in [Requests -> SUBSET Executions]
    /\ who \in [Requests -> Members \cup {Nobody}]
    /\ held \in [Requests -> SUBSET Executions]
    /\ applied \in Nat

Init ==
    /\ inst = NoInstance
    /\ exec = [e \in Executions |-> NoExecution]
    /\ pc = [r \in Requests |-> "idle"]
    /\ op = [r \in Requests |-> "none"]
    /\ copy = [r \in Requests |-> NoInstance]
    /\ seen = [r \in Requests |-> {}]
    /\ who = [r \in Requests |-> Nobody]
    /\ held = [r \in Requests |-> {}]
    /\ applied = 0

ActiveIn(ex) == {e \in Executions : ex[e].status = "active"}
Active == ActiveIn(exec)

-----------------------------------------------------------------------------
(* The walk over the definition.                                            *)

\* Who is asked: the principals without the initiator, else the floor.
Approvers(n) ==
    LET others == Resolved[n] \ {Initiator}
    IN  IF others # {} THEN others ELSE Floor \ {Initiator}
Askees(n) == IF Resolved[n] # {} THEN Resolved[n] ELSE Floor
People(n) == IF TypeOf[n] = "approval" THEN Approvers(n) ELSE Askees(n)

\* _select_next: a negative verdict does not follow the default.
Choices(n, positive) ==
    Conditional[n] \cup (IF positive THEN {Default[n]} ELSE {Nobody})

\* The nodes a walk that enters n may come to: it passes auto nodes and no others.
Walk(n) ==
    {m \in Nodes : \A S \in SUBSET Nodes :
        n \in S /\ (\A a \in S : TypeOf[a] \in AutoTypes => Choices(a, TRUE) \subseteq S) => m \in S}

\* How a walk may end at a node: parked, complete, or in error.
Ends(n) ==
    CASE TypeOf[n] \in {"approval", "request_info"} ->
             {<<n, IF People(n) = {} THEN "error" ELSE "parked">>}
      [] TypeOf[n] = "end" -> {<<n, "complete">>}
      [] TypeOf[n] = "system" -> {<<n, "error">>}
      [] OTHER -> {}

\* Where a walk that enters a node may end, and how.
Stops == [n \in Nodes |-> UNION {Ends(m) : m \in Walk(n)}]

\* Where a walk may end that leaves n; with no transition to take it is rejected
\* (negative verdict) or in error.
After(n, positive) ==
    UNION {IF c # Nobody THEN Stops[c]
           ELSE {<<n, IF positive THEN "error" ELSE "complete">>} : c \in Choices(n, positive)}

\* Mutant: a walk that fails leaves the status alone.
LandedRunning(i, stop) ==
    [i EXCEPT !.node = IF stop[2] = "complete" THEN Nobody ELSE stop[1],
              !.status = IF stop[2] = "complete" THEN "completed" ELSE @]
\* The session's instance at the end of the walk.
Landed(i, stop) ==
    [i EXCEPT !.node = IF stop[2] = "complete" THEN Nobody ELSE stop[1],
              !.status = CASE stop[2] = "complete" -> "completed"
                           [] stop[2] = "error" -> "error"
                           [] OTHER -> @]

Activated(n) ==
    [NoExecution EXCEPT !.node = n, !.status = "active",
        !.requested = [m \in Members |-> IF m \in People(n) THEN 1 ELSE 0],
        !.asks = [m \in Members |-> IF TypeOf[n] = "request_info" /\ m \in People(n)
                                    THEN "pending" ELSE "none"]]

Unused(ex) == {e \in Executions : ex[e].status = "none"}
Room(stop) == stop[2] = "parked" => Unused(exec) # {}
\* The execution a walk leaves active where it parks.
Placed(ex, stop) ==
    IF stop[2] # "parked" THEN ex
    ELSE [ex EXCEPT ![CHOOSE e \in Unused(ex) : \A d \in Unused(ex) : e <= d] = Activated(stop[1])]

\* _complete_instance runs the owner's callback in the same transaction.
Apply(stop) == applied' = applied + (IF stop[2] = "complete" THEN 1 ELSE 0)

\* _complete_execution: outstanding asks die with the execution.
Completed(x, result) ==
    [x EXCEPT !.status = "completed", !.result = result,
              !.requested = [m \in Members |-> 0],
              !.asks = [m \in Members |-> IF @[m] = "pending" THEN "withdrawn" ELSE @[m]]]

-----------------------------------------------------------------------------
(* A request.                                                               *)

\* The host runs an operation alone unless it lets it race.
MayOverlap(r, what) == \A q \in Requests \ {r} : pc[q] = "idle" \/ {what, op[q]} \subseteq Racing

Load(r, what, S, m) ==
    /\ pc[r] = "idle" /\ inst.status # "absent"
    /\ MayOverlap(r, what)
    /\ pc' = [pc EXCEPT ![r] = "loaded"]
    /\ op' = [op EXCEPT ![r] = what]
    /\ copy' = [copy EXCEPT ![r] = inst]
    /\ seen' = [seen EXCEPT ![r] = S]
    /\ who' = [who EXCEPT ![r] = m]
    /\ UNCHANGED <<inst, exec, held, applied>>

\* The transaction is over: its locks are free, its copies are gone.
Closed(r) ==
    /\ pc' = [pc EXCEPT ![r] = "idle"]
    /\ op' = [op EXCEPT ![r] = "none"]
    /\ copy' = [copy EXCEPT ![r] = NoInstance]
    /\ seen' = [seen EXCEPT ![r] = {}]
    /\ who' = [who EXCEPT ![r] = Nobody]
    /\ held' = [held EXCEPT ![r] = {}]

\* A flush writes the attributes that changed since the load, and no others.
Flushed(r, new) ==
    [f \in DOMAIN inst |-> IF new[f] = copy[r][f] THEN inst[f] ELSE new[f]]

\* Mutant: the SELECT takes no lock.
FreeAlways(r, S) == TRUE
\* No other transaction holds a lock on these rows.
Free(r, S) == \A q \in Requests \ {r} : held[q] \cap S = {}

\* Any operation may be refused by a check, or fail and be rolled back.
Refuse(r) ==
    /\ pc[r] # "idle"
    /\ Closed(r)
    /\ UNCHANGED <<inst, exec, applied>>

open_instance(r) ==
    /\ inst.status = "absent" /\ pc[r] = "idle"
    /\ \E stop \in Stops[Start] :
        /\ Room(stop)
        /\ inst' = Landed([NoInstance EXCEPT !.status = "running"], stop)
        /\ exec' = Placed(exec, stop)
        /\ Apply(stop)
    /\ UNCHANGED requestVars

\* _load_active_execution: SELECT .. FOR UPDATE, after the check of the copy.
LockActive(r) ==
    /\ pc[r] = "loaded" /\ op[r] \in {"decide", "request_info"}
    /\ copy[r].status = "running"
    /\ Active # {} /\ Free(r, Active)
    /\ held' = [held EXCEPT ![r] = Active]
    /\ pc' = [pc EXCEPT ![r] = "locked"]
    /\ UNCHANGED <<inst, exec, applied, op, copy, seen, who>>

\* The walk goes on from a completed execution of this request.
Resume(r, ex, i, stop) ==
    /\ Room(stop)
    /\ exec' = Placed(ex, stop)
    /\ inst' = Flushed(r, Landed(i, stop))
    /\ Apply(stop)

MayAct(x, m) == x.requested[m] > 0 \/ m \in Admins

\* The verdict is added and the actor's own assignment, if any, is decided.
Voted(x, m, v) ==
    [x EXCEPT !.verdict[m] = v,
              !.decided = IF x.requested[m] > 0 THEN @ \cup {m} ELSE @,
              !.requested[m] = IF @ > 0 THEN @ - 1 ELSE 0]

\* quorum "all": every assignee still required has a positive verdict.
QuorumMet(x) ==
    \/ x.node \notin AllQuorum
    \/ \A m \in Members : x.requested[m] > 0 \/ m \in x.decided => x.verdict[m] = "positive"

decide(r) ==
    /\ pc[r] = "locked" /\ op[r] = "decide"
    /\ \E e \in held[r], m \in Members \ {Initiator}, v \in {"positive", "negative"} :
        /\ TypeOf[exec[e].node] = "approval"
        /\ MayAct(exec[e], m)
        /\ exec[e].verdict[m] = "none"
        /\ LET x == Voted(exec[e], m, v)
           IN  \/ /\ v = "positive" /\ ~ QuorumMet(x)
                  /\ exec' = [exec EXCEPT ![e] = x]
                  /\ UNCHANGED <<inst, applied>>
               \/ /\ v = "negative" \/ QuorumMet(x)
                  /\ \E stop \in After(x.node, v = "positive") :
                        Resume(r, [exec EXCEPT ![e] = Completed(x, v)],
                               [copy[r] EXCEPT !.data = @ \cup {<<e, Nobody>>}], stop)
    /\ Closed(r)

\* Bound: a member is asked at most once about an execution.
request_info(r) ==
    /\ pc[r] = "locked" /\ op[r] = "request_info"
    /\ \E e \in held[r], asker \in Members, m \in Consulted :
        /\ TypeOf[exec[e].node] = "approval"
        /\ MayAct(exec[e], asker)
        /\ exec[e].asks[m] = "none"
        /\ exec' = [exec EXCEPT ![e].asks[m] = "pending"]
    /\ Closed(r)
    /\ UNCHANGED <<inst, applied>>

LoadAsk(r) ==
    \E e \in Executions, m \in Members :
        /\ inst.status = "running" /\ exec[e].asks[m] = "pending"
        /\ Load(r, "answer_info", {e}, m)

\* The status of the execution is never looked at.
answer_info(r) ==
    /\ pc[r] = "loaded" /\ op[r] = "answer_info"
    /\ \E e \in seen[r] :
        LET n == exec[e].node
            x == [exec[e] EXCEPT !.asks[who[r]] = "answered"]
            answer == <<e, who[r]>>
        IN  \/ /\ TypeOf[n] = "approval"
               /\ exec' = [exec EXCEPT ![e] = x]
               /\ inst' = Flushed(r, [copy[r] EXCEPT !.data = @ \cup {answer}])
               /\ UNCHANGED applied
            \/ /\ TypeOf[n] = "request_info" /\ Free(r, {e})
               /\ \E stop \in After(n, TRUE) :
                     Resume(r, [exec EXCEPT ![e] = Completed(x, "answered")],
                            [copy[r] EXCEPT !.data = @ \cup {answer, <<e, Nobody>>}], stop)
    /\ Closed(r)

LoadRunning(r) == inst.status = "running" /\ Load(r, "cancel", Active, Nobody)

cancel(r) ==
    /\ pc[r] = "loaded" /\ op[r] = "cancel"
    /\ Free(r, seen[r])
    /\ exec' = [e \in Executions |->
                  IF e \in seen[r] THEN Completed(exec[e], "canceled") ELSE exec[e]]
    /\ inst' = Flushed(r, [copy[r] EXCEPT !.status = "canceled", !.node = Nobody])
    /\ Closed(r)
    /\ UNCHANGED applied

LoadErrored(r) == inst.status = "error" /\ Load(r, "retry", {}, Nobody)

retry(r) ==
    /\ pc[r] = "loaded" /\ op[r] = "retry"
    /\ copy[r].node # Nobody
    /\ \E stop \in Stops[copy[r].node] : Resume(r, exec, [copy[r] EXCEPT !.status = "running"], stop)
    /\ Closed(r)

LoadAssignee(r) ==
    \E e \in Active, m \in Members :
        exec[e].requested[m] > 0 /\ Load(r, "reassign", {e}, m)

\* The new row's foreign key waits for a lock on the execution.
reassign(r) ==
    /\ pc[r] = "loaded" /\ op[r] = "reassign"
    /\ Free(r, seen[r])
    /\ \E e \in seen[r], m \in Members :
        LET x == exec[e]
            freed == IF x.requested[who[r]] > 0
                     THEN [x EXCEPT !.requested[who[r]] = @ - 1]
                     ELSE [x EXCEPT !.decided = @ \ {who[r]}]
        IN  exec' = [exec EXCEPT ![e] = [freed EXCEPT !.requested[m] = @ + 1]]
    /\ Closed(r)
    /\ UNCHANGED <<inst, applied>>

Loads(r) ==
    \/ \E what \in {"decide", "request_info"} : Load(r, what, {}, Nobody)
    \/ LoadAsk(r) \/ LoadRunning(r) \/ LoadErrored(r) \/ LoadAssignee(r)

Next ==
    \E r \in Requests :
        \/ open_instance(r) \/ Loads(r) \/ LockActive(r) \/ Refuse(r)
        \/ decide(r) \/ request_info(r) \/ answer_info(r)
        \/ cancel(r) \/ retry(r) \/ reassign(r)

Spec == Init /\ [][Next]_vars

-----------------------------------------------------------------------------
(* What the engine promises.                                                *)

\* "Single active node per instance" (engine.py): no interleaving of requests
\* resumes the walk twice from the same step.
OneActiveNode == Cardinality(Active) <= 1

\* An instance runs exactly as long as one of its steps waits for somebody: it
\* never runs with nothing to act on, and never closes with a step left open, or
\* with something asked of anybody for a step that is over (_complete_execution).
RunningIffParked ==
    /\ inst.status = "running" <=> Active # {}
    /\ \A e \in Executions \ Active :
          \A m \in Members : exec[e].requested[m] = 0 /\ exec[e].asks[m] # "pending"

\* The owner's effect is applied exactly when the instance completes: not twice
\* by two verdicts, and not for an instance that was canceled or failed.
EffectOnce == applied = IF inst.status = "completed" THEN 1 ELSE 0
=============================================================================
