------------------------ MODULE WorkflowEngine_proofs ------------------------
(***************************************************************************)
(* Proofs about WorkflowEngine, for every graph, every set of people and   *)
(* any number of concurrent requests, of which the host lets decisions and *)
(* questions overlap (WorkflowDoubleAnswer.cfg shows that with overlapping *)
(* answers the walk can be resumed twice).                                 *)
(*                                                                         *)
(* Overlapping verdicts are kept apart by one thing: a request acts on the *)
(* executions it has locked, and those are all the active ones (LockTaken) *)
(* until it commits.  Its copy of the instance may be older than that, but *)
(* it says "running", which is what the row says while a step is active.   *)
(***************************************************************************)
EXTENDS WorkflowEngine, FiniteSetTheorems, TLAPS

\* The host lets verdicts and questions overlap, and nothing else.
Overlaps == Racing \subseteq {"decide", "request_info"}

Ending == Nodes \X {"parked", "error", "complete"}

\* What holds of a table of executions: rows are used in order, at most one step is
\* active, at a node of the graph, and nobody is asked anything for the others.
OneAtATime(ex) == \A e, d \in ActiveIn(ex) : e = d
AtANode(ex) == \A e \in ActiveIn(ex) : ex[e].node \in Nodes
OthersQuiet(ex) ==
    \A e \in Executions \ ActiveIn(ex) :
        \A m \in Members : ex[e].requested[m] = 0 /\ ex[e].asks[m] # "pending"
UsedInOrder(ex) ==
    \E n \in 0 .. MaxExecutions : \A e \in Executions : ex[e].status = "none" <=> e > n
Table(ex) ==
    /\ ex \in [Executions -> Execution]
    /\ OneAtATime(ex) /\ AtANode(ex) /\ OthersQuiet(ex) /\ UsedInOrder(ex)

\* What a request knows of the rows it has loaded.
Idle(r) == pc[r] # "locked" => held[r] = {}
LockTaken(r) ==
    pc[r] = "locked" =>
        /\ op[r] \in {"decide", "request_info"}
        /\ held[r] = Active /\ Active # {}
        /\ copy[r].status = "running"
        /\ \A q \in Requests \ {r} : pc[q] # "locked"
Opened(r) == pc[r] # "idle" => inst.status # "absent" /\ op[r] \in Ops
Alone(r) ==
    pc[r] # "idle" /\ op[r] \notin {"decide", "request_info"} =>
        /\ \A q \in Requests \ {r} : pc[q] = "idle"
        /\ pc[r] = "loaded" /\ copy[r] = inst
        /\ op[r] = "answer_info" =>
              /\ inst.status = "running" /\ who[r] \in Members
              /\ \E e \in Active : seen[r] = {e}
        /\ op[r] = "cancel" => inst.status = "running" /\ seen[r] = Active
        /\ op[r] = "retry" => inst.status = "error"
        /\ op[r] = "reassign" => who[r] \in Members /\ \E e \in Active : seen[r] = {e}

Knows(r) == Idle(r) /\ LockTaken(r) /\ Opened(r) /\ Alone(r)

IInv ==
    /\ TypeOK /\ Table(exec)
    /\ inst.status = "running" <=> Active # {}
    /\ EffectOnce
    /\ \A r \in Requests : Knows(r)

-----------------------------------------------------------------------------
(* What the operators of the walk return.                                   *)

\* A walk ends at a node, parked, complete or in error.
LEMMA StopsEnd ==
    ASSUME NEW n \in Nodes
    PROVE  Stops[n] \subseteq Ending
<1>1. ASSUME NEW m \in Nodes PROVE Ends(m) \subseteq Ending
    BY DEF Ends, Ending
<1>2. Walk(n) \subseteq Nodes BY DEF Walk
<1>3. Stops[n] = UNION {Ends(m) : m \in Walk(n)} BY DEF Stops
<1> QED BY <1>1, <1>2, <1>3

\* So does the walk that leaves a node.
LEMMA AfterEnds ==
    ASSUME NEW n \in Nodes, NEW positive \in BOOLEAN
    PROVE  After(n, positive) \subseteq Ending
<1>1. Choices(n, positive) \subseteq Nodes \cup {Nobody}
    BY DefinitionAssumption DEF Choices
<1>2. <<n, IF positive THEN "error" ELSE "complete">> \in Ending
    BY DEF Ending
<1> QED BY <1>1, <1>2, StopsEnd DEF After

\* Landing changes where the copy stands: parked it keeps its status.
LEMMA LandedIs ==
    ASSUME NEW i \in Instance, NEW stop \in Ending
    PROVE  /\ Landed(i, stop) \in Instance
           /\ Landed(i, stop).status =
                 [parked |-> i.status, error |-> "error", complete |-> "completed"][stop[2]]
<1> DEFINE node == IF stop[2] = "complete" THEN Nobody ELSE stop[1]
           status == CASE stop[2] = "complete" -> "completed"
                       [] stop[2] = "error" -> "error"
                       [] OTHER -> i.status
<1>2. stop[1] \in Nodes /\ stop[2] \in {"parked", "error", "complete"}
    BY DEF Ending
<1>3. status \in {"absent", "running", "completed", "canceled", "error"}
      /\ node \in Nodes \cup {Nobody}
    BY <1>2 DEF Instance
<1>4. Landed(i, stop) = [i EXCEPT !.node = node, !.status = status]
    BY DEF Landed
<1>5. status = [parked |-> i.status, error |-> "error", complete |-> "completed"][stop[2]]
    BY <1>2
<1>7. PICK s, n, j : s = status /\ n = node /\ j = Landed(i, stop) OBVIOUS
<1>8. /\ s \in {"absent", "running", "completed", "canceled", "error"}
      /\ n \in Nodes \cup {Nobody}
      /\ j = [i EXCEPT !.node = n, !.status = s]
    BY <1>3, <1>4, <1>7
<1>6. j \in Instance /\ j.status = s BY ONLY <1>8, i \in Instance DEF Instance
<1> QED BY <1>5, <1>6, <1>7

\* A flush leaves the status alone unless the request changed it.
LEMMA FlushedIs ==
    ASSUME NEW r \in Requests, NEW new \in Instance, inst \in Instance
    PROVE  /\ Flushed(r, new) \in Instance
           /\ Flushed(r, new).status =
                 IF new.status = copy[r].status THEN inst.status ELSE new.status
<1> DEFINE Pick(f) == IF new[f] = copy[r][f] THEN inst[f] ELSE new[f]
<1>1. DOMAIN inst = {"status", "node", "data"}
    BY DEF Instance
<1>2. Flushed(r, new) = [f \in {"status", "node", "data"} |-> Pick(f)]
    BY <1>1 DEF Flushed
<1>3. /\ Pick("status") \in {"absent", "running", "completed", "canceled", "error"}
      /\ Pick("node") \in Nodes \cup {Nobody}
      /\ Pick("data") \in SUBSET (Executions \X (Members \cup {Nobody}))
    BY DEF Instance
<1>4. Flushed(r, new) = [status |-> Pick("status"), node |-> Pick("node"), data |-> Pick("data")]
    BY <1>2
<1>5. Flushed(r, new) \in Instance
    BY <1>3, <1>4 DEF Instance
<1>6. Flushed(r, new).status = Pick("status")
    BY <1>2
<1> QED BY <1>5, <1>6

\* An execution that completes is asked of nobody.
LEMMA CompletedIs ==
    ASSUME NEW x \in Execution, NEW result \in Results
    PROVE  /\ Completed(x, result) \in Execution
           /\ Completed(x, result).status = "completed"
           /\ \A m \in Members : /\ Completed(x, result).requested[m] = 0
                                 /\ Completed(x, result).asks[m] # "pending"
  BY DEF Completed, Execution

\* The row of a step that starts to wait.
LEMMA ActivatedIs ==
    ASSUME NEW n \in Nodes
    PROVE  Activated(n) \in Execution /\ Activated(n).status = "active" /\ Activated(n).node = n
<1> DEFINE base == NoExecution
           asked == [m \in Members |-> IF m \in People(n) THEN 1 ELSE 0]
           asking == [m \in Members |-> IF TypeOf[n] = "request_info" /\ m \in People(n)
                                        THEN "pending" ELSE "none"]
<1>1. base = [node |-> Nobody, status |-> "none", result |-> "none",
              requested |-> [m \in Members |-> 0], decided |-> {},
              verdict |-> [m \in Members |-> "none"], asks |-> [m \in Members |-> "none"]]
    BY DEF NoExecution
<1>2. Activated(n) = [base EXCEPT !.node = n, !.status = "active", !.requested = asked, !.asks = asking]
    BY DEF Activated
<1>3. asked \in [Members -> Nat] /\ asking \in [Members -> {"none", "pending", "answered", "withdrawn"}]
    OBVIOUS
<1> HIDE DEF base, asked, asking
<1>4. Activated(n) = [node |-> n, status |-> "active", result |-> "none", requested |-> asked,
                      decided |-> {}, verdict |-> [m \in Members |-> "none"], asks |-> asking]
    BY <1>1, <1>2
<1> QED BY <1>3, <1>4 DEF Execution, Results

\* A table whose active step is over takes one more: the walk's next stop, if any.
LEMMA PlacedOne ==
    ASSUME NEW ex, Table(ex), ActiveIn(ex) = {}, NEW stop \in Ending,
           stop[2] = "parked" => Unused(ex) # {}
    PROVE  /\ Table(Placed(ex, stop))
           /\ ActiveIn(Placed(ex, stop)) # {} <=> stop[2] = "parked"
<1>1. CASE stop[2] # "parked"
    BY <1>1 DEF Placed
<1>2. CASE stop[2] = "parked"
  <2> DEFINE e == CHOOSE e \in Unused(ex) : \A d \in Unused(ex) : e <= d
             new == Activated(stop[1])
  <2>1. PICK n \in 0 .. MaxExecutions : \A d \in Executions : ex[d].status = "none" <=> d > n
      BY DEF Table, UsedInOrder
  <2>2. MaxExecutions \in Nat /\ Unused(ex) # {} /\ Unused(ex) \subseteq Executions
      BY <1>2, PeopleAssumption DEF Unused
  <2>3. n + 1 \in Unused(ex) /\ \A d \in Unused(ex) : n + 1 <= d
      BY <2>1, <2>2 DEF Unused, Executions
  <2>4. e \in Unused(ex) /\ \A d \in Unused(ex) : e <= d
      BY <2>3
  <2>5. e = n + 1 /\ e \in Executions
      BY <2>2, <2>3, <2>4 DEF Executions
  <2> HIDE DEF e
  <2>6. Placed(ex, stop) = [ex EXCEPT ![e] = new]
      BY <1>2 DEF Placed, e
  <2>7. new \in Execution /\ new.status = "active" /\ new.node = stop[1] /\ stop[1] \in Nodes
      BY ActivatedIs DEF Ending
  <2> HIDE DEF new
  <2> DEFINE nx == [ex EXCEPT ![e] = new]
  <2>8. ex \in [Executions -> Execution] BY DEF Table
  <2>9. nx \in [Executions -> Execution] BY <2>5, <2>7, <2>8
  <2>10. ActiveIn(nx) = {e}
      BY <2>5, <2>7, <2>8 DEF ActiveIn
  <2>11. OneAtATime(nx) /\ AtANode(nx)
      BY <2>5, <2>7, <2>8, <2>10 DEF OneAtATime, AtANode
  <2>12. OthersQuiet(nx)
      BY <2>5, <2>8, <2>10 DEF Table, OthersQuiet
  <2>13. UsedInOrder(nx)
    <3>1. n + 1 \in 0 .. MaxExecutions
        BY <2>2, <2>5 DEF Executions
    <3>2. \A d \in Executions : nx[d].status = "none" <=> d > n + 1
        BY <2>1, <2>2, <2>5, <2>7, <2>8 DEF Executions
    <3> QED BY <3>1, <3>2 DEF UsedInOrder
  <2> QED BY <1>2, <2>6, <2>9, <2>10, <2>11, <2>12, <2>13 DEF Table
<1> QED BY <1>1, <1>2

\* So does the table whose active step was written to and left active.
LEMMA RowKept ==
    ASSUME NEW ex, Table(ex), NEW e, e \in ActiveIn(ex), NEW x, x \in Execution,
           NEW nx, nx = [ex EXCEPT ![e] = x],
           x.status = "active", x.node = ex[e].node
    PROVE  Table(nx) /\ ActiveIn(nx) = ActiveIn(ex)
<1>1. ex \in [Executions -> Execution] /\ e \in Executions /\ ex[e].status = "active"
    BY DEF Table, ActiveIn
<1>2. ActiveIn(ex) = {e}
    BY DEF Table, OneAtATime
<1>3. \A d \in Executions : nx[d] = IF d = e THEN x ELSE ex[d]
    BY <1>1
<1>4. nx \in [Executions -> Execution]
    BY <1>1
<1>5. ActiveIn(nx) = ActiveIn(ex)
    BY <1>1, <1>2, <1>3 DEF ActiveIn
<1>6. OneAtATime(nx) BY <1>2, <1>5 DEF OneAtATime
<1>7. AtANode(nx)
    BY <1>1, <1>2, <1>3, <1>5 DEF AtANode, Table
<1>8. OthersQuiet(nx)
    BY <1>2, <1>3, <1>5 DEF OthersQuiet, Table
<1>9. x.status # "none" OBVIOUS
<1>10. UsedInOrder(nx) BY <1>1, <1>3, <1>9 DEF UsedInOrder, Table
<1> QED BY <1>4, <1>5, <1>6, <1>7, <1>8, <1>10 DEF Table

\* So does the table whose active step is over.
LEMMA RowClosed ==
    ASSUME NEW ex, Table(ex), NEW e, e \in ActiveIn(ex), NEW x, x \in Execution,
           NEW nx, nx = [ex EXCEPT ![e] = x],
           x.status = "completed",
           \A m \in Members : x.requested[m] = 0 /\ x.asks[m] # "pending"
    PROVE  Table(nx) /\ ActiveIn(nx) = {}
<1>1. ex \in [Executions -> Execution] /\ e \in Executions /\ ex[e].status = "active"
    BY DEF Table, ActiveIn
<1>2. ActiveIn(ex) = {e}
    BY DEF Table, OneAtATime
<1>3. \A d \in Executions : nx[d] = IF d = e THEN x ELSE ex[d]
    BY <1>1
<1>4. nx \in [Executions -> Execution]
    BY <1>1
<1>5. ActiveIn(nx) = {}
    BY <1>1, <1>2, <1>3 DEF ActiveIn
<1>6. OneAtATime(nx) BY <1>2, <1>5 DEF OneAtATime
<1>7. AtANode(nx)
    BY <1>1, <1>2, <1>3, <1>5 DEF AtANode, Table
<1>8. OthersQuiet(nx)
    BY <1>2, <1>3, <1>5 DEF OthersQuiet, Table
<1>9. x.status # "none" OBVIOUS
<1>10. UsedInOrder(nx) BY <1>1, <1>3, <1>9 DEF UsedInOrder, Table
<1> QED BY <1>4, <1>5, <1>6, <1>7, <1>8, <1>10 DEF Table

-----------------------------------------------------------------------------
(* What the parts of a step keep.                                           *)

\* The end of a transaction concerns its own request only.
LEMMA ClosedIs ==
    ASSUME TypeOK, NEW r \in Requests, Closed(r)
    PROVE  /\ pc' \in [Requests -> {"idle", "loaded", "locked"}]
           /\ op' \in [Requests -> Ops \cup {"none"}]
           /\ copy' \in [Requests -> Instance]
           /\ seen' \in [Requests -> SUBSET Executions]
           /\ who' \in [Requests -> Members \cup {Nobody}]
           /\ held' \in [Requests -> SUBSET Executions]
           /\ pc'[r] = "idle" /\ held'[r] = {}
           /\ \A q \in Requests \ {r} :
                 /\ pc'[q] = pc[q] /\ op'[q] = op[q] /\ copy'[q] = copy[q]
                 /\ seen'[q] = seen[q] /\ who'[q] = who[q] /\ held'[q] = held[q]
<1>1. NoInstance \in Instance
    BY DEF NoInstance, Instance
<1> QED BY <1>1 DEF TypeOK, Closed

\* When a request ends, what the others know stays true: they hold no lock on what
\* it changed, and the operations that run alone have no others.
LEMMA OthersKnow ==
    ASSUME IInv, NEW r \in Requests, pc[r] # "idle", Closed(r), inst'.status # "absent",
           \/ Active' = Active
           \/ \A q \in Requests \ {r} : pc[q] # "locked"
    PROVE  \A q \in Requests : Knows(q)'
<1>1. TypeOK BY DEF IInv
<1>2. Knows(r)'
    BY <1>1, ClosedIs DEF Knows, Idle, LockTaken, Opened, Alone
<1>3. ASSUME NEW q \in Requests \ {r} PROVE Knows(q)'
  <2>1. Knows(q) BY <1>3 DEF IInv
  <2>2. /\ pc'[q] = pc[q] /\ op'[q] = op[q] /\ copy'[q] = copy[q]
        /\ seen'[q] = seen[q] /\ who'[q] = who[q] /\ held'[q] = held[q]
      BY <1>1, <1>3, ClosedIs
  <2>3. Idle(q)' BY <2>1, <2>2 DEF Knows, Idle
  <2>4. LockTaken(q)'
      BY <1>1, <1>3, <2>1, <2>2, ClosedIs DEF Knows, LockTaken
  <2>5. Opened(q)' BY <2>1, <2>2 DEF Knows, Opened
  <2>6. Alone(q)' BY <2>1, <2>2 DEF Knows, Alone
  <2> QED BY <2>3, <2>4, <2>5, <2>6 DEF Knows
<1> QED BY <1>2, <1>3

\* The walk that goes on leaves the row of the instance saying what the table says,
\* and runs the callback when it completes.
LEMMA ResumeKeeps ==
    ASSUME IInv, NEW r \in Requests,
           NEW ex, Table(ex), ActiveIn(ex) = {}, Unused(ex) = Unused(exec),
           NEW i \in Instance, i.status = "running", NEW stop \in Ending,
           \/ copy[r].status = "running" /\ inst.status = "running"
           \/ copy[r] = inst /\ inst.status = "error",
           Resume(r, ex, i, stop)
    PROVE  /\ inst' \in Instance /\ Table(exec') /\ applied' \in Nat
           /\ inst'.status = "running" <=> Active' # {}
           /\ inst'.status # "absent"
           /\ EffectOnce'
<1> DEFINE s == [parked |-> "running", error |-> "error", complete |-> "completed"][stop[2]]
<1>1. Landed(i, stop) \in Instance /\ Landed(i, stop).status = s
    BY LandedIs
<1>2. stop[2] \in {"parked", "error", "complete"} BY DEF Ending
<1>3. inst \in Instance BY DEF IInv, TypeOK
<1>4. inst' \in Instance /\ inst'.status = s
    BY <1>1, <1>2, <1>3, FlushedIs DEF Resume
<1>5. Table(exec') /\ (ActiveIn(exec') # {} <=> stop[2] = "parked")
    BY PlacedOne DEF Resume, Room
<1>6. applied = 0 BY DEF IInv, EffectOnce
<1>7. applied' = IF stop[2] = "complete" THEN 1 ELSE 0
    BY <1>6 DEF Resume, Apply
<1>8. s = "running" <=> stop[2] = "parked" BY <1>2
<1>9. s = "completed" <=> stop[2] = "complete" BY <1>2
<1>10. s # "absent" BY <1>2
<1> HIDE DEF s
<1>11. inst'.status = "running" <=> Active' # {}
    BY <1>4, <1>5, <1>8 DEF Active
<1>12. EffectOnce' BY <1>4, <1>7, <1>9 DEF EffectOnce
<1> QED BY <1>4, <1>5, <1>7, <1>10, <1>11, <1>12

\* What a step that ends a request has to show.
LEMMA EndsWell ==
    ASSUME IInv, NEW r \in Requests, pc[r] # "idle", Closed(r),
           inst' \in Instance, Table(exec'), applied' \in Nat,
           inst'.status = "running" <=> Active' # {},
           inst'.status # "absent", EffectOnce',
           \/ Active' = Active
           \/ \A q \in Requests \ {r} : pc[q] # "locked"
    PROVE  IInv'
<1>1. \A q \in Requests : Knows(q)' BY OthersKnow
<1>2. TypeOK' BY ClosedIs DEF IInv, TypeOK, Table
<1> QED BY <1>1, <1>2 DEF IInv

-----------------------------------------------------------------------------
(* The steps.                                                               *)

LEMMA InitKeeps == Init => IInv
<1> SUFFICES ASSUME Init PROVE IInv OBVIOUS
<1>1. NoInstance \in Instance /\ NoInstance.status = "absent"
    BY DEF NoInstance, Instance
<1>2. NoExecution \in Execution /\ NoExecution.status = "none"
      /\ \A m \in Members : NoExecution.requested[m] = 0 /\ NoExecution.asks[m] = "none"
    BY DEF NoExecution, Execution, Results
<1>3. TypeOK BY <1>1, <1>2 DEF Init, TypeOK
<1>4. Active = {} /\ ActiveIn(exec) = {} BY <1>2 DEF Init, Active, ActiveIn
<1>5. UsedInOrder(exec)
    BY <1>2, PeopleAssumption DEF Init, UsedInOrder, Executions
<1>6. Table(exec)
    BY <1>2, <1>3, <1>4, <1>5 DEF Init, Table, TypeOK, OneAtATime, AtANode, OthersQuiet
<1>7. EffectOnce BY <1>1 DEF Init, EffectOnce
<1>8. \A r \in Requests : Knows(r) BY DEF Init, Knows, Idle, LockTaken, Opened, Alone
<1> QED BY <1>1, <1>3, <1>4, <1>6, <1>7, <1>8 DEF IInv, Init

LEMMA OpenKeeps ==
    ASSUME IInv, NEW r \in Requests, open_instance(r)
    PROVE  IInv'
<1>1. PICK stop \in Stops[Start] :
         /\ Room(stop)
         /\ inst' = Landed([NoInstance EXCEPT !.status = "running"], stop)
         /\ exec' = Placed(exec, stop)
         /\ Apply(stop)
    BY DEF open_instance
<1>2. stop \in Ending BY StopsEnd, DefinitionAssumption
<1> DEFINE base == NoInstance
           i == [base EXCEPT !.status = "running"]
           s == [parked |-> "running", error |-> "error", complete |-> "completed"][stop[2]]
<1>3. base = [status |-> "absent", node |-> Nobody, data |-> {}] BY DEF NoInstance
<1>4. inst' = Landed(i, stop) BY <1>1
<1> HIDE DEF base
<1>5. i \in Instance /\ i.status = "running" BY <1>3 DEF Instance
<1> HIDE DEF i
<1>6. inst' \in Instance /\ inst'.status = s BY <1>2, <1>4, <1>5, LandedIs
<1>7. inst.status = "absent" /\ Active = {} BY DEF open_instance, IInv
<1>8. Table(exec') /\ (ActiveIn(exec') # {} <=> stop[2] = "parked")
    BY <1>1, <1>2, <1>7, PlacedOne DEF Room, IInv, Active
<1>9. applied' = IF stop[2] = "complete" THEN 1 ELSE 0
    BY <1>1, <1>7 DEF Apply, IInv, EffectOnce
<1>10. stop[2] \in {"parked", "error", "complete"} BY <1>2 DEF Ending
<1>11. s = "running" <=> stop[2] = "parked" BY <1>10
<1>12. s = "completed" <=> stop[2] = "complete" BY <1>10
<1> HIDE DEF s
<1>13. inst'.status = "running" <=> Active' # {} BY <1>6, <1>8, <1>11 DEF Active
<1>14. EffectOnce' BY <1>6, <1>9, <1>12 DEF EffectOnce
<1>15. \A q \in Requests : pc[q] = "idle" BY <1>7 DEF IInv, Knows, Opened
<1>16. \A q \in Requests : Knows(q)'
    BY <1>15 DEF IInv, Knows, Idle, LockTaken, Opened, Alone, open_instance, requestVars
<1>17. TypeOK' BY <1>6, <1>8, <1>9 DEF IInv, TypeOK, Table, open_instance, requestVars
<1> QED BY <1>8, <1>13, <1>14, <1>16, <1>17 DEF IInv

\* The load of an operation that may overlap with those under way.
LEMMA LoadKeeps ==
    ASSUME IInv, Overlaps, NEW r \in Requests, NEW what \in Ops,
           NEW S \in SUBSET Executions, NEW m \in Members \cup {Nobody}, Load(r, what, S, m),
           what = "answer_info" =>
               inst.status = "running" /\ m \in Members /\ \E e \in Active : S = {e},
           what = "cancel" => inst.status = "running" /\ S = Active,
           what = "retry" => inst.status = "error",
           what = "reassign" => m \in Members /\ \E e \in Active : S = {e}
    PROVE  IInv'
<1>1. TypeOK BY DEF IInv
<1>2. Active' = Active BY DEF Load, Active
<1>3. /\ pc[r] = "idle" /\ pc'[r] = "loaded" /\ op'[r] = what /\ copy'[r] = inst
      /\ seen'[r] = S /\ who'[r] = m /\ held' = held /\ inst' = inst
    BY <1>1 DEF Load, TypeOK
<1>4. \A q \in Requests \ {r} :
         /\ pc'[q] = pc[q] /\ op'[q] = op[q] /\ copy'[q] = copy[q]
         /\ seen'[q] = seen[q] /\ who'[q] = who[q]
    BY <1>1 DEF Load, TypeOK
<1>5. Knows(r)'
  <2>1. Idle(r)' BY <1>3 DEF IInv, Knows, Idle
  <2>2. LockTaken(r)' BY <1>3 DEF LockTaken
  <2>3. Opened(r)' BY <1>3 DEF Opened, Load
  <2>4. what \notin {"decide", "request_info"} => \A q \in Requests \ {r} : pc'[q] = "idle"
      BY <1>4 DEF Load, MayOverlap, Overlaps
  <2>5. Alone(r)' BY <1>2, <1>3, <2>4 DEF Alone
  <2> QED BY <2>1, <2>2, <2>3, <2>5 DEF Knows
<1>6. ASSUME NEW q \in Requests \ {r} PROVE Knows(q)'
  <2>1. Knows(q) BY <1>6 DEF IInv
  <2>2. Idle(q)' BY <1>3, <1>4, <2>1 DEF Knows, Idle
  <2>3. LockTaken(q)' BY <1>2, <1>3, <1>4, <2>1 DEF Knows, LockTaken
  <2>4. Opened(q)' BY <1>3, <1>4, <2>1 DEF Knows, Opened
  <2>5. pc[q] = "idle" \/ op[q] \in {"decide", "request_info"}
      BY <1>6 DEF Load, MayOverlap, Overlaps
  <2>6. Alone(q)' BY <1>4, <2>5 DEF Alone
  <2> QED BY <2>2, <2>3, <2>4, <2>6 DEF Knows
<1>7. TypeOK' BY <1>1, <1>3 DEF TypeOK, Load
<1>8. UNCHANGED <<inst, exec, applied>> BY DEF Load
<1> QED BY <1>2, <1>5, <1>6, <1>7, <1>8 DEF IInv, EffectOnce

\* Each load finds what its operation relies on.
LEMMA LoadsKeep ==
    ASSUME IInv, Overlaps, NEW r \in Requests, Loads(r)
    PROVE  IInv'
<1>1. CASE \E what \in {"decide", "request_info"} : Load(r, what, {}, Nobody)
    BY <1>1, LoadKeeps DEF Ops
<1>2. CASE LoadAsk(r)
  <2>1. PICK e \in Executions, m \in Members :
           /\ inst.status = "running" /\ exec[e].asks[m] = "pending"
           /\ Load(r, "answer_info", {e}, m)
      BY <1>2 DEF LoadAsk
  <2>2. e \in Active BY <2>1 DEF IInv, Table, OthersQuiet, Active
  <2> QED BY <2>1, <2>2, LoadKeeps DEF Ops
<1>3. CASE LoadRunning(r)
  <2>1. Active \in SUBSET Executions BY DEF Active, ActiveIn
  <2> QED BY <1>3, <2>1, LoadKeeps DEF LoadRunning, Ops
<1>4. CASE LoadErrored(r)
    BY <1>4, LoadKeeps DEF LoadErrored, Ops
<1>5. CASE LoadAssignee(r)
  <2>1. PICK e \in Active, m \in Members : Load(r, "reassign", {e}, m)
      BY <1>5 DEF LoadAssignee
  <2>2. e \in Executions BY DEF Active, ActiveIn
  <2> QED BY <2>1, <2>2, LoadKeeps DEF Ops
<1> QED BY <1>1, <1>2, <1>3, <1>4, <1>5 DEF Loads

\* The lock is on every active execution, and nobody else holds one.
LEMMA LockKeeps ==
    ASSUME IInv, NEW r \in Requests, LockActive(r)
    PROVE  IInv'
<1>1. TypeOK BY DEF IInv
<1>2. Active' = Active /\ Active \in SUBSET Executions BY DEF LockActive, Active, ActiveIn
<1>3. /\ pc[r] = "loaded" /\ pc'[r] = "locked" /\ held'[r] = Active
      /\ UNCHANGED <<inst, exec, applied, op, copy, seen, who>>
    BY <1>1, <1>2 DEF LockActive, TypeOK
<1>4. \A q \in Requests \ {r} : pc'[q] = pc[q] /\ held'[q] = held[q]
    BY <1>1 DEF LockActive, TypeOK
<1>5. \A q \in Requests \ {r} : pc[q] # "locked"
    BY DEF IInv, Knows, LockTaken, LockActive, Free
<1>6. Knows(r)'
  <2>1. Idle(r)' BY <1>3 DEF Idle
  <2>2. LockTaken(r)' BY <1>2, <1>3, <1>4, <1>5 DEF LockTaken, LockActive
  <2>3. Opened(r)' BY <1>3 DEF IInv, Knows, Opened
  <2>4. Alone(r)' BY <1>3 DEF Alone, LockActive
  <2> QED BY <2>1, <2>2, <2>3, <2>4 DEF Knows
<1>7. ASSUME NEW q \in Requests \ {r} PROVE Knows(q)'
  <2>1. Knows(q) BY <1>7 DEF IInv
  <2>2. Idle(q)' BY <1>4, <2>1 DEF Knows, Idle
  <2>3. LockTaken(q)' BY <1>4, <1>5, <1>7 DEF LockTaken
  <2>4. Opened(q)' BY <1>3, <1>4, <2>1 DEF Knows, Opened
  <2>5. Alone(q)' BY <1>3, <1>4, <1>7, <2>1 DEF Knows, Alone
  <2> QED BY <2>2, <2>3, <2>4, <2>5 DEF Knows
<1>8. TypeOK' BY <1>1, <1>2, <1>3 DEF TypeOK, LockActive
<1> QED BY <1>2, <1>3, <1>6, <1>7, <1>8 DEF IInv, EffectOnce

\* A refused request leaves the rows as they are.
LEMMA RefuseKeeps ==
    ASSUME IInv, NEW r \in Requests, Refuse(r)
    PROVE  IInv'
<1>1. UNCHANGED <<inst, exec, applied>> /\ Closed(r) /\ pc[r] # "idle" BY DEF Refuse
<1>2. Active' = Active /\ EffectOnce' BY <1>1 DEF Active, IInv, EffectOnce
<1>3. inst' \in Instance /\ Table(exec') /\ applied' \in Nat BY <1>1 DEF IInv, TypeOK
<1>4. inst.status # "absent" BY <1>1 DEF IInv, Knows, Opened
<1>5. inst'.status = "running" <=> Active' # {} BY <1>1, <1>2 DEF IInv
<1> QED BY <1>1, <1>2, <1>3, <1>4, <1>5, EndsWell

\* A vote leaves the step as it is until it decides.
LEMMA VotedIs ==
    ASSUME NEW x \in Execution, NEW m \in Members, NEW v \in {"positive", "negative"}
    PROVE  /\ Voted(x, m, v) \in Execution
           /\ Voted(x, m, v).status = x.status /\ Voted(x, m, v).node = x.node
<1> DEFINE left == IF x.requested[m] > 0 THEN x.requested[m] - 1 ELSE 0
           after == IF x.requested[m] > 0 THEN x.decided \cup {m} ELSE x.decided
           votes == [x.verdict EXCEPT ![m] = v]
           asked == [x.requested EXCEPT ![m] = left]
<1>1. x = [node |-> x.node, status |-> x.status, result |-> x.result, requested |-> x.requested,
           decided |-> x.decided, verdict |-> x.verdict, asks |-> x.asks]
    BY DEF Execution
<1>2. left \in Nat BY DEF Execution
<1>3. after \in SUBSET Members /\ votes \in [Members -> {"none", "positive", "negative"}]
    BY DEF Execution
<1>4. asked \in [Members -> Nat] BY <1>2 DEF Execution
<1>5. Voted(x, m, v) = [x EXCEPT !.verdict = votes, !.decided = after, !.requested = asked]
    BY DEF Voted
<1> HIDE DEF left, after, votes, asked
<1>6. Voted(x, m, v) = [node |-> x.node, status |-> x.status, result |-> x.result,
          requested |-> asked, decided |-> after, verdict |-> votes, asks |-> x.asks]
    BY <1>1, <1>5
<1> QED BY <1>3, <1>4, <1>6 DEF Execution

\* A request that holds the lock holds the one active execution, alone.
LEMMA LockedIs ==
    ASSUME IInv, NEW r \in Requests, pc[r] = "locked", NEW e \in held[r]
    PROVE  /\ e \in ActiveIn(exec) /\ exec[e] \in Execution /\ exec[e].node \in Nodes
           /\ e \in Executions /\ exec[e].status = "active"
           /\ copy[r] \in Instance
           /\ inst.status = "running" /\ copy[r].status = "running"
           /\ \A q \in Requests \ {r} : pc[q] # "locked"
<1>1. LockTaken(r) BY DEF IInv, Knows
<1>2. e \in ActiveIn(exec) /\ inst.status = "running" BY <1>1 DEF LockTaken, IInv, Active
<1>3. e \in Executions /\ exec[e].status = "active" BY <1>2 DEF ActiveIn
<1> QED BY <1>1, <1>2, <1>3 DEF IInv, TypeOK, Table, LockTaken, AtANode

\* An ended transaction that wrote to the active step and left it active.
LEMMA WrittenKeeps ==
    ASSUME IInv, NEW r \in Requests, pc[r] # "idle", Closed(r),
           NEW e \in ActiveIn(exec), NEW x \in Execution,
           x.status = "active", x.node = exec[e].node,
           exec' = [exec EXCEPT ![e] = x],
           inst' \in Instance, inst'.status = inst.status, applied' = applied
    PROVE  IInv'
<1>0. Table(exec) BY DEF IInv
<1>7. PICK ex : ex = [exec EXCEPT ![e] = x] OBVIOUS
<1>10. e \in ActiveIn(exec) /\ x \in Execution /\ x.status = "active" /\ x.node = exec[e].node
    OBVIOUS
<1>8. Table(ex) /\ ActiveIn(ex) = ActiveIn(exec) BY ONLY <1>0, <1>7, <1>10, RowKept
<1>1. Table(exec') /\ ActiveIn(exec') = ActiveIn(exec) BY <1>7, <1>8
<1>2. Active' = Active BY <1>1 DEF Active
<1>3. inst.status # "absent" BY DEF IInv, Knows, Opened
<1>4. EffectOnce' /\ applied' \in Nat BY DEF IInv, EffectOnce, TypeOK
<1>5. inst'.status = "running" <=> Active' # {} BY <1>2 DEF IInv
<1> QED BY <1>1, <1>2, <1>3, <1>4, <1>5, EndsWell

\* An ended transaction that completed the active step and walked on.
LEMMA ResumedKeeps ==
    ASSUME IInv, NEW r \in Requests, pc[r] # "idle", Closed(r),
           \A q \in Requests \ {r} : pc[q] # "locked",
           inst.status = "running", copy[r].status = "running",
           NEW e \in ActiveIn(exec), NEW x \in Execution, NEW result \in Results,
           NEW i \in Instance, i.status = "running", NEW stop \in Ending,
           Resume(r, [exec EXCEPT ![e] = Completed(x, result)], i, stop)
    PROVE  IInv'
<1>0. Table(exec) BY DEF IInv
<1>6. PICK c, ex : c = Completed(x, result) /\ ex = [exec EXCEPT ![e] = c] OBVIOUS
<1>4. /\ c \in Execution /\ c.status = "completed"
      /\ \A m \in Members : c.requested[m] = 0 /\ c.asks[m] # "pending"
    BY <1>6, CompletedIs
<1>5. ex = [exec EXCEPT ![e] = c] BY <1>6
<1>2. Resume(r, ex, i, stop) BY <1>6
<1>7. e \in ActiveIn(exec) OBVIOUS
<1>8. Table(ex) /\ ActiveIn(ex) = {} BY ONLY <1>0, <1>4, <1>5, <1>7, RowClosed
<1>9. e \in Executions /\ exec[e].status = "active" /\ exec \in [Executions -> Execution]
    BY <1>0, <1>7 DEF ActiveIn, Table
<1>1. Unused(ex) = Unused(exec) BY <1>4, <1>5, <1>9 DEF Unused
<1>3. /\ inst' \in Instance /\ Table(exec') /\ applied' \in Nat
      /\ inst'.status = "running" <=> Active' # {}
      /\ inst'.status # "absent" /\ EffectOnce'
    BY <1>1, <1>2, <1>8, ResumeKeeps
<1> QED BY <1>3, EndsWell

\* More data leave a copy as it was.
LEMMA DataAdded ==
    ASSUME NEW i \in Instance, NEW more \in SUBSET (Executions \X (Members \cup {Nobody}))
    PROVE  /\ [i EXCEPT !.data = @ \cup more] \in Instance
           /\ [i EXCEPT !.data = @ \cup more].status = i.status
<1> DEFINE data == i.data \cup more
<1>1. i = [status |-> i.status, node |-> i.node, data |-> i.data] BY DEF Instance
<1>2. [i EXCEPT !.data = @ \cup more] = [status |-> i.status, node |-> i.node, data |-> data]
    BY <1>1
<1>3. data \in SUBSET (Executions \X (Members \cup {Nobody})) BY DEF Instance
<1> QED BY <1>2, <1>3 DEF Instance

\* A verdict is written, and if it decides the walk goes on.
LEMMA DecideKeeps ==
    ASSUME IInv, NEW r \in Requests, decide(r)
    PROVE  IInv'
<1>1. pc[r] = "locked" /\ Closed(r) BY DEF decide
<1>2. PICK e \in held[r], m \in Members \ {Initiator}, v \in {"positive", "negative"} :
        LET x == Voted(exec[e], m, v)
        IN  \/ /\ exec' = [exec EXCEPT ![e] = x]
               /\ UNCHANGED <<inst, applied>>
            \/ \E stop \in After(x.node, v = "positive") :
                  Resume(r, [exec EXCEPT ![e] = Completed(x, v)],
                         [copy[r] EXCEPT !.data = @ \cup {<<e, Nobody>>}], stop)
    BY DEF decide
<1> DEFINE x == Voted(exec[e], m, v)
           i == [copy[r] EXCEPT !.data = @ \cup {<<e, Nobody>>}]
<1>3. /\ e \in ActiveIn(exec) /\ exec[e] \in Execution /\ exec[e].node \in Nodes
      /\ e \in Executions /\ exec[e].status = "active" /\ copy[r] \in Instance
      /\ inst.status = "running" /\ copy[r].status = "running"
      /\ \A q \in Requests \ {r} : pc[q] # "locked"
    BY <1>1, LockedIs
<1>4. x \in Execution /\ x.status = "active" /\ x.node = exec[e].node
    BY <1>3, VotedIs
<1>8. {<<e, Nobody>>} \in SUBSET (Executions \X (Members \cup {Nobody})) BY <1>3
<1>5. i \in Instance /\ i.status = "running"
    BY <1>3, <1>8, DataAdded
<1>6. CASE exec' = [exec EXCEPT ![e] = x] /\ UNCHANGED <<inst, applied>>
  <2> HIDE DEF x
  <2> QED BY <1>1, <1>3, <1>4, <1>6, WrittenKeeps DEF IInv, TypeOK
<1>7. ASSUME NEW stop \in After(x.node, v = "positive"),
             Resume(r, [exec EXCEPT ![e] = Completed(x, v)], i, stop)
      PROVE  IInv'
  <2> HIDE DEF x, i
  <2>1. stop \in Ending BY <1>3, <1>4, AfterEnds
  <2>2. v \in Results BY DEF Results
  <2> QED BY <1>1, <1>3, <1>4, <1>5, <1>7, <2>1, <2>2, ResumedKeeps
<1> QED BY <1>2, <1>6, <1>7

\* A question to somebody leaves the step active.
LEMMA RequestInfoKeeps ==
    ASSUME IInv, NEW r \in Requests, request_info(r)
    PROVE  IInv'
<1>1. pc[r] = "locked" /\ Closed(r) /\ UNCHANGED <<inst, applied>> BY DEF request_info
<1>2. PICK e \in held[r], m \in Consulted : exec' = [exec EXCEPT ![e].asks[m] = "pending"]
    BY DEF request_info
<1>3. e \in ActiveIn(exec) /\ exec[e] \in Execution /\ e \in Executions /\ exec[e].status = "active"
    BY <1>1, LockedIs
<1> DEFINE x == [exec[e] EXCEPT !.asks[m] = "pending"]
<1>4. exec \in [Executions -> Execution] BY DEF IInv, Table
<1>5. exec' = [exec EXCEPT ![e] = x] BY <1>2, <1>3, <1>4
<1>6. x \in Execution /\ x.status = "active" /\ x.node = exec[e].node
    BY <1>3, PeopleAssumption DEF Execution
<1> HIDE DEF x
<1> QED BY <1>1, <1>3, <1>5, <1>6, WrittenKeeps DEF IInv, TypeOK

\* An answer to an approver is noted; an answer to a request_info node completes it,
\* and the walk goes on.
LEMMA AnswerKeeps ==
    ASSUME IInv, NEW r \in Requests, answer_info(r)
    PROVE  IInv'
<1>1. /\ pc[r] = "loaded" /\ op[r] = "answer_info" /\ Closed(r)
      /\ \A q \in Requests \ {r} : pc[q] = "idle"
      /\ copy[r] = inst /\ inst \in Instance /\ inst.status = "running" /\ who[r] \in Members
    BY DEF answer_info, IInv, Knows, Alone, TypeOK
<1>2. PICK e \in seen[r] :
        LET n == exec[e].node
            x == [exec[e] EXCEPT !.asks[who[r]] = "answered"]
            answer == <<e, who[r]>>
        IN  \/ /\ exec' = [exec EXCEPT ![e] = x]
               /\ inst' = Flushed(r, [copy[r] EXCEPT !.data = @ \cup {answer}])
               /\ UNCHANGED applied
            \/ \E stop \in After(n, TRUE) :
                  Resume(r, [exec EXCEPT ![e] = Completed(x, "answered")],
                         [copy[r] EXCEPT !.data = @ \cup {answer, <<e, Nobody>>}], stop)
    BY DEF answer_info
<1> DEFINE x == [exec[e] EXCEPT !.asks[who[r]] = "answered"]
           i == [copy[r] EXCEPT !.data = @ \cup {<<e, who[r]>>}]
           j == [copy[r] EXCEPT !.data = @ \cup {<<e, who[r]>>, <<e, Nobody>>}]
<1>3. e \in ActiveIn(exec) BY <1>1 DEF IInv, Knows, Alone, Active
<1>4. /\ e \in Executions /\ exec[e] \in Execution /\ exec[e].status = "active"
      /\ exec[e].node \in Nodes
    BY <1>3 DEF ActiveIn, IInv, Table, AtANode
<1>5. x \in Execution /\ x.status = "active" /\ x.node = exec[e].node
    BY <1>1, <1>4 DEF Execution
<1>10. /\ {<<e, who[r]>>} \in SUBSET (Executions \X (Members \cup {Nobody}))
       /\ {<<e, who[r]>>, <<e, Nobody>>} \in SUBSET (Executions \X (Members \cup {Nobody}))
    BY <1>1, <1>4
<1>6. i \in Instance /\ i.status = "running" BY <1>1, <1>10, DataAdded
<1>7. j \in Instance /\ j.status = "running" BY <1>1, <1>10, DataAdded
<1>8. CASE exec' = [exec EXCEPT ![e] = x] /\ inst' = Flushed(r, i) /\ UNCHANGED applied
  <2> HIDE DEF x, i
  <2>1. inst' \in Instance /\ inst'.status = inst.status BY <1>1, <1>6, <1>8, FlushedIs
  <2> QED BY <1>1, <1>3, <1>5, <1>8, <2>1, WrittenKeeps
<1>9. ASSUME NEW stop \in After(exec[e].node, TRUE),
             Resume(r, [exec EXCEPT ![e] = Completed(x, "answered")], j, stop)
      PROVE  IInv'
  <2> HIDE DEF x, j
  <2>1. stop \in Ending BY <1>4, AfterEnds
  <2>2. "answered" \in Results BY DEF Results
  <2>3. copy[r].status = "running" /\ \A q \in Requests \ {r} : pc[q] # "locked" BY <1>1
  <2> QED BY <1>1, <1>3, <1>5, <1>7, <1>9, <2>1, <2>2, <2>3, ResumedKeeps
<1> QED BY <1>2, <1>8, <1>9

\* A cancel completes what was active when it loaded, which is what is active.
LEMMA CancelKeeps ==
    ASSUME IInv, NEW r \in Requests, cancel(r)
    PROVE  IInv'
<1>1. /\ Closed(r) /\ UNCHANGED applied /\ pc[r] # "idle"
      /\ \A q \in Requests \ {r} : pc[q] # "locked"
      /\ copy[r] = inst /\ inst \in Instance /\ inst.status = "running" /\ seen[r] = ActiveIn(exec)
    BY DEF cancel, IInv, Knows, Alone, TypeOK, Active
<1>2. exec' = [e \in Executions |->
                 IF e \in ActiveIn(exec) THEN Completed(exec[e], "canceled") ELSE exec[e]]
    BY <1>1 DEF cancel
<1>3. Table(exec) BY DEF IInv
<1>15. PICK e : e \in ActiveIn(exec) BY <1>1 DEF IInv, Active
<1>4. ActiveIn(exec) = {e} BY <1>3, <1>15 DEF Table, OneAtATime
<1>5. e \in ActiveIn(exec) /\ e \in Executions /\ exec \in [Executions -> Execution]
    BY <1>3, <1>4 DEF ActiveIn, Table
<1>6. PICK c : c = Completed(exec[e], "canceled") OBVIOUS
<1>7. /\ c \in Execution /\ c.status = "completed"
      /\ \A m \in Members : c.requested[m] = 0 /\ c.asks[m] # "pending"
    BY <1>5, <1>6, CompletedIs DEF Results
<1>8. exec' = [exec EXCEPT ![e] = c] BY <1>2, <1>4, <1>5, <1>6
<1>9. Table(exec') /\ ActiveIn(exec') = {}
    BY ONLY <1>3, <1>5, <1>7, <1>8, RowClosed
<1>10. PICK s, n, new : /\ s = "canceled" /\ n = Nobody
                        /\ new = [inst EXCEPT !.status = s, !.node = n]
    OBVIOUS
<1>11. new \in Instance /\ new.status = "canceled" BY <1>1, <1>10 DEF Instance
<1>12. inst' = Flushed(r, new) BY <1>1, <1>10 DEF cancel
<1>13. inst' \in Instance /\ inst'.status = "canceled" BY <1>1, <1>11, <1>12, FlushedIs
<1>14. EffectOnce' /\ applied' \in Nat BY <1>1, <1>13 DEF IInv, EffectOnce, TypeOK
<1> QED BY <1>1, <1>9, <1>13, <1>14, EndsWell DEF Active

\* A retry walks again from where the instance failed.
LEMMA RetryKeeps ==
    ASSUME IInv, NEW r \in Requests, retry(r)
    PROVE  IInv'
<1>1. /\ Closed(r) /\ pc[r] # "idle"
      /\ \A q \in Requests \ {r} : pc[q] # "locked"
      /\ copy[r] = inst /\ inst \in Instance /\ inst.status = "error"
      /\ copy[r].node \in Nodes
    BY DEF retry, IInv, Knows, Alone, TypeOK, Instance
<1> DEFINE i == [copy[r] EXCEPT !.status = "running"]
<1>2. PICK stop \in Stops[copy[r].node] : Resume(r, exec, i, stop) BY DEF retry
<1>3. stop \in Ending BY <1>1, StopsEnd
<1>4. i = [status |-> "running", node |-> inst.node, data |-> inst.data] BY <1>1 DEF Instance
<1>5. i \in Instance /\ i.status = "running" BY <1>1, <1>4 DEF Instance
<1> HIDE DEF i
<1>6. Table(exec) /\ ActiveIn(exec) = {} BY <1>1 DEF IInv, Active
<1>7. /\ inst' \in Instance /\ Table(exec') /\ applied' \in Nat
      /\ inst'.status = "running" <=> Active' # {}
      /\ inst'.status # "absent" /\ EffectOnce'
    BY <1>1, <1>2, <1>3, <1>5, <1>6, ResumeKeeps
<1> QED BY <1>1, <1>7, EndsWell

\* A reassignment leaves the step active.
LEMMA ReassignKeeps ==
    ASSUME IInv, NEW r \in Requests, reassign(r)
    PROVE  IInv'
<1>1. /\ Closed(r) /\ pc[r] # "idle" /\ UNCHANGED <<inst, applied>>
      /\ who[r] \in Members /\ \A e \in seen[r] : e \in ActiveIn(exec)
    BY DEF reassign, IInv, Knows, Alone, Active
<1>2. PICK e \in seen[r], m \in Members :
        LET x == exec[e]
            freed == IF x.requested[who[r]] > 0
                     THEN [x EXCEPT !.requested[who[r]] = @ - 1]
                     ELSE [x EXCEPT !.decided = @ \ {who[r]}]
        IN  exec' = [exec EXCEPT ![e] = [freed EXCEPT !.requested[m] = @ + 1]]
    BY DEF reassign
<1>3. /\ e \in ActiveIn(exec) /\ e \in Executions /\ exec[e] \in Execution
      /\ exec[e].status = "active" /\ Table(exec)
    BY <1>1 DEF ActiveIn, IInv, Table
<1> DEFINE x == exec[e]
           fewer == [x EXCEPT !.requested[who[r]] = @ - 1]
           undecided == [x EXCEPT !.decided = @ \ {who[r]}]
           freed == IF x.requested[who[r]] > 0 THEN fewer ELSE undecided
           new == [freed EXCEPT !.requested[m] = @ + 1]
<1>4. x.requested[who[r]] > 0 =>
         fewer \in Execution /\ fewer.status = x.status /\ fewer.node = x.node
  <2>1. x.requested[who[r]] > 0 => x.requested[who[r]] - 1 \in Nat BY <1>1, <1>3 DEF Execution
  <2> QED BY <1>1, <1>3, <2>1 DEF Execution
<1>5. undecided \in Execution /\ undecided.status = x.status /\ undecided.node = x.node
    BY <1>3 DEF Execution
<1> HIDE DEF fewer, undecided
<1>6. freed \in Execution /\ freed.status = x.status /\ freed.node = x.node
    BY <1>4, <1>5
<1>7. exec' = [exec EXCEPT ![e] = new] BY <1>2 DEF fewer, undecided
<1> HIDE DEF freed
<1>8. new \in Execution /\ new.status = freed.status /\ new.node = freed.node
    BY <1>6 DEF Execution
<1> HIDE DEF new
<1> QED BY <1>1, <1>3, <1>6, <1>7, <1>8, WrittenKeeps DEF IInv, TypeOK

-----------------------------------------------------------------------------
(* The theorems.                                                            *)

LEMMA StepKeeps == IInv /\ Overlaps /\ [Next]_vars => IInv'
<1> SUFFICES ASSUME IInv, Overlaps, [Next]_vars PROVE IInv' OBVIOUS
<1>1. ASSUME NEW r \in Requests, open_instance(r) PROVE IInv' BY <1>1, OpenKeeps
<1>2. ASSUME NEW r \in Requests, Loads(r) PROVE IInv' BY <1>2, LoadsKeep
<1>3. ASSUME NEW r \in Requests, LockActive(r) PROVE IInv' BY <1>3, LockKeeps
<1>4. ASSUME NEW r \in Requests, Refuse(r) PROVE IInv' BY <1>4, RefuseKeeps
<1>5. ASSUME NEW r \in Requests, decide(r) PROVE IInv' BY <1>5, DecideKeeps
<1>6. ASSUME NEW r \in Requests, request_info(r) PROVE IInv' BY <1>6, RequestInfoKeeps
<1>7. ASSUME NEW r \in Requests, answer_info(r) PROVE IInv' BY <1>7, AnswerKeeps
<1>8. ASSUME NEW r \in Requests, cancel(r) PROVE IInv' BY <1>8, CancelKeeps
<1>9. ASSUME NEW r \in Requests, retry(r) PROVE IInv' BY <1>9, RetryKeeps
<1>10. ASSUME NEW r \in Requests, reassign(r) PROVE IInv' BY <1>10, ReassignKeeps
<1>11. CASE UNCHANGED vars
    BY <1>11 DEF IInv, TypeOK, EffectOnce, Active, Knows, Idle, LockTaken, Opened, Alone,
                 vars, requestVars
<1> QED BY <1>1, <1>2, <1>3, <1>4, <1>5, <1>6, <1>7, <1>8, <1>9, <1>10, <1>11 DEF Next

\* What the requests know of the rows, and what the rows say, is invariant.
LEMMA IInvHolds == Overlaps /\ Spec => []IInv
<1> SUFFICES ASSUME Overlaps PROVE Spec => []IInv OBVIOUS
<1>1. IInv /\ [Next]_vars => IInv' BY StepKeeps
<1> QED BY <1>1, InitKeeps, PTL DEF Spec

\* "Single active node per instance" (engine.py): whatever verdicts and questions
\* overlap, the walk is never resumed twice from the same step.
THEOREM OneActiveNodeTheorem == Overlaps /\ Spec => []OneActiveNode
<1>1. IInv => OneActiveNode
  <2> SUFFICES ASSUME IInv PROVE OneActiveNode OBVIOUS
  <2>1. \A e, d \in Active : e = d BY DEF IInv, Table, OneAtATime, Active
  <2>2. CASE Active = {}
      BY <2>2, FS_EmptySet DEF OneActiveNode
  <2>3. CASE Active # {}
    <3>1. PICK e : Active = {e} BY <2>1, <2>3
    <3>2. Cardinality(Active) = 1 BY <3>1, FS_Singleton
    <3> QED BY <3>2 DEF OneActiveNode
  <2> QED BY <2>2, <2>3
<1> QED BY <1>1, IInvHolds, PTL

\* An instance runs exactly as long as one of its steps waits for somebody, and a step
\* that is over asks nobody for anything.
THEOREM RunningIffParkedTheorem == Overlaps /\ Spec => []RunningIffParked
<1>1. IInv => RunningIffParked
    BY DEF IInv, RunningIffParked, Table, OthersQuiet, Active
<1> QED BY <1>1, IInvHolds, PTL

\* The owner's effect is applied exactly when the instance completes, whatever
\* verdicts overlap and however often it failed before.
THEOREM EffectOnceTheorem == Overlaps /\ Spec => []EffectOnce
<1>1. IInv => EffectOnce BY DEF IInv
<1> QED BY <1>1, IInvHolds, PTL
=============================================================================
