--------------------------- MODULE AgentTurn_proofs ---------------------------
(***************************************************************************)
(* For every set of tools and skills, every budget and any number of       *)
(* calls: calls that are not all read-only run one after the other in the  *)
(* order the model issued them, the skill of a call is the one issued      *)
(* before it, and the record never goes back.                              *)
(***************************************************************************)
EXTENDS AgentTurn, TLAPS

Types ==
    /\ calls \in 0 .. MaxCalls
    /\ tool \in [Calls -> Tools \cup {Activate}]
    /\ arg \in [Calls -> AnySkill]
    /\ phase \in [Calls -> {"none", "waiting", "running", "ended"}]
    /\ waits \in [Calls -> SUBSET Calls]
    /\ alone \in 0 .. calls
    /\ beside \subseteq 1 .. calls
    /\ held \in [Calls -> {"no", "event", "nothing"}]
    /\ revision \in Nat /\ record \in 0 .. revision
    /\ saw \in [Calls -> Nat]

Live(i) == phase[i] \in {"waiting", "running"}
Apart(i, j) == ~ ({tool[i], tool[j]} \subseteq ReadOnly)

\* A call exists from its index on; it has left something when it has ended.
Started == \A i \in Calls : /\ phase[i] = "none" <=> i > calls
                            /\ phase[i] = "ended" <=> held[i] # "no"

\* The calls after the last that runs alone are reads, and known until they end.
Places == /\ alone # 0 => tool[alone] \notin ReadOnly
          /\ \A j \in Calls : alone < j /\ j <= calls
                => tool[j] \in ReadOnly /\ (Live(j) => j \in beside)

\* A waiting call waits for every live one it must not overlap, or for a call in
\* between that runs alone.
Waiting == \A i \in Calls : phase[i] = "waiting" =>
              /\ i <= MaxTools
              /\ \A j \in Calls : j < i /\ Live(j) /\ Apart(i, j) =>
                    \/ j \in waits[i]
                    \/ \E k \in waits[i] : j < k /\ k < i /\ tool[k] \notin ReadOnly

\* A call that had its turn: it runs, it left an event, or nobody cancelled it.
HadTurn(i) == \/ phase[i] = "running" \/ held[i] = "event"
              \/ phase[i] = "ended" /\ ~ cancelled /\ i <= MaxTools
Passed == \A i, j \in Calls : j < i /\ HadTurn(i) /\ Live(j) => ~ Apart(i, j)

Order == Types /\ Started /\ Places /\ Waiting /\ Passed

\* The skills that were activated, and the last of them.
Named(j) == tool[j] = Activate /\ arg[j] \in Skills /\ held[j] = "event"
LastNamed == \A j \in Calls : Named(j) /\ (\A k \in Calls : k > j => ~ Named(k)) => active = arg[j]
Dispatched == \A i \in Calls : phase[i] = "running" => tool[i] # Activate /\ saw[i] = revision

IInv == Order /\ LastNamed /\ Dispatched

-----------------------------------------------------------------------------
LEMMA ActivateAlone == Activate \notin ReadOnly
  BY AgentAssumption

LEMMA InitIInv == AgentInit => IInv
<1> SUFFICES ASSUME AgentInit PROVE IInv
  OBVIOUS
<1> USE AgentAssumption DEF AgentInit, Calls
<1>1. Types
  BY DEF Types, AnySkill
<1>2. Started /\ Waiting /\ Passed /\ Dispatched
  BY DEF Started, Waiting, Passed, HadTurn, Live, Dispatched
<1>3. Places
  BY DEF Places
<1>4. LastNamed
  BY DEF LastNamed, Named
<1>5. QED
  BY <1>1, <1>2, <1>3, <1>4 DEF IInv, Order

\* What CallEnds does to the variables the invariant is about.
LEMMA EndsMoves ==
  ASSUME NEW i, NEW what, CallEnds(i, what)
  PROVE  phase' = [phase EXCEPT ![i] = "ended"] /\ held' = [held EXCEPT ![i] = what]
  BY DEF CallEnds

\* A call takes its turn: nothing live before it must be kept apart from it.
LEMMA TurnIsFree ==
  ASSUME Order, NEW i \in Calls, MyTurn(i)
  PROVE  /\ i <= MaxTools
         /\ \A j \in Calls : j < i /\ Live(j) => ~ Apart(i, j)
<1> USE DEF Order
<1>1. i <= MaxTools
  BY DEF MyTurn, Waiting
<1>2. ASSUME NEW j \in Calls, j < i, Live(j), Apart(i, j) PROVE FALSE
  <2>1. j \notin waits[i]
    BY <1>2 DEF MyTurn, Live
  <2>2. PICK k \in waits[i] : j < k /\ k < i /\ tool[k] \notin ReadOnly
    BY <1>2, <2>1 DEF MyTurn, Waiting
  <2>3. k \in Calls /\ phase[k] = "ended"
    BY <2>2 DEF MyTurn, Types
  <2>4. k <= MaxTools /\ ~ cancelled
    BY <1>1, <2>2, <2>3, AgentAssumption DEF MyTurn, Calls
  <2>5. HadTurn(k)
    BY <2>3, <2>4 DEF HadTurn
  <2>6. ~ Apart(k, j)
    BY <1>2, <2>2, <2>3, <2>5 DEF Passed
  <2>7. QED
    BY <2>2, <2>6 DEF Apart
<1>3. QED
  BY <1>1, <1>2

\* A live call goes on, or ends after its turn or cancelled: the order is kept.
LEMMA MoveOrder ==
  ASSUME Order, NEW i \in Calls, Live(i), UNCHANGED <<placeVars, cancelled>>,
         NEW where \in {"running", "ended"}, NEW what \in {"no", "event", "nothing"},
         where = "ended" <=> what # "no",
         phase' = [phase EXCEPT ![i] = where], held' = [held EXCEPT ![i] = what],
         MyTurn(i) \/ phase[i] = "running" \/ (cancelled /\ what = "nothing" /\ where = "ended"),
         revision' \in Nat, record' \in 0 .. revision', saw' \in [Calls -> Nat]
  PROVE  Order'
<1> USE DEF Order
<1>1. \A k \in Calls : phase'[k] = (IF k = i THEN where ELSE phase[k])
                    /\ held'[k] = (IF k = i THEN what ELSE held[k])
  BY DEF Types
<1>2. \A k \in Calls : Live(k)' => Live(k)
  BY <1>1 DEF Live
<1>3. Types'
  BY DEF Types, placeVars
<1>4. Started'
  BY <1>1 DEF Started, Live, placeVars
<1>5. Places'
  BY <1>2 DEF Places, placeVars
<1>6. Waiting'
  BY <1>1, <1>2 DEF Waiting, Apart, placeVars
<1>7. Passed'
  <2> SUFFICES ASSUME NEW h \in Calls, NEW j \in Calls, j < h, HadTurn(h)', Live(j)'
               PROVE  ~ Apart(h, j)'
    BY DEF Passed
  <2>1. Live(j) /\ (Apart(h, j)' <=> Apart(h, j))
    BY <1>2 DEF Apart, placeVars
  <2>2. CASE h # i
    <3>1. HadTurn(h)
      BY <1>1, <2>2 DEF HadTurn
    <3>2. QED
      BY <2>1, <3>1 DEF Passed
  <2>3. CASE h = i /\ MyTurn(i)
    BY <2>1, <2>3, TurnIsFree
  <2>4. CASE h = i /\ phase[i] = "running"
    <3>1. HadTurn(h)
      BY <2>4 DEF HadTurn
    <3>2. QED
      BY <2>1, <3>1 DEF Passed
  <2>5. CASE h = i /\ cancelled /\ what = "nothing" /\ where = "ended"
    BY <1>1, <2>5 DEF HadTurn
  <2>6. QED
    BY <2>2, <2>3, <2>4, <2>5
<1>8. QED
  BY <1>3, <1>4, <1>5, <1>6, <1>7

\* An event of a call that named no skill leaves the last skill named.
LEMMA MoveNamed ==
  ASSUME Order, LastNamed, NEW i \in Calls, phase[i] # "ended",
         NEW what \in {"no", "event", "nothing"}, held' = [held EXCEPT ![i] = what],
         UNCHANGED <<placeVars, active>>, what = "event" => tool[i] # Activate
  PROVE  LastNamed'
<1>1. \A k \in Calls : Named(k)' <=> Named(k)
  <2> TAKE k \in Calls
  <2>1. held'[k] = (IF k = i THEN what ELSE held[k])
    BY DEF Order, Types
  <2>2. ~ Named(i)
    BY DEF Order, Started, Named
  <2>3. QED
    BY <2>1, <2>2 DEF Named, placeVars
<1>2. QED
  BY <1>1 DEF LastNamed, placeVars

\* A new call takes the next index and waits for what it must not overlap.
LEMMA InvokeOrder ==
  ASSUME Order, NEW t \in Tools \cup {Activate}, NEW s \in AnySkill, Invoke(t, s)
  PROVE  /\ Order'
         /\ \A k \in Calls : k # calls + 1 =>
               phase'[k] = phase[k] /\ tool'[k] = tool[k] /\ arg'[k] = arg[k] /\ held'[k] = held[k]
         /\ phase'[calls + 1] # "running" /\ held'[calls + 1] # "event"
<1> USE AgentAssumption DEF Order
<1> DEFINE i == calls + 1
<1>1. /\ i \in Calls /\ calls < i /\ calls' = i
      /\ tool' = [tool EXCEPT ![i] = t] /\ arg' = [arg EXCEPT ![i] = s]
      /\ waits' = [waits EXCEPT ![i] = WaitsFor(t)]
      /\ UNCHANGED <<cancelled, hostVars>>
  BY DEF Invoke, Types, Calls
<1>2. \/ /\ t \in ReadOnly
         /\ beside' = {e \in beside : phase[e] # "ended"} \cup {i} /\ alone' = alone
      \/ t \notin ReadOnly /\ beside' = {} /\ alone' = i
  BY DEF Invoke, RunsBeside
<1>3. \/ /\ i > MaxTools
         /\ phase' = [phase EXCEPT ![i] = "ended"] /\ held' = [held EXCEPT ![i] = "nothing"]
      \/ /\ i <= MaxTools
         /\ phase' = [phase EXCEPT ![i] = "waiting"] /\ held' = held
  <2>1. CASE i > MaxTools
    BY <2>1, EndsMoves DEF Invoke
  <2>2. CASE ~ (i > MaxTools)
    <3>1. i <= MaxTools
      BY <1>1, <2>2 DEF Calls
    <3>2. phase' = [phase EXCEPT ![i] = "waiting"] /\ held' = held
      BY <2>2 DEF Invoke, traceVars
    <3>3. QED
      BY <3>1, <3>2
  <2>3. QED
    BY <2>1, <2>2
<1>4. phase[i] = "none" /\ held[i] = "no"
  BY <1>1 DEF Started, Types, Calls
<1>5. \A k \in Calls : k # i =>
         phase'[k] = phase[k] /\ tool'[k] = tool[k] /\ arg'[k] = arg[k] /\ held'[k] = held[k]
         /\ waits'[k] = waits[k]
  BY <1>1, <1>3 DEF Types
<1>6. tool'[i] = t /\ waits'[i] = WaitsFor(t) /\ phase'[i] \in {"waiting", "ended"}
      /\ held'[i] \in {"no", "nothing"} /\ (phase'[i] = "ended" <=> held'[i] # "no")
      /\ (phase'[i] = "waiting" => i <= MaxTools) /\ (phase'[i] = "ended" => i > MaxTools)
  BY <1>1, <1>3, <1>4 DEF Types
<1>7. WaitsFor(t) \subseteq 1 .. calls
  BY DEF WaitsFor, Types
<1>8. Types'
  <2>1. 1 .. calls \subseteq Calls /\ calls \in Nat
    BY DEF Types, Calls
  <2>2. alone' \in 0 .. i /\ beside' \subseteq 1 .. i
    <3>1. alone \in 0 .. calls /\ beside \subseteq 1 .. calls
      BY DEF Types
    <3>2. 0 .. calls \subseteq 0 .. i /\ 1 .. calls \subseteq 1 .. i /\ i \in 1 .. i /\ i \in 0 .. i
      BY <2>1
    <3>3. {e \in beside : phase[e] # "ended"} \subseteq beside
      OBVIOUS
    <3> HIDE DEF i
    <3>4. QED
      BY ONLY <1>2, <3>1, <3>2, <3>3
  <2>3. phase' \in [Calls -> {"none", "waiting", "running", "ended"}]
        /\ held' \in [Calls -> {"no", "event", "nothing"}]
    BY <1>3 DEF Types
  <2>4. waits' \in [Calls -> SUBSET Calls]
    BY <1>1, <1>7, <2>1 DEF Types
  <2>5. tool' \in [Calls -> Tools \cup {Activate}] /\ arg' \in [Calls -> AnySkill]
    BY <1>1 DEF Types
  <2>6. calls' \in 0 .. MaxCalls
    BY <1>1, <2>1 DEF Calls
  <2>7. QED
    BY <1>1, <2>2, <2>3, <2>4, <2>5, <2>6 DEF Types, hostVars
<1>9. Started'
  <2> SUFFICES ASSUME NEW k \in Calls
               PROVE  (phase'[k] = "none" <=> k > i) /\ (phase'[k] = "ended" <=> held'[k] # "no")
    BY <1>1 DEF Started
  <2>1. CASE k = i
    BY <1>1, <1>6, <2>1 DEF Calls
  <2>2. CASE k # i
    <3>1. k > calls <=> k > i
      BY <1>1, <2>2 DEF Calls, Types
    <3>2. QED
      BY <1>5, <2>2, <3>1 DEF Started
  <2>3. QED
    BY <2>1, <2>2
<1>10. Places'
  <2>1. alone' # 0 => tool'[alone'] \notin ReadOnly
    <3>1. (alone \in Calls /\ alone # i) \/ alone = 0
      BY <1>1 DEF Types, Calls
    <3>2. QED
      BY <1>2, <1>5, <1>6, <3>1 DEF Places
  <2>2. ASSUME NEW j \in Calls, alone' < j, j <= calls'
        PROVE  tool'[j] \in ReadOnly /\ (Live(j)' => j \in beside')
    <3>1. alone' = alone /\ t \in ReadOnly /\ beside' = {e \in beside : phase[e] # "ended"} \cup {i}
      BY <1>1, <1>2, <2>2 DEF Calls
    <3>2. CASE j = i
      BY <1>6, <3>1, <3>2
    <3>3. CASE j # i
      <4>1. alone < j /\ j <= calls
        BY <1>1, <2>2, <3>1, <3>3 DEF Calls, Types
      <4>2. tool[j] \in ReadOnly /\ (Live(j) => j \in beside)
        BY <4>1 DEF Places
      <4>3. QED
        BY <1>5, <3>1, <3>3, <4>2 DEF Live
    <3>4. QED
      BY <3>2, <3>3
  <2>3. QED
    BY <2>1, <2>2 DEF Places
<1>11. Waiting'
  <2> SUFFICES ASSUME NEW h \in Calls, phase'[h] = "waiting"
               PROVE  /\ h <= MaxTools
                      /\ \A j \in Calls : j < h /\ Live(j)' /\ Apart(h, j)' =>
                            \/ j \in waits'[h]
                            \/ \E k \in waits'[h] : j < k /\ k < h /\ tool'[k] \notin ReadOnly
    BY DEF Waiting
  <2>1. CASE h = i
    <3>1. h <= MaxTools
      BY <1>6, <2>1
    <3>2. ASSUME NEW j \in Calls, j < h, Live(j)', Apart(h, j)'
          PROVE  \/ j \in waits'[h]
                 \/ \E k \in waits'[h] : j < k /\ k < h /\ tool'[k] \notin ReadOnly
      <4>1. j # i /\ j <= calls /\ Live(j) /\ ~ ({t, tool[j]} \subseteq ReadOnly)
        BY <1>1, <1>5, <1>6, <2>1, <3>2 DEF Calls, Types, Live, Apart
      <4>2. CASE j = alone
        BY <1>6, <2>1, <4>1, <4>2 DEF WaitsFor, Calls
      <4>3. CASE j < alone
        <5>1. alone \in Calls /\ alone # i /\ alone < i /\ alone # 0
          BY <1>1, <4>3 DEF Types, Calls
        <5>2. alone \in waits'[h]
          BY <1>6, <2>1, <5>1 DEF WaitsFor
        <5>3. tool'[alone] \notin ReadOnly
          BY <1>5, <5>1 DEF Places
        <5>4. QED
          BY <2>1, <4>3, <5>1, <5>2, <5>3
      <4>4. CASE alone < j
        <5>1. tool[j] \in ReadOnly /\ j \in beside
          BY <4>1, <4>4 DEF Places
        <5>2. QED
          BY <1>6, <2>1, <4>1, <5>1 DEF WaitsFor, RunsBeside
      <4>5. QED
        BY <4>2, <4>3, <4>4 DEF Types, Calls
    <3>3. QED
      BY <3>1, <3>2
  <2>2. CASE h # i
    <3>1. phase[h] = "waiting" /\ h <= calls /\ waits'[h] = waits[h]
      BY <1>5, <2>2 DEF Started, Types, Calls
    <3>2. \A j \in Calls : j < h => j # i /\ (Live(j)' <=> Live(j)) /\ (Apart(h, j)' <=> Apart(h, j))
                                /\ tool'[j] = tool[j]
      BY <1>1, <1>5, <2>2, <3>1 DEF Live, Apart, Types, Calls
    <3>3. waits[h] \subseteq Calls
      BY DEF Types
    <3>4. QED
      BY <3>1, <3>2, <3>3 DEF Waiting
  <2>3. QED
    BY <2>1, <2>2
<1>12. Passed'
  <2> SUFFICES ASSUME NEW h \in Calls, NEW j \in Calls, j < h, HadTurn(h)', Live(j)'
               PROVE  ~ Apart(h, j)'
    BY DEF Passed
  <2>1. h # i
    BY <1>1, <1>6 DEF HadTurn, Calls
  <2>2. HadTurn(h) /\ phase[h] # "none"
    BY <1>1, <1>5, <2>1 DEF HadTurn, Started
  <2>3. j # i
    BY <1>1, <2>2 DEF Started, Calls, Types
  <2>4. QED
    BY <1>5, <2>1, <2>2, <2>3 DEF Passed, Live, Apart
<1>13. QED
  BY <1>5, <1>6, <1>8, <1>9, <1>10, <1>11, <1>12

-----------------------------------------------------------------------------
\* The invariant is kept by every step.
LEMMA StepIInv == IInv /\ [AgentNext]_agentVars => IInv'
<1> SUFFICES ASSUME IInv, [AgentNext]_agentVars PROVE IInv'
  OBVIOUS
<1> USE DEF IInv
<1>r. revision \in Nat /\ record \in 0 .. revision /\ saw \in [Calls -> Nat]
  BY DEF Order, Types
<1>1. ASSUME NEW t \in Tools \cup {Activate}, NEW s \in AnySkill, Invoke(t, s) PROVE IInv'
  <2>1. Order'
    BY <1>1, InvokeOrder
  <2>2. /\ \A k \in Calls : k # calls + 1 =>
               phase'[k] = phase[k] /\ tool'[k] = tool[k] /\ arg'[k] = arg[k] /\ held'[k] = held[k]
        /\ phase'[calls + 1] # "running" /\ held'[calls + 1] # "event"
    BY <1>1, InvokeOrder
  <2>3. held[calls + 1] # "event" \/ calls + 1 \notin Calls
    BY DEF Order, Started, Types, Calls
  <2>4. active' = active /\ saw' = saw /\ revision' = revision
    BY <1>1 DEF Invoke, hostVars
  <2>5. \A k \in Calls : Named(k)' <=> Named(k)
    BY <2>2, <2>3 DEF Named
  <2>6. LastNamed'
    BY <2>4, <2>5, <2>2, <2>3 DEF LastNamed, Named
  <2>7. Dispatched'
    BY <2>2, <2>4 DEF Dispatched
  <2>8. QED
    BY <2>1, <2>6, <2>7
<1>2. ASSUME NEW i \in Calls, CallStep(i) PROVE IInv'
  <2>1. CASE Denied(i)
    <3>1. MyTurn(i) /\ tool[i] # Activate /\ Live(i) /\ phase[i] # "ended"
      BY <2>1 DEF Denied, Enabled, MyTurn, Live
    <3>2. /\ phase' = [phase EXCEPT ![i] = "ended"] /\ held' = [held EXCEPT ![i] = "event"]
          /\ UNCHANGED <<cancelled, active, placeVars, hostVars>>
      BY <2>1, EndsMoves DEF Denied
    <3>3. Order'
      BY <1>r, <3>1, <3>2, MoveOrder DEF hostVars
    <3>4. LastNamed'
      BY <3>1, <3>2, MoveNamed
    <3>5. Dispatched'
      BY <3>2 DEF Dispatched, Order, Types, placeVars, hostVars
    <3>6. QED
      BY <3>3, <3>4, <3>5
  <2>2. CASE BadArguments(i)
    <3>1. MyTurn(i) /\ Live(i) /\ phase[i] # "ended"
      BY <2>2 DEF BadArguments, MyTurn, Live
    <3>2. /\ phase' = [phase EXCEPT ![i] = "ended"] /\ held' = [held EXCEPT ![i] = "nothing"]
          /\ UNCHANGED <<cancelled, active, placeVars, hostVars>>
      BY <2>2, EndsMoves DEF BadArguments
    <3>3. Order'
      BY <1>r, <3>1, <3>2, MoveOrder DEF hostVars
    <3>4. LastNamed'
      BY <3>1, <3>2, MoveNamed
    <3>5. Dispatched'
      BY <3>2 DEF Dispatched, Order, Types, placeVars, hostVars
    <3>6. QED
      BY <3>3, <3>4, <3>5
  <2>3. CASE ActivateSkill(i)
    <3>1. MyTurn(i) /\ Live(i) /\ tool[i] = Activate
      BY <2>3 DEF ActivateSkill, MyTurn, Live
    <3>2. /\ phase' = [phase EXCEPT ![i] = "ended"] /\ held' = [held EXCEPT ![i] = "event"]
          /\ active' = (IF arg[i] \in Skills THEN arg[i] ELSE active)
          /\ UNCHANGED <<cancelled, placeVars, hostVars>>
      BY <2>3, EndsMoves DEF ActivateSkill
    <3>3. Order'
      BY <1>r, <3>1, <3>2, MoveOrder DEF hostVars
    <3>4. \A k \in Calls : k # i => (Named(k)' <=> Named(k))
      BY <3>2 DEF Named, placeVars, Order, Types
    <3>5. \A k \in Calls : k > i => ~ Named(k)
      <4> SUFFICES ASSUME NEW k \in Calls, k > i, Named(k) PROVE FALSE
        OBVIOUS
      <4>1. HadTurn(k)
        BY DEF Named, HadTurn
      <4>2. ~ Apart(k, i)
        BY <3>1, <4>1 DEF Order, Passed, Calls
      <4>3. QED
        BY <3>1, <4>2, ActivateAlone DEF Apart
    <3>6. LastNamed'
      <4>1. CASE arg[i] \in Skills
        <5>1. Named(i)'
          BY <3>1, <3>2, <4>1 DEF Named, placeVars, Order, Types
        <5>2. \A j \in Calls : Named(j)' /\ (\A k \in Calls : k > j => ~ Named(k)') => j = i
          BY <3>4, <3>5, <5>1 DEF Calls
        <5>3. QED
          BY <3>2, <4>1, <5>2 DEF LastNamed, placeVars
      <4>2. CASE arg[i] \notin Skills
        <5>1. ~ Named(i) /\ ~ Named(i)' /\ active' = active
          BY <3>2, <4>2 DEF Named, placeVars
        <5>2. QED
          BY <3>2, <3>4, <5>1 DEF LastNamed, placeVars
      <4>3. QED
        BY <4>1, <4>2
    <3>7. Dispatched'
      BY <3>2 DEF Dispatched, Order, Types, placeVars, hostVars
    <3>8. QED
      BY <3>3, <3>6, <3>7
  <2>4. CASE Dispatch(i)
    <3>1. MyTurn(i) /\ Live(i) /\ tool[i] # Activate /\ phase[i] # "ended" /\ held[i] = "no"
      BY <2>4 DEF Dispatch, MyTurn, Live, Order, Started, Types
    <3>2. /\ phase' = [phase EXCEPT ![i] = "running"] /\ held' = held
          /\ saw' = [saw EXCEPT ![i] = revision]
          /\ UNCHANGED <<cancelled, active, placeVars, record, revision>>
      BY <2>4 DEF Dispatch, traceVars
    <3>3. held' = [held EXCEPT ![i] = "no"]
      BY <3>1, <3>2 DEF Order, Types
    <3>4. saw' \in [Calls -> Nat]
      BY <1>r, <3>2
    <3>5. Order'
      BY <1>r, <3>1, <3>2, <3>3, <3>4, MoveOrder
    <3>6. LastNamed'
      BY <3>1, <3>2, <3>3, MoveNamed
    <3>7. Dispatched'
      BY <1>r, <3>1, <3>2 DEF Dispatched, Order, Types, placeVars
    <3>8. QED
      BY <3>5, <3>6, <3>7
  <2>5. CASE Returned(i)
    <3>1. phase[i] = "running" /\ Live(i) /\ tool[i] # Activate /\ saw[i] = revision
      BY <2>5 DEF Returned, Live, Dispatched
    <3>2. /\ phase' = [phase EXCEPT ![i] = "ended"] /\ held' = [held EXCEPT ![i] = "event"]
          /\ saw' = [saw EXCEPT ![i] = 0]
          /\ UNCHANGED <<cancelled, active, placeVars>>
      BY <2>5, EndsMoves DEF Returned
    <3>3. PICK wrote \in BOOLEAN, carries \in BOOLEAN :
            /\ wrote => tool[i] \notin ReadOnly
            /\ revision' = revision + (IF wrote THEN 1 ELSE 0)
            /\ record' = IF ~ carries THEN record ELSE IF wrote THEN revision' ELSE saw[i]
      BY <2>5 DEF Returned
    <3>4. revision' \in Nat /\ record' \in 0 .. revision' /\ saw' \in [Calls -> Nat]
      BY <1>r, <3>1, <3>2, <3>3
    <3>5. Order'
      BY <3>1, <3>2, <3>4, MoveOrder
    <3>6. LastNamed'
      BY <3>1, <3>2, MoveNamed
    <3>7. ASSUME NEW k \in Calls, phase'[k] = "running" PROVE tool'[k] # Activate /\ saw'[k] = revision'
      <4>1. k # i /\ phase[k] = "running" /\ saw'[k] = saw[k]
        BY <1>r, <3>2, <3>7 DEF Order, Types
      <4>2. tool'[k] # Activate /\ saw[k] = revision
        BY <3>2, <4>1 DEF Dispatched, placeVars
      <4>3. ~ Apart(k, i) \/ ~ Apart(i, k)
        <5>1. HadTurn(i) /\ HadTurn(k) /\ Live(k)
          BY <3>1, <4>1 DEF HadTurn, Live
        <5>2. k < i \/ i < k
          BY <4>1 DEF Calls
        <5>3. QED
          BY <3>1, <5>1, <5>2 DEF Order, Passed
      <4>4. tool[i] \in ReadOnly
        BY <4>3 DEF Apart
      <4>5. revision' = revision
        BY <1>r, <3>3, <4>4
      <4>6. QED
        BY <4>1, <4>2, <4>5
    <3>8. QED
      BY <3>5, <3>6, <3>7 DEF Dispatched
  <2>6. CASE AskAnswered(i) \/ AskPending(i)
    <3>1. phase[i] = "running" /\ Live(i) /\ tool[i] # Activate
      BY <2>6 DEF AskAnswered, AskPending, Live, Dispatched
    <3>2. /\ phase' = [phase EXCEPT ![i] = "ended"] /\ held' = [held EXCEPT ![i] = "event"]
          /\ UNCHANGED <<cancelled, active, placeVars, hostVars>>
      BY <2>6, EndsMoves DEF AskAnswered, AskPending
    <3>3. Order'
      BY <1>r, <3>1, <3>2, MoveOrder DEF hostVars
    <3>4. LastNamed'
      BY <3>1, <3>2, MoveNamed
    <3>5. Dispatched'
      BY <3>2 DEF Dispatched, Order, Types, placeVars, hostVars
    <3>6. QED
      BY <3>3, <3>4, <3>5
  <2>7. CASE Raised(i) \/ CancelledEnds(i)
    <3>1. Live(i) /\ phase[i] # "ended" /\ (phase[i] = "running" \/ cancelled)
      BY <2>7 DEF Raised, CancelledEnds, Live
    <3>2. /\ phase' = [phase EXCEPT ![i] = "ended"] /\ held' = [held EXCEPT ![i] = "nothing"]
          /\ UNCHANGED <<cancelled, active, placeVars, hostVars>>
      BY <2>7, EndsMoves DEF Raised, CancelledEnds
    <3>3. Order'
      BY <1>r, <3>1, <3>2, MoveOrder DEF hostVars
    <3>4. LastNamed'
      BY <3>1, <3>2, MoveNamed
    <3>5. Dispatched'
      BY <3>2 DEF Dispatched, Order, Types, placeVars, hostVars
    <3>6. QED
      BY <3>3, <3>4, <3>5
  <2>8. QED
    BY <1>2, <2>1, <2>2, <2>3, <2>4, <2>5, <2>6, <2>7 DEF CallStep
<1>3. CASE \/ ModelCallsTools \/ ToolsReturn \/ RunEnds \/ UNCHANGED agentVars
  <2>1. UNCHANGED <<phase, cancelled, active, placeVars, held, hostVars>>
    BY <1>3 DEF ModelCallsTools, ToolsReturn, RunEnds, agentVars, traceVars
  <2>2. QED
    BY <2>1 DEF Order, Types, Started, Places, Waiting, Passed, HadTurn, Live, Apart, LastNamed, Named,
                Dispatched, placeVars, hostVars
<1>4. CASE Cancel
  <2>1. UNCHANGED <<phase, active, placeVars, held, hostVars>> /\ cancelled'
    BY <1>4 DEF Cancel, traceVars
  <2>2. \A i \in Calls : HadTurn(i)' => HadTurn(i)
    BY <2>1 DEF HadTurn
  <2>3. Passed'
    BY <2>1, <2>2 DEF Order, Passed, Live, Apart, placeVars
  <2>4. QED
    BY <2>1, <2>3 DEF Order, Types, Started, Places, Waiting, Live, Apart, LastNamed, Named, Dispatched,
                      placeVars, hostVars
<1>5. QED
  BY <1>1, <1>2, <1>3, <1>4 DEF AgentNext, AnySkill

LEMMA Inductive == AgentSpec => []IInv
  BY InitIInv, StepIInv, PTL DEF AgentSpec

-----------------------------------------------------------------------------
\* Calls that are not all read-only do not overlap, and start in the order the model
\* issued them (invoke waits for the events its place names).
THEOREM InTurnTheorem == AgentSpec => []InTurn
<1>1. IInv => InTurn
  <2> SUFFICES ASSUME IInv, NEW i \in Calls, NEW j \in Calls, phase[i] = "running", j < i, phase[j] # "ended"
               PROVE  {tool[i], tool[j]} \subseteq ReadOnly
    BY DEF InTurn
  <2>1. HadTurn(i) /\ Live(j)
    BY DEF HadTurn, Live, IInv, Order, Started, Types, Calls
  <2>2. QED
    BY <2>1 DEF IInv, Order, Passed, Apart
<1>2. QED
  BY <1>1, Inductive, PTL

\* A running call finds the skill that the nearest earlier activate_skill of a known
\* skill left (state.active in invoke_in_turn).
THEOREM SkillTheorem == AgentSpec => []SkillInOrder
<1>1. IInv => SkillInOrder
  <2> SUFFICES ASSUME IInv, NEW i \in Calls, NEW j \in 1 .. i - 1, phase[i] = "running", tool[j] = Activate,
                      held[j] = "event", arg[j] \in Skills,
                      \A k \in j + 1 .. i - 1 : tool[k] = Activate => arg[k] \notin Skills
               PROVE  active = arg[j]
    BY DEF SkillInOrder
  <2>1. j \in Calls /\ j < i /\ Named(j)
    <3>1. j \in Calls /\ j < i
      BY AgentAssumption DEF Calls
    <3>2. QED
      BY <3>1 DEF Named
  <2>2. ASSUME NEW k \in Calls, k > j, Named(k) PROVE FALSE
    <3>1. k # i
      BY <2>2 DEF Named, IInv, Dispatched
    <3>2. k > i
      BY <2>1, <2>2, <3>1 DEF Named, Calls
    <3>3. HadTurn(k) /\ Live(i)
      BY <2>2 DEF Named, HadTurn, Live
    <3>4. ~ Apart(k, i)
      BY <3>2, <3>3 DEF IInv, Order, Passed, Calls
    <3>5. QED
      BY <2>2, <3>4, ActivateAlone DEF Apart, Named
  <2>3. QED
    BY <2>1, <2>2 DEF IInv, LastNamed
<1>2. QED
  BY <1>1, Inductive, PTL

\* A read's answer never replaces the record of a write that ended before it.
THEOREM RecordTheorem == AgentSpec => RecordGoesForward
<1>1. IInv /\ [AgentNext]_agentVars => [record' >= record]_agentVars
  <2> SUFFICES ASSUME IInv, AgentNext PROVE record' >= record
    BY DEF agentVars
  <2>1. revision \in Nat /\ record \in 0 .. revision
    BY DEF IInv, Order, Types
  <2>2. CASE record' = record
    BY <2>1, <2>2
  <2>3. ASSUME NEW i \in Calls, Returned(i) PROVE record' >= record
    <3>1. saw[i] = revision
      BY <2>3 DEF Returned, IInv, Dispatched
    <3>2. PICK wrote \in BOOLEAN, carries \in BOOLEAN :
            /\ revision' = revision + (IF wrote THEN 1 ELSE 0)
            /\ record' = IF ~ carries THEN record ELSE IF wrote THEN revision' ELSE saw[i]
      BY <2>3 DEF Returned
    <3>3. QED
      BY <2>1, <3>1, <3>2
  <2>4. (\E i \in Calls : Returned(i)) \/ record' = record
    BY DEF AgentNext, CallStep, Invoke, Denied, BadArguments, ActivateSkill, Dispatch, AskAnswered, AskPending, Raised,
           CancelledEnds, ModelCallsTools, ToolsReturn, Cancel, RunEnds, hostVars
  <2>5. QED
    BY <2>2, <2>3, <2>4
<1>2. QED
  BY <1>1, Inductive, PTL DEF AgentSpec, RecordGoesForward
=============================================================================
