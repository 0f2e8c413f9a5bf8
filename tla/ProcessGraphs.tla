--------------------------- MODULE ProcessGraphs ---------------------------
(***************************************************************************)
(* validate_definition of asas-workflow and the walk it is meant to make   *)
(* safe: a spec is declared transition by transition, judged, and an       *)
(* accepted graph walked with every verdict, and with every truth the      *)
(* conditions may have at the moment they are read.                        *)
(***************************************************************************)
EXTENDS Naturals, Sequences, FiniteSets

CONSTANTS
    Start, End,      \* the start node and an end node
    Inner,           \* the nodes between
    MaxOut, MaxTotal \* bounds: transitions of a node, of the graph

Nodes == Inner \cup {Start, End}
Transitions == [to : Nodes, conditional : BOOLEAN]

VARIABLES
    type,    \* of each inner node: "approval" parks, "system" runs on
    outs,    \* declared transitions of each node, in order
    phase,   \* "declared", "walking", and how the walk ended
    position \* the node the walk is at

graph == <<type, outs, phase, position>>

Init ==
    /\ type \in [Inner -> {"approval", "system"}]
    /\ outs = [n \in Nodes |-> <<>>]
    /\ phase = "declared" /\ position = Start

Declared == {n \in Nodes : outs[n] # <<>>}
Approvals == {n \in Inner : type[n] = "approval"}
Out(n) == {outs[n][i] : i \in 1..Len(outs[n])}
Total == Cardinality({p \in Nodes \X (1..MaxOut) : p[2] <= Len(outs[p[1]])})

Declare(n, t) ==
    /\ phase = "declared" /\ Len(outs[n]) < MaxOut /\ Total < MaxTotal
    /\ outs' = [outs EXCEPT ![n] = Append(@, t)]
    /\ UNCHANGED <<type, phase, position>>

-----------------------------------------------------------------------------
\* _closure: everything the edges lead to from the seeds.
Closure(edges, seeds) ==
    LET grown[i \in Nat] == IF i = 0 THEN seeds
          ELSE grown[i - 1] \cup {n \in Nodes : \E m \in grown[i - 1] : <<m, n>> \in edges}
    IN grown[Cardinality(Nodes)]

Edges == {e \in Nodes \X Nodes : \E t \in Out(e[1]) : t.to = e[2]}
Reverse == {<<e[2], e[1]>> : e \in Edges}

\* Mutant: a default is asked for only where there are several transitions.
CoveredLoosely(n) ==
    LET defaults == {i \in 1..Len(outs[n]) : ~outs[n][i].conditional}
    IN Len(outs[n]) > 0 /\ (Len(outs[n]) > 1 /\ defaults = {} => n \in Approvals)
         /\ (defaults # {} => defaults = {Len(outs[n])})

\* No dead end; a default, declared once and last, wherever conditions exist,
\* except at an approval.
Covered(n) ==
    LET defaults == {i \in 1..Len(outs[n]) : ~outs[n][i].conditional}
    IN /\ outs[n] # <<>>
       /\ defaults = {} => n \in Approvals
       /\ defaults # {} => defaults = {Len(outs[n])}

\* Every reachable node is an approval or has a way to an end.
Finishes == Closure(Edges, {Start}) \subseteq Closure(Reverse, {End}) \cup Approvals

Accepted ==
    /\ outs[End] = <<>>
    /\ \A n \in Nodes \ {End} : Covered(n)
    /\ Closure(Edges, {Start}) = Nodes
    /\ Finishes

\* What is refused raises and is not stored.
validate_definition ==
    /\ phase = "declared" /\ Accepted
    /\ phase' = "walking"
    /\ UNCHANGED <<type, outs, position>>

-----------------------------------------------------------------------------
\* evaluate: a transition without a condition always holds; those with one hold as the
\* process data have it, which may be any way.
Truths(n) == {T \in SUBSET (1..Len(outs[n])) : \A i \in 1..Len(outs[n]) : ~outs[n][i].conditional => i \in T}

\* _select_next: the first transition, in declared order, whose condition holds; the
\* default counts only for a positive verdict.
Selected(n, true, positive) ==
    LET holds == {i \in true : outs[n][i].conditional \/ positive}
    IN {outs[n][i].to : i \in {j \in holds : \A k \in holds : j <= k}}

\* _advance_or_fail at a node that ran, or whose verdict is in.
Advance(positive) ==
    /\ phase = "walking" /\ position # End
    /\ positive \/ position \in Approvals
    /\ \E true \in Truths(position) :
         LET next == Selected(position, true, positive)
         IN IF next # {} THEN position' \in next /\ UNCHANGED phase
            ELSE UNCHANGED position /\ phase' = IF positive THEN "error" ELSE "rejected"
    /\ UNCHANGED <<type, outs>>

Finish ==
    /\ phase = "walking" /\ position = End /\ phase' = "completed"
    /\ UNCHANGED <<type, outs, position>>

Next == (\E n \in Nodes, t \in Transitions : Declare(n, t)) \/ validate_definition
        \/ Advance(TRUE) \/ Advance(FALSE) \/ Finish

Spec == Init /\ [][Next]_graph

-----------------------------------------------------------------------------
(* A walk of an accepted graph errs only at an approval whose positive      *)
(* verdict no condition covers, and is never inside a set of nodes that     *)
(* only lead to each other and hold neither an end nor an approval          *)
(* (definitions.py: validate_definition and _closure).                      *)
AcceptedGraphsFinish ==
    /\ phase = "error" => position \in Approvals
    /\ phase = "walking" =>
         \A S \in SUBSET (Nodes \ ({End} \cup Approvals)) :
            position \in S => \E e \in Edges : e[1] \in S /\ e[2] \notin S
=============================================================================
