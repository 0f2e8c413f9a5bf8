------------------------- MODULE ProcessDefinitions -------------------------
(***************************************************************************)
(* Process definitions of asas-workflow: each replica seeds the specs of   *)
(* its own release with ensure_definition, statement by statement, while   *)
(* subjects are bound to variants and instances are opened on what         *)
(* resolve_definition answers.                                             *)
(***************************************************************************)
EXTENDS Naturals, FiniteSets

CONSTANTS
    Keys,      \* definition keys; the one equal to a purpose is its default
    Specs,     \* the specs some release registers: [key, purpose, entity]
    Subjects,  \* subjects, of type Kind[s]
    Kind,
    Seeders,   \* replicas that boot
    Unbound,   \* None
    MaxRows, MaxBinds   \* bounds: definition rows, calls of set_binding

VARIABLES
    defs,      \* process_definition rows
    binding,   \* process_binding: the key bound for a subject and purpose
    seeding,   \* what each replica's ensure_definition has read so far
    opened,    \* history: the last instance's request and its definition
    binds

definitions == <<defs, binding, seeding, opened, binds>>

NotSeeding == [step |-> "none"]

Init ==
    /\ defs = {} /\ binding = [s \in Subjects |-> [p \in Keys |-> Unbound]]
    /\ seeding = [r \in Seeders |-> NotSeeding]
    /\ opened = Unbound /\ binds = 0

Newest(ds) == {d \in ds : \A e \in ds : e.version <= d.version}
ActiveRows(k) == {d \in defs : d.key = k /\ d.active}

\* Mutant: no ORDER BY, some active row.
SomeActive(k) == IF ActiveRows(k) = {} THEN {} ELSE {CHOOSE d \in ActiveRows(k) : TRUE}
\* get_active_definition: the row, or none, as a set.
Active(k) == Newest(ActiveRows(k))

SpecOf(d) == [key |-> d.key, purpose |-> d.purpose, entity |-> d.entity]

-----------------------------------------------------------------------------
\* ensure_definition: the active version is read; the same spec changes nothing.
ensure_definition(r, sp) ==
    /\ seeding[r] = NotSeeding /\ sp \notin {SpecOf(d) : d \in Active(sp.key)}
    /\ seeding' = [seeding EXCEPT ![r] = [step |-> "read", spec |-> sp, active |-> Active(sp.key)]]
    /\ UNCHANGED <<defs, binding, opened, binds>>

\* A variant runs on its purpose's subject type.
Fits(sp) == sp.purpose = sp.key \/ \A d \in Active(sp.purpose) : d.entity = sp.entity

\* validate_definition, then the latest version of any status is read.
Validate(r) ==
    /\ seeding[r].step = "read"
    /\ LET sp == seeding[r].spec
           ofKey == {d \in defs : d.key = sp.key}
       IN IF ~Fits(sp) THEN seeding' = [seeding EXCEPT ![r] = NotSeeding]
          ELSE /\ Cardinality(defs) < MaxRows
               /\ seeding' = [seeding EXCEPT ![r] = [step |-> "write", spec |-> sp,
                     active |-> seeding[r].active,
                     version |-> 1 + (IF ofKey = {} THEN 0 ELSE (CHOOSE d \in Newest(ofKey) : TRUE).version)]]
    /\ UNCHANGED <<defs, binding, opened, binds>>

\* The version it had read active is archived and the next inserted, in one commit;
\* the unique key of (key, version) refuses a number taken meanwhile.
Publish(r) ==
    /\ seeding[r].step = "write"
    /\ LET p == seeding[r]
           archived == {d \in defs : \E a \in p.active : a.key = d.key /\ a.version = d.version}
       IN IF \E d \in defs : d.key = p.spec.key /\ d.version = p.version THEN UNCHANGED defs
          ELSE defs' = (defs \ archived) \cup {[d EXCEPT !.active = FALSE] : d \in archived}
                 \cup {[key |-> p.spec.key, version |-> p.version, purpose |-> p.spec.purpose,
                        entity |-> p.spec.entity, active |-> TRUE]}
    /\ seeding' = [seeding EXCEPT ![r] = NotSeeding]
    /\ UNCHANGED <<binding, opened, binds>>

-----------------------------------------------------------------------------
\* set_binding: only to a key whose active definition serves the purpose, or cleared.
set_binding(s, p, k) ==
    /\ binds < MaxBinds /\ binds' = binds + 1
    /\ k = Unbound \/ \E d \in Active(k) : d.purpose = p
    /\ binding' = [binding EXCEPT ![s][p] = k]
    /\ UNCHANGED <<defs, seeding, opened>>

\* get_binding, while its key is active.
Bound(s, p) == IF binding[s][p] = Unbound THEN {} ELSE Active(binding[s][p])

\* resolve_definition: a binding that no longer serves the purpose falls back.
Resolved(s, p) ==
    LET bound == {d \in Bound(s, p) : d.purpose = p}
    IN IF bound # {} THEN bound ELSE Active(p)

\* open_instance for a purpose: the resolved definition must run on the subject's type.
open_instance(s, p) ==
    /\ \E d \in Resolved(s, p) :
         /\ d.entity = Kind[s]
         /\ opened' = [purpose |-> p, definition |-> d]
    /\ UNCHANGED <<defs, binding, seeding, binds>>

Next ==
    \/ \E r \in Seeders : Validate(r) \/ Publish(r) \/ \E sp \in Specs : ensure_definition(r, sp)
    \/ \E s \in Subjects, p \in Keys :
         open_instance(s, p) \/ \E k \in Keys \cup {Unbound} : set_binding(s, p, k)

Spec == Init /\ [][Next]_definitions

-----------------------------------------------------------------------------
(* An instance opens on the newest published version of its definition, and *)
(* the definition is the purpose's default or a variant that serves the     *)
(* purpose at that moment, whatever overlapping replicas published and      *)
(* however old the binding is (definitions.py: get_active_definition,       *)
(* resolve_definition; overlapping seeders can leave two active versions).  *)
OpensOnTheNewest ==
    opened' # opened =>
      LET o == opened' IN
      /\ \A d \in defs : d.key = o.definition.key => d.version <= o.definition.version
      /\ o.definition.purpose = o.purpose \/ o.definition.key = o.purpose
OpensOnTheNewestVariant == [][OpensOnTheNewest]_definitions
=============================================================================
