------------------------------ MODULE Placement ------------------------------
(***************************************************************************)
(* migrate(schema=, tenant_guc=) of asas-notifications: the chain run in a *)
(* schema of its own on the host's connection, then row level security on  *)
(* the tenant tables.  The chain commits as it goes; the policies are      *)
(* written in one transaction; either may fail.                            *)
(***************************************************************************)
EXTENDS Naturals, FiniteSets

CONSTANTS
    Schemas,   \* schemas a host names
    Default,   \* the schema on the connection's own search_path
    Settings,  \* session variables a policy may read
    Unset,     \* None: no schema, no setting
    MaxCalls   \* bound: calls of migrate

TenantTables == {"notification", "notification_delivery"}
Places == Schemas \cup {Default}

VARIABLES
    path,     \* the connection's search_path: the one schema it resolves names in
    created,  \* schemas that exist
    placed,   \* schemas the chain has brought to its head
    walls,    \* the policy of each tenant table of a schema: Unset or the setting it reads
    pending,  \* the walls as the open transaction has them
    call,     \* the running call: its step, schema, setting, and the path to restore
    outcome,  \* of the last call
    calls

placement == <<path, created, placed, walls, pending, call, outcome, calls>>

NoCall == [step |-> "none", schema |-> Unset, guc |-> Unset, previous |-> Unset]
NoWalls == [s \in Places |-> [t \in TenantTables |-> Unset]]

Init ==
    /\ path = Default /\ created = {Default} /\ placed = {}
    /\ walls = NoWalls /\ pending = NoWalls
    /\ call = NoCall /\ outcome = "none" /\ calls = 0

\* migrate is called on a connection; _placed refuses one inside a transaction.
migrate(s, g, open) ==
    /\ call.step = "none" /\ calls < MaxCalls
    /\ calls' = calls + 1
    /\ IF open THEN outcome' = "refused" /\ UNCHANGED call
               ELSE call' = [step |-> "enter", schema |-> s, guc |-> g, previous |-> Unset] /\ outcome' = "running"
    /\ UNCHANGED <<path, created, placed, walls, pending>>

\* _enter_schema: create it if it is missing, make it the whole path, and commit.
EnterSchema ==
    /\ call.step = "enter"
    /\ IF call.schema = Unset
       THEN call' = [call EXCEPT !.step = "chain"] /\ UNCHANGED <<path, created>>
       ELSE /\ created' = created \cup {call.schema}
            /\ call' = [call EXCEPT !.step = "chain", !.previous = path]
            /\ path' = call.schema
    /\ UNCHANGED <<placed, walls, pending, outcome, calls>>

\* The name is refused, or CREATE SCHEMA is.
EnterFails ==
    /\ call.step = "enter" /\ call.schema # Unset
    /\ call' = NoCall /\ outcome' = "failed"
    /\ UNCHANGED <<path, created, placed, walls, pending, calls>>

\* The chain runs where the path says, and may raise on the way.
Chain(raises) ==
    /\ call.step = "chain"
    /\ placed' = IF raises THEN placed ELSE placed \cup {path}
    /\ IF raises \/ call.guc = Unset
       THEN call' = [call EXCEPT !.step = "restore"]
       ELSE call' = [call EXCEPT !.step = "protect"]
    /\ outcome' = IF raises THEN "failed" ELSE outcome
    /\ pending' = walls
    /\ UNCHANGED <<path, created, walls, calls>>

\* Mutant: a policy of that name is taken for the right one.
AnyPolicy(t) == pending[path][t] # Unset
\* _protection: the policy reads this setting.
Current(t) == pending[path][t] = call.guc

\* _protect, a table at a time in one transaction; a current table is not touched.
Protect ==
    /\ call.step = "protect"
    /\ \E t \in TenantTables : ~ Current(t) /\ pending' = [pending EXCEPT ![path][t] = call.guc]
    /\ UNCHANGED <<path, created, placed, walls, call, outcome, calls>>

\* The transaction commits, or what it did is gone.
ProtectEnds(raises) ==
    /\ call.step = "protect"
    /\ ~ raises => \A t \in TenantTables : Current(t)
    /\ walls' = IF raises THEN walls ELSE pending
    /\ outcome' = IF raises THEN "failed" ELSE outcome
    /\ call' = [call EXCEPT !.step = "restore"]
    /\ UNCHANGED <<path, created, placed, pending, calls>>

\* The finally clause.
Restores == call.previous # Unset

Leave ==
    /\ call.step = "restore"
    /\ path' = IF Restores THEN call.previous ELSE path
    /\ outcome' = IF outcome = "failed" THEN "failed" ELSE "done"
    /\ call' = [NoCall EXCEPT !.schema = call.schema, !.guc = call.guc]
    /\ UNCHANGED <<created, placed, walls, pending, calls>>

Next ==
    \/ \E s \in Schemas \cup {Unset}, g \in Settings \cup {Unset}, open \in BOOLEAN : migrate(s, g, open)
    \/ EnterSchema \/ EnterFails \/ Protect \/ Leave
    \/ \E raises \in BOOLEAN : Chain(raises) \/ ProtectEnds(raises)

Spec == Init /\ [][Next]_placement

\* Whatever fails on the way, the pooled connection leaves with the path it came with;
\* a call that is done has placed the tables in the schema it named, there and not on
\* the connection's own path, and both tenant tables of that schema read the setting
\* it named, although an earlier call may have written policies for another one.
PlacedWhereAsked ==
    call.step = "none" =>
        /\ path = Default
        /\ outcome = "done" =>
              LET where == IF call.schema = Unset THEN Default ELSE call.schema
              IN  /\ where \in placed \cap created
                  /\ call.guc # Unset => \A t \in TenantTables : walls[where][t] = call.guc
=============================================================================
