---------------------------- MODULE TenantIsolation ----------------------------
(***************************************************************************)
(* asas-tenancy around one table of a host: the worker's tenant context,   *)
(* the pin that hands it to Postgres per transaction, the engine a sweep   *)
(* dedicates to one tenant, the migrations that protect the table, lift    *)
(* its FORCE or add a column, and the checks of the conformance kit.  A    *)
(* migration runs in one transaction or commits each statement, and its    *)
(* process may die between two; any transaction may roll back.             *)
(***************************************************************************)
EXTENDS Naturals, Sequences, FiniteSets

CONSTANTS
    Clients,       \* tenants
    Nobody,        \* no tenant: nothing bound, or a shared row's NULL
    Unset, Empty,  \* what the setting reads before it was ever set, and after a local one
    MaxChains      \* bound: migrations

VARIABLES
    role,       \* the connected role: "plain", "exempt" (superuser or BYPASSRLS), or "sqlite"
    owner,      \* whether the application connects as the table's owner, which no other role notices
    table,      \* its switches and its policy: "none", "own" or "shared"
    rows,       \* [id, of, level], level counting the data migrations that reached it
    level,      \* data migrations that finished
    context,    \* the context variable and the tokens that restore it
    engine,     \* Nobody for the application's engine, or the tenant of a sweep's
    conn,       \* a connection of the engine's pool
    migration,  \* the one that runs
    vowed,      \* history: the table is protected and no half-done migration touched it
    chains

tenancy == <<role, owner, table, rows, level, context, engine, conn, migration, vowed, chains>>

Policies == {"own", "shared"}
Bare == [enabled |-> FALSE, forced |-> FALSE, policy |-> "none"]
Guarded(p) == [enabled |-> TRUE, forced |-> TRUE, policy |-> p]

\* A connection: the setting as the transaction sees it and as last committed, its
\* transaction-local value, and the tenant the open unit of work is for.
Fresh == [at |-> "idle", setting |-> Unset, kept |-> Unset, local |-> Unset, unit |-> Nobody]
Closed == [Fresh EXCEPT !.at = "closed"]
Idle == [at |-> "off", what |-> "protect", policy |-> "own", together |-> TRUE, step |-> 1,
         table |-> Bare, rows |-> {}, vowed |-> FALSE]

Row(i, t) == [id |-> i, of |-> t, level |-> 0]

\* A table bare, protected, or as a migration that died outside a transaction left it:
\* without FORCE, or without a policy.
Unforced == [enabled |-> TRUE, forced |-> FALSE, policy |-> "own"]
Found == {Bare, Unforced, Guarded("none")} \cup {Guarded(p) : p \in Policies}

\* Connections come and go one at a time: units of work meet in the table only.
Init ==
    /\ role \in {"plain", "exempt", "sqlite"} /\ owner \in BOOLEAN /\ (role # "plain" => owner)
    /\ table \in Found /\ vowed = (\E p \in Policies : table = Guarded(p))
    /\ \E T \in {{}, Clients \cup {Nobody}} : rows = {Row(t, t) : t \in T}
    /\ level = 0 /\ chains = 0
    /\ context = [tenant |-> Nobody, tokens |-> <<>>]
    /\ engine \in Clients \cup {Nobody} /\ conn = Closed
    /\ migration = Idle

-----------------------------------------------------------------------------
(* What Postgres lets through.                                              *)

\* current_setting: a value local to the transaction, or the session's.
Setting(c) == IF c.local # Unset THEN c.local ELSE c.setting

\* The policy's USING: an unset and an empty setting are both NULL and match nothing.
Matched(policy, value) ==
    {r \in rows : \/ policy # "none" /\ r.of # Nobody /\ r.of = value
                  \/ policy = "shared" /\ r.of = Nobody}
\* FORCE is what subjects the owner; a role that bypasses, and SQLite, ignore it all.
SeenIn(t, owns, value) ==
    IF role # "plain" \/ ~t.enabled \/ (owns /\ ~t.forced) THEN rows ELSE Matched(t.policy, value)
Sees(c) == SeenIn(table, owner, Setting(c))

\* WITH CHECK asks for the tenant's own row, of a shared table too.
MayWrite(c, t) ==
    \/ role # "plain" \/ ~table.enabled \/ (owner /\ ~table.forced)
    \/ table.policy # "none" /\ t # Nobody /\ Setting(c) = t

\* A migration in a transaction holds the table's exclusive lock from its first statement.
Locked == migration.at = "running" /\ migration.together /\ migration.step > 1
InUse == conn.at = "open"

\* The statements of enable_rls, disable_rls, without_force around a rewriting of every
\* row, and add_tenant_scoped_column.  SQLite has the column and the rewriting only.
Program(what) ==
    [protect |-> <<"enable", "force", "policy">>,
     unprotect |-> <<"drop", "unforce", "disable">>,
     rewrite |-> IF role = "sqlite" THEN <<"update">> ELSE <<"unforce", "update", "force">>,
     column |-> <<"add_column", "drop_default">>][what]

-----------------------------------------------------------------------------
(* The context and the units of work.                                       *)

Steps == UNCHANGED <<role, owner, engine, chains>>
Schema == UNCHANGED <<table, rows, level, migration, vowed>>

bind_tenant(t) ==
    /\ engine = Nobody /\ Len(context.tokens) < 2
    /\ context' = [tenant |-> t, tokens |-> Append(context.tokens, context.tenant)]
    /\ Steps /\ Schema /\ UNCHANGED conn
clear_tenant ==
    /\ context' = [context EXCEPT !.tenant = Nobody]
    /\ Steps /\ Schema /\ UNCHANGED conn
\* tenant_scope ends in a reset too, whether its block returned or raised.
reset ==
    LET n == Len(context.tokens)
    IN  /\ n > 0
        /\ context' = [tenant |-> context.tokens[n], tokens |-> SubSeq(context.tokens, 1, n - 1)]
        /\ Steps /\ Schema /\ UNCHANGED conn

\* Mutant: the connect listener does not commit what it set.
SetOpen(t) == [Fresh EXCEPT !.setting = t]
SetAndCommit(t) == [Fresh EXCEPT !.setting = t, !.kept = t]
\* pin_engine's listener pins every connection that a sweep's engine opens.
Connect ==
    /\ conn.at = "closed"
    /\ conn' = IF engine = Nobody \/ role = "sqlite" THEN Fresh ELSE SetAndCommit(engine)
    /\ Steps /\ Schema /\ UNCHANGED context
\* tenant_engine's block ends, or the pool recycles the connection.
Dispose ==
    /\ conn.at = "idle" /\ conn' = Closed
    /\ Steps /\ Schema /\ UNCHANGED context

\* set_tenant_guc with local: nothing is pinned where nothing can be.
Pinned(t) == IF t = Nobody \/ role = "sqlite" THEN Unset ELSE t

\* The application's listener on the start of a transaction pins what the context names,
\* if anything; a sweep's units are for its tenant and rely on the connection's pin.
BeginUnit ==
    /\ conn.at = "idle" /\ ~Locked
    /\ conn' = IF engine # Nobody THEN [conn EXCEPT !.at = "open", !.unit = engine]
               ELSE [conn EXCEPT !.at = "open", !.unit = context.tenant, !.local = Pinned(context.tenant)]
    /\ Steps /\ Schema /\ UNCHANGED context
\* In autocommit a local pin is over with the statement that set it.
BeginUnitLoose ==
    /\ conn.at = "idle" /\ ~Locked /\ engine = Nobody
    /\ conn' = [conn EXCEPT !.at = "loose", !.unit = context.tenant,
                    !.setting = IF @ = Unset /\ Pinned(context.tenant) # Unset THEN Empty ELSE @,
                    !.kept = IF @ = Unset /\ Pinned(context.tenant) # Unset THEN Empty ELSE @]
    /\ Steps /\ Schema /\ UNCHANGED context

\* The end of a transaction: a session-level setting stays if it was committed, and a
\* setting that was only ever local is empty from now on.
Over(commits) ==
    LET s == IF commits THEN conn.setting ELSE conn.kept
        t == IF s = Unset /\ conn.local # Unset THEN Empty ELSE s
    IN  [conn EXCEPT !.at = "idle", !.setting = t, !.kept = t, !.local = Unset, !.unit = Nobody]
EndUnit(commits) ==
    /\ conn.at \in {"open", "loose"} /\ conn' = Over(commits)
    /\ Steps /\ Schema /\ UNCHANGED context

\* The shape rows are written in: what a data migration has begun outside a transaction
\* the application writes too.
Shape ==
    IF /\ migration.at = "running" /\ ~migration.together
       /\ \E k \in 1 .. migration.step - 1 : Program(migration.what)[k] \in {"update", "add_column"}
    THEN level + 1 ELSE level
\* A unit writes one row, which other transactions see when it commits.
Write(t) ==
    /\ conn.at = "open" /\ MayWrite(conn, t) /\ \A r \in rows : r.id # "new"
    /\ rows' = rows \cup {[id |-> "new", of |-> t, level |-> Shape]}
    /\ conn' = Over(TRUE)
    /\ Steps /\ UNCHANGED <<table, level, migration, vowed, context>>

-----------------------------------------------------------------------------
(* Migrations, run by the table's owner.                                    *)

Altered(t, statement, p) ==
    CASE statement = "enable" -> [t EXCEPT !.enabled = TRUE]
      [] statement = "disable" -> [t EXCEPT !.enabled = FALSE]
      [] statement = "force" -> [t EXCEPT !.forced = TRUE]
      [] statement = "unforce" -> [t EXCEPT !.forced = FALSE]
      [] statement = "policy" -> [t EXCEPT !.policy = p]
      [] statement = "drop" -> [t EXCEPT !.policy = "none"]
      [] OTHER -> t

\* An UPDATE reaches the rows the owner sees with nothing pinned, a column's default all.
Reached(t, statement) ==
    CASE statement = "update" -> SeenIn(t, TRUE, Unset)
      [] statement = "add_column" -> rows
      [] OTHER -> {}
Brought(S) == {IF r \in S THEN [r EXCEPT !.level = level + 1] ELSE r : r \in rows}

\* Off Postgres the two that write a policy do nothing; a policy is created once.
Begin(what, p, together) ==
    /\ migration.at = "off" /\ chains < MaxChains /\ chains' = chains + 1
    /\ what = "protect" => table.policy = "none" /\ role # "sqlite"
    /\ what = "unprotect" => vowed /\ role # "sqlite"
    /\ what # "protect" => p = "own"
    /\ migration' = [at |-> "running", what |-> what, policy |-> p, together |-> together, step |-> 1,
                     table |-> table, rows |-> {}, vowed |-> vowed]
    /\ UNCHANGED <<role, owner, table, rows, level, vowed, context, engine, conn>>

\* The next statement; one that alters the table waits for the units that use it.
Statement ==
    LET m == migration
        s == Program(m.what)[m.step]
        t == Altered(m.table, s, m.policy)
        reached == Reached(m.table, s)
    IN  /\ m.at = "running" /\ m.step \in DOMAIN Program(m.what)
        /\ s # "update" \/ role = "sqlite" => ~InUse
        /\ ~(s = "drop_default" /\ role = "sqlite")  \* not SQL to it: the migration fails
        /\ migration' = [m EXCEPT !.step = @ + 1, !.table = t, !.rows = @ \cup {r.id : r \in reached}]
        /\ IF m.together
           THEN UNCHANGED <<table, rows, vowed>>
           ELSE table' = t /\ rows' = Brought(reached) /\ vowed' = FALSE
        /\ Steps /\ UNCHANGED <<level, context, conn>>

\* The last statement is through: commit, and the version is recorded.
Finish ==
    LET m == migration
        data == m.what \in {"rewrite", "column"}
    IN  /\ m.at = "running" /\ m.step \notin DOMAIN Program(m.what)
        /\ table' = m.table
        /\ rows' = IF m.together THEN Brought({r \in rows : r.id \in m.rows}) ELSE rows
        /\ level' = IF data THEN level + 1 ELSE level
        /\ vowed' = (m.what = "protect" \/ (data /\ m.vowed))
        /\ migration' = Idle
        /\ Steps /\ UNCHANGED <<context, conn>>

\* The block of without_force raises: a transaction rolls back, and otherwise FORCE is
\* put back.
Raises ==
    LET m == migration
    IN  /\ m.at = "running" /\ m.what = "rewrite" /\ role # "sqlite" /\ m.step \in {2, 3} /\ (~m.together => ~InUse)
        /\ IF m.together THEN UNCHANGED <<table, vowed>>
                         ELSE table' = [m.table EXCEPT !.forced = TRUE] /\ vowed' = m.vowed
        /\ migration' = Idle
        /\ Steps /\ UNCHANGED <<rows, level, context, conn>>
\* The process dies, or a statement fails elsewhere.
Dies ==
    /\ migration.at = "running" /\ migration' = Idle
    /\ Steps /\ UNCHANGED <<table, rows, level, vowed, context, conn>>

Next ==
    \/ (\E t \in Clients : bind_tenant(t)) \/ clear_tenant \/ reset
    \/ Connect \/ Dispose \/ BeginUnit \/ BeginUnitLoose \/ (\E commits \in BOOLEAN : EndUnit(commits))
    \/ (\E t \in Clients \cup {Nobody} : Write(t))
    \/ \E what \in {"protect", "unprotect", "rewrite", "column"}, p \in Policies, together \in BOOLEAN :
           Begin(what, p, together)
    \/ Statement \/ Finish \/ Raises \/ Dies

Spec == Init /\ [][Next]_tenancy

-----------------------------------------------------------------------------
(* The conformance kit.                                                     *)

require_enforced == role = "plain"
assert_tables_protected ==
    require_enforced /\ table.enabled /\ table.forced /\ table.policy # "none"
\* Disjoint, and not both empty.
assert_isolated(a, b) ==
    LET seenA == SeenIn(table, owner, a)
        seenB == SeenIn(table, owner, b)
    IN  require_enforced /\ seenA \cap seenB = {} /\ seenA \cup seenB # {}
assert_unpinned_sees_nothing == require_enforced /\ SeenIn(table, owner, Unset) = {}

-----------------------------------------------------------------------------
OwnOrShared(t) == {r \in rows : r.of = t \/ (r.of = Nobody /\ table.policy = "shared")}

\* A unit of work on a protected table sees its tenant's rows, all of them when it runs in
\* a transaction, and nobody else's; with no tenant it sees none.
SeesItsOwn ==
    conn.at \in {"open", "loose"} =>
        /\ Sees(conn) \subseteq OwnOrShared(conn.unit)
        /\ conn.at = "open" /\ conn.unit # Nobody => Sees(conn) = OwnOrShared(conn.unit)
\* A data migration that finished reached every tenant's rows.
NoRowLeftBehind == \A r \in rows : r.level >= level
\* A check that passes (the last one on a table with rows) passes because no tenant can see another's rows.
Vouched ==
    (\/ assert_tables_protected
     \/ \E a, b \in Clients : a # b /\ assert_isolated(a, b)
     \/ assert_unpinned_sees_nothing /\ rows # {}) =>
        \A t \in Clients : SeenIn(table, owner, t) \subseteq OwnOrShared(t)

\* Whoever works when, over reused connections, rollbacks, sweeps and migrations that
\* rewrite the table or die: tenants stay apart where the table was protected, sweeps and
\* data migrations miss nobody, and the conformance kit does not pass in vain.
TenantsStayApart ==
    /\ role = "plain" /\ vowed => SeesItsOwn
    /\ NoRowLeftBehind
    /\ Vouched
=============================================================================
