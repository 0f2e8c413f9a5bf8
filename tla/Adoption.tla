------------------------------- MODULE Adoption -------------------------------
(***************************************************************************)
(* migrate(engine) of the seven packages that own tables: create the       *)
(* schema, or adopt one that stands there without a version table, after   *)
(* checking that it is the package's whole baseline.  The database may be  *)
(* fresh, built by the host's own history, restored in part, or hold a     *)
(* stranger's table of the same name; a boot may die between two commits.  *)
(* (The long chain of asas-notifications is NotificationsSchema.)          *)
(***************************************************************************)
EXTENDS Naturals, Sequences, FiniteSets

CONSTANT MaxLosses   \* bound: partial restores

\* The baseline revisions: the tables in the order they are created, the first or the
\* named one being the sentinel, and the sentinel's columns.
access_0001 == [
    tables |-> <<"field_permission", "action_permission", "access_group", "access_group_membership">>,
    columns |-> {"id", "org_id", "entity_type", "field", "action", "principal"}]
audit_0001 == [
    tables |-> <<"audit_event">>,
    columns |-> {"seq", "id", "org_id", "actor", "action", "resource_type", "resource_id",
                 "payload", "occurred_at", "hash_prev", "hash_current"}]
jobs_0001 == [
    tables |-> <<"background_job", "job_schedule">>,
    columns |-> {"id", "org_id", "kind", "payload", "status", "run_at", "attempts", "max_attempts",
                 "claimed_by", "lease_expires_at", "last_error", "schedule_id", "dedupe_key",
                 "created_at", "started_at", "finished_at"}]
lookups_0001 == [
    tables |-> <<"lookup_type", "lookup_value", "lookup_translation", "lookup_alias">>,
    columns |-> {"id", "key", "name", "description", "is_open", "is_hierarchical", "code_system",
                 "default_sort", "version", "created_at", "updated_at"}]
notifications_0001 == [
    tables |-> <<"notification", "notification_delivery">>,
    columns |-> {"id", "org_id", "user_id", "kind", "category", "urgency", "reason", "entity_type",
                 "entity_id", "title", "body", "link", "read_at", "resolved_at", "created_at"}]
search_0001 == [
    tables |-> <<"search_document">>,
    columns |-> {"id", "entity_type", "entity_id", "source", "source_id", "content", "context",
                 "org_id", "tsv", "embedding", "embedding_model"}]
workflow_0001 == [
    tables |-> <<"process_definition", "process_node", "process_transition", "process_binding",
                 "process_instance", "node_execution", "node_assignee", "node_decision", "info_request">>,
    columns |-> {"id", "org_id", "key", "version", "name", "entity_type", "purpose", "status",
                 "data_fields", "spec_hash", "created_at", "published_at"}]

\* What each package's _assert_adoptable checks: every migrate.py has its own copy of the
\* check, and the copies differ in these values only; Adoptable is their common body.
access == [
    baseline |-> access_0001, sentinel |-> "field_permission", renamed |-> {},
    tables |-> {"access_group", "access_group_membership", "action_permission", "field_permission"},
    columns |-> {"id", "org_id", "entity_type", "field", "action", "principal"}]
audit == [
    baseline |-> audit_0001, sentinel |-> "audit_event", renamed |-> {}, tables |-> {"audit_event"},
    columns |-> {"id", "org_id", "seq", "actor", "action", "resource_type", "resource_id", "payload",
                 "occurred_at", "hash_prev", "hash_current"}]
jobs == [
    baseline |-> jobs_0001, sentinel |-> "background_job", renamed |-> {},
    tables |-> {"background_job", "job_schedule"},
    columns |-> {"id", "org_id", "kind", "payload", "status", "run_at", "attempts", "max_attempts",
                 "claimed_by", "lease_expires_at", "last_error", "schedule_id", "dedupe_key",
                 "created_at", "started_at", "finished_at"}]
lookups == [
    baseline |-> lookups_0001, sentinel |-> "lookup_type", renamed |-> {},
    tables |-> {"lookup_alias", "lookup_translation", "lookup_type", "lookup_value"},
    columns |-> {"id", "key", "name", "description", "is_open", "is_hierarchical", "code_system",
                 "default_sort", "version", "created_at", "updated_at"}]
notifications == [
    baseline |-> notifications_0001, sentinel |-> "notification",
    renamed |-> {<<"kind", "action">>, <<"urgency", "importance">>},
    tables |-> {"notification", "notification_delivery"},
    columns |-> {"id", "org_id", "user_id", "entity_type", "entity_id", "title", "body", "link",
                 "read_at", "resolved_at", "created_at"}]
search == [
    baseline |-> search_0001, sentinel |-> "search_document", renamed |-> {}, tables |-> {"search_document"},
    columns |-> {"id", "entity_type", "entity_id", "source", "source_id", "content", "context",
                 "org_id", "tsv", "embedding", "embedding_model"}]
workflow == [
    baseline |-> workflow_0001, sentinel |-> "process_definition", renamed |-> {},
    tables |-> {"info_request", "node_assignee", "node_decision", "node_execution", "process_binding",
                "process_definition", "process_instance", "process_node", "process_transition"},
    columns |-> {"id", "org_id", "key", "version", "name", "entity_type", "purpose", "status",
                 "data_fields", "spec_hash", "created_at", "published_at"}]

Packages == {access, audit, jobs, lookups, notifications, search, workflow}
Created(p) == {p.baseline.tables[k] : k \in DOMAIN p.baseline.tables}

VARIABLES
    pkg,       \* the package that boots
    postgres,  \* the dialect: DDL is transactional, or every statement commits
    found,     \* its tables that exist
    carried,   \* the columns of the sentinel table
    second,    \* what the package's revision 0002 adds exists
    stamp,     \* the version table: "none", "empty", "0001" or "head"
    at,        \* the boot: "off", "adopt", "upgrade", or the baseline tables it has made
    outcome,   \* of the last boot that ended: "none", "head", "refused" or "failed"
    losses

adoption == <<pkg, postgres, found, carried, second, stamp, at, outcome, losses>>

\* search has tables on Postgres only; only access and lookups have a second revision.
HasSecond(p) == p \in {access, lookups}

\* The baseline's columns with the pairs of R under their later names.
Moved(R) == (pkg.baseline.columns \ {r[1] : r \in R}) \cup {r[2] : r \in R}

\* A stranger's table may lack any column, or all of them.
Init ==
    /\ pkg \in Packages /\ postgres \in BOOLEAN /\ (pkg = search => postgres)
    /\ found \in SUBSET Created(pkg)
    /\ carried \in {{}} \cup {pkg.baseline.columns \ {c} : c \in pkg.baseline.columns}
                       \cup {Moved(R) : R \in SUBSET pkg.renamed}
    /\ pkg.sentinel \notin found => carried = {}
    /\ second \in BOOLEAN /\ (second => HasSecond(pkg) /\ found = Created(pkg))
    /\ stamp = "none" /\ at = "off" /\ outcome = "none" /\ losses = 0

-----------------------------------------------------------------------------
(* The check before the stamp.                                              *)

\* Every pair renamed, and only in a package that renames: the package's own later schema.
AllRenamed == pkg.renamed # {} /\ \A r \in pkg.renamed : r[2] \in carried /\ r[1] \notin carried
\* Some pairs renamed and some not.
SomeRenamed == \E r \in pkg.renamed : r[2] \in carried /\ r[1] \notin carried

\* Mutant: the tables beside the sentinel are not looked for.
AdoptableByColumns ==
    pkg.columns \subseteq carried /\ \A r \in pkg.renamed : r[1] \in carried
\* _assert_adoptable.
Adoptable ==
    /\ pkg.tables \subseteq found
    /\ ~AllRenamed /\ ~SomeRenamed
    /\ pkg.columns \subseteq carried
    /\ \A r \in pkg.renamed : r[1] \in carried \/ r[2] \in carried

Ends(o) == at' = "off" /\ outcome' = o
Keep == UNCHANGED <<pkg, postgres, losses>>

\* migrate: adopt, refuse, or go straight to the upgrade.
migrate ==
    /\ at = "off"
    /\ IF stamp = "none" /\ pkg.sentinel \in found
       THEN IF Adoptable THEN at' = "adopt" /\ outcome' = "none" ELSE Ends("refused")
       ELSE at' = "upgrade" /\ outcome' = "none"
    /\ Keep /\ UNCHANGED <<found, carried, second, stamp>>

\* command.stamp, a transaction of its own.
Stamp ==
    /\ at = "adopt" /\ at' = "upgrade" /\ stamp' = "0001"
    /\ Keep /\ UNCHANGED <<found, carried, second, outcome>>

\* Revision 0002 of access creates its tables and fails on those it finds; that of
\* lookups adds, backfills and tightens what is not so yet.
SecondApplies == pkg = access => ~second

\* command.upgrade on Postgres: the revisions missing, all in one transaction.
UpgradeTogether ==
    /\ at = "upgrade" /\ postgres
    /\ IF (stamp \in {"none", "empty"} => found = {}) /\ (stamp # "head" => SecondApplies)
       THEN /\ Ends("head") /\ stamp' = "head"
            /\ IF stamp \in {"none", "empty"}
               THEN found' = Created(pkg) /\ carried' = pkg.baseline.columns
               ELSE UNCHANGED <<found, carried>>
            /\ second' = HasSecond(pkg)
       ELSE Ends("failed") /\ UNCHANGED <<found, carried, second, stamp>>
    /\ Keep

\* On SQLite the version table comes first and each table commits by itself.
UpgradeStep ==
    /\ at = "upgrade" /\ ~postgres /\ stamp \in {"none", "empty"}
    /\ \/ /\ stamp = "none" /\ stamp' = "empty"
          /\ UNCHANGED <<found, carried, at, outcome>>
       \/ /\ stamp = "empty" /\ found # {}
          /\ Ends("failed") /\ UNCHANGED <<found, carried, stamp>>
       \/ /\ stamp = "empty" /\ found = {} /\ at' = "create"
          /\ UNCHANGED <<found, carried, stamp, outcome>>
    /\ Keep /\ UNCHANGED second
CreateTable ==
    /\ at = "create"
    /\ LET n == Cardinality(found) + 1
       IN  IF n <= Len(pkg.baseline.tables)
           THEN /\ found' = found \cup {pkg.baseline.tables[n]}
                /\ carried' = IF pkg.baseline.tables[n] = pkg.sentinel THEN pkg.baseline.columns ELSE carried
                /\ UNCHANGED <<at, stamp>>
           ELSE at' = "upgrade" /\ stamp' = "0001" /\ UNCHANGED <<found, carried>>
    /\ Keep /\ UNCHANGED <<second, outcome>>
UpgradeSecond ==
    /\ at = "upgrade" /\ ~postgres /\ stamp \in {"0001", "head"}
    /\ IF stamp = "head" \/ SecondApplies
       THEN Ends("head") /\ stamp' = "head" /\ second' = HasSecond(pkg)
       ELSE Ends("failed") /\ UNCHANGED <<stamp, second>>
    /\ Keep /\ UNCHANGED <<found, carried>>

Dies ==
    /\ at # "off" /\ at' = "off" /\ UNCHANGED outcome
    /\ Keep /\ UNCHANGED <<found, carried, second, stamp>>

\* A backup is restored without the version table, and perhaps without other tables.
Lose(S) ==
    /\ at = "off" /\ losses < MaxLosses /\ losses' = losses + 1
    /\ found' = found \ S /\ stamp' = "none" /\ outcome' = "none"
    /\ carried' = IF pkg.sentinel \in S THEN {} ELSE carried
    /\ second' = (second /\ S = {})
    /\ UNCHANGED <<pkg, postgres, at>>

Next ==
    \/ migrate \/ Stamp \/ UpgradeTogether \/ UpgradeStep \/ CreateTable \/ UpgradeSecond \/ Dies
    \/ \E S \in SUBSET found : Lose(S)

Spec == Init /\ [][Next]_adoption

-----------------------------------------------------------------------------
\* A boot that reports success stands on the package's whole schema, however the
\* database came to be; and one that is refused was refused for something missing, so
\* that no genuine baseline is ever turned away.
AdoptsExactlyTheWhole ==
    /\ outcome = "head" => found = Created(pkg) /\ pkg.columns \subseteq carried /\ (HasSecond(pkg) => second)
    /\ outcome = "refused" => found # Created(pkg) \/ ~(pkg.baseline.columns \subseteq carried)
=============================================================================
