----------------------------- MODULE Permissions -----------------------------
(***************************************************************************)
(* The discretionary layer of asas-access: grant rows of fields and of     *)
(* actions, groups, the principals a user holds, and what they decide for  *)
(* one record.  Administrators write rows and groups; the process caches   *)
(* the rows, and a fill of the cache is a read and, later, an assignment.  *)
(***************************************************************************)
EXTENDS Naturals, FiniteSets

CONSTANTS
    People,       \* users; the functions RoleOf, OrgOf and Related describe them
    RoleOf, OrgOf,
    Related,      \* the users a resolver relates to the record
    Orgs,         \* orgs
    Everywhere,   \* org_id NULL: a platform row
    Fields, Verbs,
    Companions,   \* also_null: what is hidden with a field
    RecordVerbs,  \* verbs registered as record-scoped
    Admin, Member, \* roles
    Lead,         \* the principal of the resolver
    GroupKeys,    \* keys an org asks a group to have
    Reserved,     \* reserved_principals: the library's and the host's
    Viewers,      \* principals registered to see a private record
    ViewPrivate,  \* the verb record.view_private
    MaxAdmin      \* bound: changes of an administrator

VARIABLES
    fieldRows,    \* field_permission: [field, action, principal, org]
    actionRows,   \* action_permission: [permission, principal, org]
    groups,       \* access_group with its members: [org, key, members]
    policyCache,  \* the process' _cache of policy.py and of actions.py
    filling,      \* rows a thread has read and not yet put into the cache
    owes,         \* an editor that has committed and not yet invalidated
    changed,      \* history: the org whose rows the last step changed, or how
    tries,
    crossed       \* history: the cache was filled with rows read before it was dropped

permissions == <<fieldRows, actionRows, groups, policyCache, filling, owes, changed, tries, crossed>>

\* Granting to Admin says nothing beyond the floor.
Principals == {Member, Lead} \cup GroupKeys
NoCache == [filled |-> FALSE]
Rows == [field |-> fieldRows, action |-> actionRows]

Init ==
    /\ fieldRows = {} /\ actionRows = {} /\ groups = {}
    /\ policyCache = NoCache /\ filling = NoCache /\ owes = FALSE /\ crossed = FALSE
    /\ changed = "nothing" /\ tries = 0

-----------------------------------------------------------------------------
(* Principals.                                                              *)

\* The host's group source: the keys of the groups of the user's own org.
GroupKeysOf(u) == {g.key : g \in {h \in groups : h.org = OrgOf[u] /\ u \in h.members}}

\* held_principals; the resolver and the record sources take part when there is a
\* record, and one that raises grants nothing.
held_principals(u, onRecord, raising) ==
    {RoleOf[u]} \cup (IF "groups" \in raising THEN {} ELSE GroupKeysOf(u))
    \cup (IF onRecord /\ u \in Related /\ "resolver" \notin raising THEN {Lead} ELSE {})

\* Mutant: rows of every org decide.
AllRows(rows, o) == rows
\* The platform's rows and those of the user's org.
RowsFor(rows, o) == {r \in rows : r.org \in {Everywhere, o}}
Listed(rows, o) == {r.principal : r \in RowsFor(rows, o)}

\* _allowed: no rows that apply leaves the caller's rule; admin is never locked out.
FieldAllowed(rows, u, f, action, raising) ==
    LET listed == Listed({r \in rows.field : r.field = f /\ r.action = action}, OrgOf[u])
        held == held_principals(u, TRUE, raising)
    IN  listed = {} \/ Admin \in held \/ listed \cap held # {}

\* action_allowed and action_allowed_for: no rows leaves only admin.
ActionAllowed(rows, u, v, onRecord, raising) ==
    LET held == held_principals(u, onRecord, raising)
    IN  Admin \in held \/ Listed({r \in rows.action : r.permission = v}, OrgOf[u]) \cap held # {}

\* action_allowed refuses to judge a record-scoped verb without its record.
ActionAsked(rows, u, v, raising) ==
    IF v \in RecordVerbs THEN "raises"
    ELSE IF ActionAllowed(rows, u, v, FALSE, raising) THEN "yes" ELSE "no"

\* can_view_record of a private record that the mandatory layer lets through.
CanViewPrivate(rows, u, raising) ==
    LET held == held_principals(u, TRUE, raising)
    IN  Admin \in held \/ Viewers \cap held # {} \/ ActionAllowed(rows, u, ViewPrivate, FALSE, raising)

\* forbidden_edits: of the fields that change, those the user may not edit.
forbidden_edits(rows, u, changes, raising) ==
    {f \in changes : ~ FieldAllowed(rows, u, f, "edit", raising)}

\* view_restricted_fields and redact_view: the fields left in the read model, where a
\* companion goes with its source.
view_restricted_fields(rows) == {r.field : r \in {q \in rows.field : q.action = "view"}}
redact_view(rows, u, shown, raising) ==
    LET hidden == {f \in view_restricted_fields(rows) : ~ FieldAllowed(rows, u, f, "view", raising)}
    IN  shown \ (hidden \cup UNION {Companions[f] : f \in hidden})

-----------------------------------------------------------------------------
(* Administrators.                                                          *)

Change(what) == tries < MaxAdmin /\ tries' = tries + 1 /\ changed' = what

\* A row is written and committed; the invalidation follows.
EditField(f, a, p, o) ==
    LET row == [field |-> f, action |-> a, principal |-> p, org |-> o]
    IN  /\ ~ owes /\ Change(o)
        /\ fieldRows' = IF row \in fieldRows THEN fieldRows \ {row} ELSE fieldRows \cup {row}
        /\ owes' = TRUE
        /\ UNCHANGED <<actionRows, groups, policyCache, filling, crossed>>
EditAction(v, p, o) ==
    LET row == [permission |-> v, principal |-> p, org |-> o]
    IN  /\ ~ owes /\ Change(o)
        /\ actionRows' = IF row \in actionRows THEN actionRows \ {row} ELSE actionRows \cup {row}
        /\ owes' = TRUE
        /\ UNCHANGED <<fieldRows, groups, policyCache, filling, crossed>>

\* seed_field_permissions adds the platform row unless it is there: a row of an org
\* does not stand for it.
Seed(f, a, p) ==
    /\ [field |-> f, action |-> a, principal |-> p, org |-> Everywhere] \notin fieldRows
    /\ EditField(f, a, p, Everywhere)

\* invalidate_cache, invalidate_action_cache.
Invalidate ==
    /\ owes /\ owes' = FALSE
    /\ policyCache' = NoCache /\ changed' = "nothing" /\ crossed' = FALSE
    /\ UNCHANGED <<fieldRows, actionRows, groups, filling, tries>>

\* _policy and _grants on an empty cache: read, then assign.
Query ==
    /\ ~ policyCache.filled /\ ~ filling.filled
    /\ filling' = [filled |-> TRUE, rows |-> Rows] /\ changed' = "nothing"
    /\ UNCHANGED <<fieldRows, actionRows, groups, policyCache, owes, tries, crossed>>
Fill ==
    /\ filling.filled
    /\ policyCache' = filling /\ filling' = NoCache /\ changed' = "nothing"
    /\ crossed' = (crossed \/ filling.rows # Rows)
    /\ UNCHANGED <<fieldRows, actionRows, groups, owes, tries>>

\* Mutant: any well-formed key is taken.
AnyKey(k) == TRUE
\* validate_group_key.
ValidKey(k) == k \notin Reserved

\* ensure_system_groups, or a custom group; and who is in it.
AddGroup(o, k) ==
    /\ ValidKey(k) /\ ~ \E g \in groups : g.org = o /\ g.key = k
    /\ Change(o) /\ groups' = groups \cup {[org |-> o, key |-> k, members |-> {}]}
    /\ UNCHANGED <<fieldRows, actionRows, policyCache, filling, owes, crossed>>
Join(g, u) ==
    /\ Change("join") /\ groups' = (groups \ {g}) \cup {[g EXCEPT !.members = @ \cup {u}]}
    /\ UNCHANGED <<fieldRows, actionRows, policyCache, filling, owes, crossed>>
Leave(g, u) ==
    /\ u \in g.members
    /\ Change("leave") /\ groups' = (groups \ {g}) \cup {[g EXCEPT !.members = @ \ {u}]}
    /\ UNCHANGED <<fieldRows, actionRows, policyCache, filling, owes, crossed>>

Next ==
    \/ \E f \in Fields, a \in {"view", "edit"}, p \in Principals, o \in Orgs : EditField(f, a, p, o)
    \/ \E f \in Fields, a \in {"view", "edit"}, p \in Principals : Seed(f, a, p)
    \/ \E v \in Verbs, p \in Principals, o \in Orgs \cup {Everywhere} : EditAction(v, p, o)
    \/ Invalidate \/ Query \/ Fill
    \/ \E o \in Orgs, k \in GroupKeys : AddGroup(o, k)
    \/ \E g \in groups, u \in People : (OrgOf[u] = g.org /\ Join(g, u)) \/ Leave(g, u)

Spec == Init /\ [][Next]_permissions

-----------------------------------------------------------------------------
\* Everything the engine answers about one user, on the given rows.
Answers(rows, u, raising) ==
    [edits |-> Fields \ forbidden_edits(rows, u, Fields, raising),
     views |-> redact_view(rows, u, Fields, raising),
     verbs |-> {v \in Verbs : ActionAsked(rows, u, v, raising) = "yes"},
     rights |-> {v \in Verbs : ActionAllowed(rows, u, v, TRUE, raising)},
     private |-> IF CanViewPrivate(rows, u, raising) THEN {"record"} ELSE {}]
NoMore(a, b) == \A x \in DOMAIN a : a[x] \subseteq b[x]

\* What one org's administrators do changes no answer about a user of another org;
\* leaving a group never adds a right, and joining one never takes one away.
EditStaysInItsOrg ==
    \A u \in People :
     /\ changed' \in Orgs \ {OrgOf[u]} => Answers(Rows, u, {})' = Answers(Rows, u, {})
     /\ changed' = "leave" => NoMore(Answers(Rows, u, {})', Answers(Rows, u, {}))
     /\ changed' = "join" => NoMore(Answers(Rows, u, {}), Answers(Rows, u, {})')
EditsStayInTheirOrg == [][EditStaysInItsOrg]_permissions

\* A reserved principal is held by role or by relationship only; a source that raises
\* grants nothing; no configuration takes anything from an admin.  The cache is the
\* table unless an editor still owes its invalidation or the cache was filled across one.
RightsAreEarned ==
    /\ \A u \in People :
        /\ held_principals(u, TRUE, {}) \cap Reserved \subseteq
              {RoleOf[u]} \cup (IF u \in Related THEN {Lead} ELSE {})
        /\ \A raising \in SUBSET {"groups", "resolver"} :
              NoMore(Answers(Rows, u, raising), Answers(Rows, u, {}))
        /\ RoleOf[u] = Admin =>
              Answers(Rows, u, {}) = [edits |-> Fields, views |-> Fields, verbs |-> Verbs \ RecordVerbs,
                                      rights |-> Verbs, private |-> {"record"}]
    /\ policyCache.filled /\ policyCache.rows # Rows => owes \/ crossed
=============================================================================
