----------------------------- MODULE LookupValues -----------------------------
(***************************************************************************)
(* One lookup type of asas-lookups: its values, which the platform or an   *)
(* org owns, the requests that change them, and the clients that keep a    *)
(* list under the ETag made from the type's version.  A request reads the  *)
(* type row when it starts and writes the version it read plus one; other  *)
(* requests commit in between, and a process may die between two commits.  *)
(***************************************************************************)
EXTENDS Naturals, FiniteSets

CONSTANTS
    Holders,      \* orgs
    Shared,       \* org_id NULL, and a request without an org
    Codes, Words, \* codes of values; aliases
    Requests,     \* sessions of administrators
    MaxSaves      \* bound: changes begun

Scopes == {"platform", "org"}
Contexts == Holders \cup {Shared}

VARIABLES
    scope,    \* the type's scope
    version,  \* the type's version
    values,   \* lookup_value with its translations and aliases
    request,  \* each session: what it read and what it has committed so far
    client,   \* a client: its context, the list it holds and its ETag, and the version
              \* its list request has read
    saves,
    skewed,   \* history: the versions that named more than one content
    author    \* history: the context of the last step that committed a change

lookups == <<scope, version, values, request, client, saves, skewed, author>>

Waiting == [at |-> "idle", org |-> Shared, version |-> 0, id |-> 0]

\* A row's text stands for its labels, order, meta and default flag: 0 is a row that
\* has no translation yet.
Value(id, o, c, text) == [id |-> id, org |-> o, code |-> c, text |-> text, status |-> "active",
                          next |-> 0, parent |-> 0, aliases |-> {}]

\* A platform type may hold org rows from before scopes, and pointers into them.
Init ==
    /\ scope \in Scopes
    /\ version = 1
    /\ \E c \in Codes, o \in Holders, legacy \in BOOLEAN, next \in {0, 2} :
          values = IF legacy THEN {[Value(1, Shared, c, 1) EXCEPT !.next = next], Value(2, o, c, 1)}
                             ELSE {Value(1, Shared, c, 1)}
    /\ request = [p \in Requests |-> Waiting]
    /\ client \in [org : Contexts, version : {0}, shown : {{}}, reading : {0}]
    /\ saves = 0 /\ skewed = {} /\ author = Shared

-----------------------------------------------------------------------------
(* What a context sees.                                                     *)

\* Mutant: the template of an org type is served until the org has rows of its own.
ServeTemplate(rows, o) == {v \in rows : v.org \in {Shared, o}}
\* _org_scoped.
Visible(rows, o) ==
    IF scope = "org" THEN {v \in rows : v.org = o} ELSE {v \in rows : v.org \in {Shared, o}}

\* _prefer_org: an org's own row hides the platform's.
PreferOrg(rows) == {v \in rows : v.org = Shared => ~ \E w \in rows : w.code = v.code /\ w.org # Shared}

Serialized(v, rows) ==
    [code |-> v.code, text |-> v.text, status |-> v.status, aliases |-> v.aliases,
     parent |-> {w.code : w \in {u \in rows : u.id = v.parent}}]

\* list_values of every status.
list_values(rows, o) == {Serialized(v, Visible(rows, o)) : v \in PreferOrg(Visible(rows, o))}

\* _value_by_code.
ByCode(o, c) == {v \in PreferOrg(Visible(values, o)) : v.code = c}

\* get_value_read: one hop along superseded_by, within what the context sees.
get_value_read(o, c) ==
    {Serialized(w, Visible(values, o)) : w \in
        UNION {LET next == {u \in Visible(values, o) : u.id = v.next}
               IN  IF next # {} THEN next ELSE {v} : v \in ByCode(o, c)}}

\* label_maps and value_meta_map: the org's own rows are written over the platform's.
label_maps(rows, o) == {<<v.code, v.text>> : v \in PreferOrg(Visible(rows, o))}
\* resolve_codes.
resolve_codes(rows, o, wanted) == {<<v.code, v.text>> : v \in {w \in PreferOrg(Visible(rows, o)) : w.code \in wanted}}

-----------------------------------------------------------------------------
(* Requests.                                                                *)

\* _value_for_write: an org's own row of an org type, or without an org the platform's.
ForWrite(o, c) ==
    {v \in values : v.code = c /\ v.org = o /\ (o # Shared => scope = "org")}

Begin(p, o) ==
    /\ request[p].at = "idle" /\ saves < MaxSaves /\ saves' = saves + 1
    /\ request' = [request EXCEPT ![p] = [at |-> "begun", org |-> o, version |-> version, id |-> 0]]
    /\ UNCHANGED <<scope, version, values, client, skewed, author>>

\* Mutant: the version is not written.
LeaveVersion(p) == version
\* _touch_type: the version the session read, plus one.
Touched(p) == request[p].version + 1

\* The request's only commit: the rows S in place of those of the same ids.
Save(p, S) ==
    /\ request[p].at = "begun"
    /\ values' = {v \in values : \A w \in S : w.id # v.id} \cup S
    /\ version' = Touched(p)
    /\ skewed' = skewed \cup (request[p].version + 1 .. version)
    /\ request' = [request EXCEPT ![p] = Waiting]
    /\ author' = request[p].org
    /\ UNCHANGED <<scope, client, saves>>

update_value(p, c) ==
    \E v \in ForWrite(request[p].org, c) : v.text # 0 /\ Save(p, {[v EXCEPT !.text = saves + 1]})

\* The replacement is any value the context sees.
deprecate_value(p, c, by) ==
    \E v \in ForWrite(request[p].org, c) :
        \/ by = c /\ Save(p, {[v EXCEPT !.status = "deprecated"]})
        \/ \E w \in ByCode(request[p].org, by) :
               Save(p, {[v EXCEPT !.status = "deprecated", !.next = w.id]})

add_alias(p, c, word) ==
    \E v \in ForWrite(request[p].org, c) : word \notin v.aliases /\ Save(p, {[v EXCEPT !.aliases = @ \cup {word}]})
remove_alias(p, c, word) ==
    \E v \in ForWrite(request[p].org, c) : word \in v.aliases /\ Save(p, {[v EXCEPT !.aliases = @ \ {word}]})

\* Both sides are mutations; the old label becomes an alias of the target.
merge_values(p, c, into) ==
    \E v \in ForWrite(request[p].org, c), w \in ForWrite(request[p].org, into), word \in Words :
        /\ c # into
        /\ Save(p, {[v EXCEPT !.status = "deprecated", !.next = w.id], [w EXCEPT !.aliases = @ \cup {word}]})

\* create_value: the row is committed first, for the context, with a code that is free
\* for it; then the labels and the version, which is read again after the first commit.
create_value(p, c, parent) ==
    LET o == request[p].org
        id == Cardinality(values) + 1
        above == IF parent = c THEN 0 ELSE CHOOSE i \in {v.id : v \in ByCode(o, parent)} : TRUE
    IN  /\ request[p].at = "begun"
        /\ o # Shared => scope = "org"
        /\ ByCode(o, c) = {} /\ (parent # c => ByCode(o, parent) # {})
        /\ values' = values \cup {[Value(id, o, c, 0) EXCEPT !.parent = above]}
        /\ request' = [request EXCEPT ![p].at = "inserted", ![p].id = id]
        /\ skewed' = skewed \cup {version} /\ author' = o
        /\ UNCHANGED <<scope, version, client, saves>>
\* get_or_create_value: a value that is there is only returned.
get_or_create_value(p, c) == create_value(p, c, c)
CreateTouches(p) ==
    /\ request[p].at = "inserted"
    /\ request' = [request EXCEPT ![p].at = "labelled", ![p].version = version]
    /\ UNCHANGED <<scope, version, values, client, saves, skewed, author>>
CreateEnds(p) ==
    /\ request[p].at = "labelled"
    /\ values' = {IF v.id = request[p].id THEN [v EXCEPT !.text = saves + 1] ELSE v : v \in values}
    /\ version' = Touched(p)
    /\ request' = [request EXCEPT ![p] = Waiting]
    /\ skewed' = skewed \cup (request[p].version + 1 .. version)
    /\ author' = request[p].org
    /\ UNCHANGED <<scope, client, saves>>

\* Refused, nothing to do, or dead: what is not committed is gone.
Ends(p) ==
    /\ request[p].at # "idle"
    /\ request' = [request EXCEPT ![p] = Waiting]
    /\ UNCHANGED <<scope, version, values, client, saves, skewed, author>>

\* The client's GET with If-None-Match: the type first, the values after it.
ListBegins ==
    /\ client.reading = 0 /\ client.version # version
    /\ client' = [client EXCEPT !.reading = version]
    /\ UNCHANGED <<scope, version, values, request, saves, skewed, author>>
ListEnds ==
    /\ client.reading # 0
    /\ client' = [client EXCEPT !.version = client.reading, !.shown = list_values(values, client.org), !.reading = 0]
    /\ UNCHANGED <<scope, version, values, request, saves, skewed, author>>

Next ==
    \/ \E p \in Requests :
        \/ \E o \in Contexts : Begin(p, o)
        \/ \E c \in Codes : update_value(p, c) \/ get_or_create_value(p, c)
        \/ \E c \in Codes, d \in Codes : deprecate_value(p, c, d) \/ merge_values(p, c, d) \/ create_value(p, c, d)
        \/ \E c \in Codes, w \in Words : add_alias(p, c, w) \/ remove_alias(p, c, w)
        \/ CreateTouches(p) \/ CreateEnds(p) \/ Ends(p)
    \/ ListBegins \/ ListEnds

Spec == Init /\ [][Next]_lookups

-----------------------------------------------------------------------------
\* A 304 says what is so: the list a client holds under the current version is the
\* list, unless that version was written twice, by writers that overlapped, or a value was
\* committed under it ahead of its labels.
NotModifiedIsTrue ==
    client.version = version /\ version \notin skewed => client.shown = list_values(values, client.org)

\* One org's requests, and the platform's on an org type, change nothing that any
\* other org lists or resolves; on a platform type no org changes anything.
OthersStepUnseen ==
    values' # values =>
     /\ \A o \in Holders :
           (author' \in Holders \ {o} \/ (author' = Shared /\ scope = "org")) =>
               /\ list_values(values, o)' = list_values(values, o)
               /\ label_maps(values, o)' = label_maps(values, o)
               /\ resolve_codes(values, o, Codes)' = resolve_codes(values, o, Codes)
               /\ \A c \in Codes : get_value_read(o, c)' = get_value_read(o, c)
     /\ author' # Shared => scope = "org"
OthersSeeNothing == [][OthersStepUnseen]_lookups
=============================================================================
