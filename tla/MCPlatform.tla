----------------------------- MODULE MCPlatform -----------------------------
(***************************************************************************)
(* The components around stored configuration and remote data (lookups     *)
(* and their seeders, clearances, grants, the search index, the Oracle     *)
(* client and its names, process definitions and their graphs, tenant      *)
(* isolation), on small sets: a behavior is a behavior of one of them.     *)
(***************************************************************************)
EXTENDS Naturals, Sequences, FiniteSets, TLC

CONSTANTS
    Parts, \* the components of the run
    Holders, Shared, Codes, Words, Requests, MaxSaves,
    SeedCodes, Tenants, SeedFiles, Pods, MaxBegun,
    Owners, NoOwner, Ladder, Ranks, Unlevelled, Compartments, MaxEdits,
    People, RoleOf, HomeOf, Related, Orgs, Everywhere, Fields, Companions, Verbs, RecordVerbs,
    Admin, Member, Lead, GroupKeys, Reserved, Viewers, ViewPrivate, MaxAdmin,
    Sources, Texts, OrgOf, Models, Blank, Absent, MaxWrites, MaxBuilds,
    Gets, Puts, MaxTokens, MaxRestarts, Titles, Flags, MaxRenames,
    Keys, Specs, Kind, Subjects, Unbound, MaxRows, MaxBinds,
    Start, End, Inner, MaxOut, MaxTotal, Unset, Empty, MaxChains

-----------------------------------------------------------------------------
(* What the components take for granted of their constants.                  *)

\* Lookups: what is for everybody is no org's.
SharedIsNobodys == Shared \notin Holders
ASSUME LookupsAssumption == SharedIsNobodys

\* Seeding: the values of a file are a list.
SeedsAreLists == \A f \in SeedFiles : f.values \in Seq({f.values[k] : k \in DOMAIN f.values})
ASSUME SeedingAssumption == SeedsAreLists

\* Clearances: nobody's org is no org's, and ranks are numbers.
ClearanceNames == NoOwner \notin Owners /\ Ranks \subseteq Nat
ASSUME ClearanceAssumption == ClearanceNames

\* Grants: the words of the history are no orgs, nor is the platform one.
GrantNames == Orgs \cap {Everywhere, "nothing", "join", "leave"} = {} /\ Everywhere \notin {"join", "leave"}
ASSUME GrantsAssumption == GrantNames

\* The Oracle client: a coroutine reads or it writes.
ReadersApart == Gets \cap Puts = {}
ASSUME ReadsAssumption == ReadersApart

\* Definitions: a spec has a key, a purpose that is a key, and a subject type.
Entities == {sp.entity : sp \in Specs}
Released == [key : Keys, purpose : Keys, entity : Entities]
SpecsAreWhole == Specs \subseteq Released
ASSUME SpecsAssumption == SpecsAreWhole

\* Graphs: finitely many nodes, the end and the start being none of those between.
NodesAreApart == IsFiniteSet(Inner) /\ End \notin Inner /\ Start \notin Inner /\ Start # End
ASSUME GraphsAssumption == NodesAreApart

\* Isolation: no tenant is nobody, and none is called what an unset or an emptied
\* setting reads.
TenantNames == Shared \notin Holders /\ Unset \notin Holders \cup {Shared} /\ Empty \notin Holders \cup {Shared}
ASSUME TenantsAssumption == TenantNames

-----------------------------------------------------------------------------
(* Values of the configuration: no definition below names them.              *)

E(c, l, m, p, n) == [code |-> c, langs |-> l, meta |-> m, parent |-> p, next |-> n]
F(o, s, h, vs) == [open |-> o, scope |-> s, hierarchical |-> h, values |-> vs]

\* Seed files of releases: two that load as they should, and four with a fault each.
Files == {
    F(TRUE, "org", TRUE, <<E("a", <<"en">>, FALSE, "b", ""), E("b", <<"en", "ar">>, TRUE, "", "")>>),
    F(FALSE, "", TRUE, <<E("a", <<"en">>, TRUE, "", ""), E("b", <<"en">>, FALSE, "a", "a")>>),
    F(FALSE, "platform", FALSE, <<E("b", <<"en">>, FALSE, "", "")>>),
    F(FALSE, "", FALSE, <<E("a", <<>>, FALSE, "", "")>>),
    F(FALSE, "", FALSE, <<E("a", <<"en", "en">>, FALSE, "", "a")>>),
    F(TRUE, "", FALSE, <<E("a", <<"en">>, FALSE, "b", ""), E("a", <<"en">>, FALSE, "", "")>>) }

Role == [u \in People |-> IF u = "root" THEN "admin" ELSE "member"]
Home == [u \in People |-> IF u = "bob" THEN "o2" ELSE "o1"]
Nulled == [f \in Fields |-> {}]

\* One text in one org, the rest in another.
Tenancy == [c \in Texts |-> IF c = CHOOSE d \in Texts : TRUE THEN "o1" ELSE "o2"]

S(k, p, e) == [key |-> k, purpose |-> p, entity |-> e]
Releases == {S("change", "change", "project"), S("change", "change", "team"),
             S("strict", "change", "project"), S("strict", "strict", "project")}
Projects == [s \in Subjects |-> "project"]

\* Replicas are alike, and so are the orgs of the seeders and of the clearances, the codes
\* of the levels and the coroutines that read.
ConfigSymmetry == Permutations(Pods) \cup Permutations(Tenants) \cup Permutations(Owners)
    \cup Permutations(Ladder)
DataSymmetry == Permutations(Pods) \cup Permutations(Gets)

-----------------------------------------------------------------------------
VARIABLES
    part, \* the component of this behavior
    scope, version, values, request, client, saves, skewed, author,
    orm, listed, seeded, boot, copying, amend, reader, begun, unsure,
    catalog, stamps, record, subject, source, levelCache, stampCache, edits, macStep,
    fieldRows, actionRows, groups, policyCache, filling, owes, changed, tries, crossed,
    text, docs, lastId, rebuilt, blocked, model, sweep, asking, remembered, adrift,
    writes, builds,
    resource, landed, moved, restarts, cached, call, token, fetched, valid, holder, known,
    floor,
    entity, upstream, stored, newest, copied, memo, task, renames,
    defs, binding, publishing, opened, binds,
    type, outs, phase, position,
    role, owner, table, held, level, context, engine, conn, migration, vowed, chains

Values == INSTANCE LookupValues
Seeds == INSTANCE LookupSeeding WITH Replicas <- Pods
Mac == INSTANCE Clearance
Grants == INSTANCE Permissions WITH OrgOf <- HomeOf
Search == INSTANCE SearchIndex WITH Replicas <- Pods
Client == INSTANCE OracleReads WITH record <- resource
Names == INSTANCE OracleNames WITH edits <- renames, MaxEdits <- MaxRenames
Processes == INSTANCE ProcessDefinitions WITH seeding <- publishing, Seeders <- Pods
Graph == INSTANCE ProcessGraphs
Isolation == INSTANCE TenantIsolation WITH rows <- held, Clients <- Holders, Nobody <- Shared

lookupsVars == <<scope, version, values, request, client, saves, skewed, author>>
seedingVars == <<orm, listed, seeded, boot, copying, amend, reader, begun, unsure>>
clearanceVars == <<catalog, stamps, record, subject, source, levelCache, stampCache, edits,
    macStep>>
permissionsVars == <<fieldRows, actionRows, groups, policyCache, filling, owes, changed, tries,
    crossed>>
indexVars == <<text, docs, lastId, rebuilt, blocked, model, sweep, asking, remembered,
    adrift, writes, builds>>
readsVars == <<resource, landed, moved, restarts, cached, call, token, fetched, valid, holder,
    known, floor>>
namesVars == <<entity, upstream, stored, newest, copied, memo, task, renames>>
definitionsVars == <<defs, binding, publishing, opened, binds>>
graphsVars == <<type, outs, phase, position>>
tenancyVars == <<role, owner, table, held, level, context, engine, conn, migration, vowed,
    chains>>
all == <<part, lookupsVars, seedingVars, clearanceVars, permissionsVars, indexVars, readsVars, namesVars, definitionsVars, graphsVars, tenancyVars>>

\* A component that is not this behavior's has no state.
lookupsOff == scope = "off" /\ version = "off" /\ values = "off" /\ request = "off" /\ client =
    "off" /\ saves = "off" /\ skewed = "off" /\ author = "off"
seedingOff == orm = "off" /\ listed = "off" /\ seeded = "off" /\ boot = "off" /\ copying = "off" /\
    amend = "off" /\ reader = "off" /\ begun = "off" /\ unsure = "off"
clearanceOff == catalog = "off" /\ stamps = "off" /\ record = "off" /\ subject = "off" /\ source =
    "off" /\ levelCache = "off" /\ stampCache = "off" /\ edits = "off" /\ macStep =
    "off"
permissionsOff == fieldRows = "off" /\ actionRows = "off" /\ groups = "off" /\ policyCache = "off" /\
    filling = "off" /\ owes = "off" /\ changed = "off" /\ tries = "off" /\ crossed =
    "off"
indexOff == text = "off" /\ docs = "off" /\ lastId = "off" /\ rebuilt = "off" /\ blocked = "off"
    /\ model = "off" /\ sweep = "off" /\ asking = "off" /\ remembered = "off" /\
    adrift = "off" /\ writes = "off" /\ builds = "off"
readsOff == resource = "off" /\ landed = "off" /\ moved = "off" /\ restarts = "off" /\
    cached = "off" /\ call = "off" /\ token = "off" /\ fetched = "off" /\ valid = "off" /\
    holder = "off" /\ known = "off" /\ floor = "off"
namesOff == entity = "off" /\ upstream = "off" /\ stored = "off" /\ newest = "off" /\ copied =
    "off" /\ memo = "off" /\ task = "off" /\ renames = "off"
definitionsOff == defs = "off" /\ binding = "off" /\ publishing = "off" /\ opened = "off" /\ binds =
    "off"
graphsOff == type = "off" /\ outs = "off" /\ phase = "off" /\ position = "off"
tenancyOff == role = "off" /\ owner = "off" /\ table = "off" /\ held = "off" /\ level = "off" /\
    context = "off" /\ engine = "off" /\ conn = "off" /\ migration = "off" /\ vowed =
    "off" /\ chains = "off"

Init ==
    \/ /\ part = "lookups" /\ part \in Parts /\ Values!Init
       /\ seedingOff /\ clearanceOff /\ permissionsOff /\ indexOff /\ readsOff /\ namesOff
          /\ definitionsOff /\ graphsOff /\ tenancyOff
    \/ /\ part = "seeding" /\ part \in Parts /\ Seeds!Init
       /\ lookupsOff /\ clearanceOff /\ permissionsOff /\ indexOff /\ readsOff /\ namesOff
          /\ definitionsOff /\ graphsOff /\ tenancyOff
    \/ /\ part = "clearance" /\ part \in Parts /\ Mac!Init
       /\ lookupsOff /\ seedingOff /\ permissionsOff /\ indexOff /\ readsOff /\ namesOff
          /\ definitionsOff /\ graphsOff /\ tenancyOff
    \/ /\ part = "permissions" /\ part \in Parts /\ Grants!Init
       /\ lookupsOff /\ seedingOff /\ clearanceOff /\ indexOff /\ readsOff /\ namesOff /\
          definitionsOff /\ graphsOff /\ tenancyOff
    \/ /\ part = "index" /\ part \in Parts /\ Search!Init
       /\ lookupsOff /\ seedingOff /\ clearanceOff /\ permissionsOff /\ readsOff /\
          namesOff /\ definitionsOff /\ graphsOff /\ tenancyOff
    \/ /\ part = "reads" /\ part \in Parts /\ Client!Init
       /\ lookupsOff /\ seedingOff /\ clearanceOff /\ permissionsOff /\ indexOff /\
          namesOff /\ definitionsOff /\ graphsOff /\ tenancyOff
    \/ /\ part = "names" /\ part \in Parts /\ Names!Init
       /\ lookupsOff /\ seedingOff /\ clearanceOff /\ permissionsOff /\ indexOff /\
          readsOff /\ definitionsOff /\ graphsOff /\ tenancyOff
    \/ /\ part = "definitions" /\ part \in Parts /\ Processes!Init
       /\ lookupsOff /\ seedingOff /\ clearanceOff /\ permissionsOff /\ indexOff /\
          readsOff /\ namesOff /\ graphsOff /\ tenancyOff
    \/ /\ part = "graphs" /\ part \in Parts /\ Graph!Init
       /\ lookupsOff /\ seedingOff /\ clearanceOff /\ permissionsOff /\ indexOff /\
          readsOff /\ namesOff /\ definitionsOff /\ tenancyOff
    \/ /\ part = "tenancy" /\ part \in Parts /\ Isolation!Init
       /\ lookupsOff /\ seedingOff /\ clearanceOff /\ permissionsOff /\ indexOff /\
          readsOff /\ namesOff /\ definitionsOff /\ graphsOff

Next ==
    \/ /\ part = "lookups" /\ Values!Next
       /\ UNCHANGED <<part, seedingVars, clearanceVars, permissionsVars, indexVars,
          readsVars, namesVars, definitionsVars, graphsVars,
          tenancyVars>>
    \/ /\ part = "seeding" /\ Seeds!Next
       /\ UNCHANGED <<part, lookupsVars, clearanceVars, permissionsVars, indexVars,
          readsVars, namesVars, definitionsVars, graphsVars,
          tenancyVars>>
    \/ /\ part = "clearance" /\ Mac!Next
       /\ UNCHANGED <<part, lookupsVars, seedingVars, permissionsVars, indexVars, readsVars,
          namesVars, definitionsVars, graphsVars, tenancyVars>>
    \/ /\ part = "permissions" /\ Grants!Next
       /\ UNCHANGED <<part, lookupsVars, seedingVars, clearanceVars, indexVars, readsVars,
          namesVars, definitionsVars, graphsVars, tenancyVars>>
    \/ /\ part = "index" /\ Search!Next
       /\ UNCHANGED <<part, lookupsVars, seedingVars, clearanceVars, permissionsVars,
          readsVars, namesVars, definitionsVars, graphsVars,
          tenancyVars>>
    \/ /\ part = "reads" /\ Client!Next
       /\ UNCHANGED <<part, lookupsVars, seedingVars, clearanceVars, permissionsVars,
          indexVars, namesVars, definitionsVars, graphsVars,
          tenancyVars>>
    \/ /\ part = "names" /\ Names!Next
       /\ UNCHANGED <<part, lookupsVars, seedingVars, clearanceVars, permissionsVars,
          indexVars, readsVars, definitionsVars, graphsVars,
          tenancyVars>>
    \/ /\ part = "definitions" /\ Processes!Next
       /\ UNCHANGED <<part, lookupsVars, seedingVars, clearanceVars, permissionsVars,
          indexVars, readsVars, namesVars, graphsVars, tenancyVars>>
    \/ /\ part = "graphs" /\ Graph!Next
       /\ UNCHANGED <<part, lookupsVars, seedingVars, clearanceVars, permissionsVars,
          indexVars, readsVars, namesVars, definitionsVars,
          tenancyVars>>
    \/ /\ part = "tenancy" /\ Isolation!Next
       /\ UNCHANGED <<part, lookupsVars, seedingVars, clearanceVars, permissionsVars,
          indexVars, readsVars, namesVars, definitionsVars, graphsVars>>

Spec == Init /\ [][Next]_all

-----------------------------------------------------------------------------
(* The properties of the components, explained in their modules.             *)

\* A 304 is true of the list the client holds, unless two writers overlapped.
NotModifiedIsTrue == part = "lookups" => Values!NotModifiedIsTrue

\* An org's write changes nothing another org sees; a shared write nothing an org
\* replaced.
OthersSeeNothing == [][part = "lookups" => Values!OthersStepUnseen]_all

\* A finished boot leaves every value of its file in place, revalidation finds what
\* changed, and pointers stay in their org.
BootsLeaveItWhole == part = "seeding" => Seeds!BootsLeaveItWhole

\* No administrator's or user's step but those named opens a record to somebody the
\* rules kept out.
RestrictsOnly == [][part = "clearance" => Mac!StepRestricts]_all

\* An org's edits change no answer of another org's users.
EditsStayInTheirOrg == [][part = "permissions" => Grants!EditStaysInItsOrg]_all

\* A reserved principal is held by role or relationship only, and a failing source
\* grants nothing.
RightsAreEarned == part = "permissions" => Grants!RightsAreEarned

\* A document's vector is of its own text, and its text is its source's.
IndexMatchesItsSources == part = "index" => Search!IndexMatchesItsSources

\* A write lands once and is seen by every read begun after it returned, but for what
\* the version's expiry brings back.
WritesAreSeen == part = "reads" => Client!WritesAreSeen

\* What is saved as fresh is what Oracle said after the ask began.
RefreshedFromOracle == [][part = "names" => Names!StepRefreshes]_all

\* An instance opens on the newest version of a definition that serves its purpose.
OpensOnTheNewestVariant == [][part = "definitions" => Processes!OpensOnTheNewest]_all

\* A walk of an accepted graph errs only at an uncovered approval and is never trapped.
AcceptedGraphsFinish == part = "graphs" => Graph!AcceptedGraphsFinish

\* Where a table was protected tenants stay apart, and no sweep, data migration or
\* check is fooled by the policy.
TenantsStayApart == part = "tenancy" => Isolation!TenantsStayApart

=============================================================================
