--------------------------- MODULE MCNotifications ---------------------------
(***************************************************************************)
(* The components of asas-notifications that do not share state in their   *)
(* models (the inbox, the routing matrix, the migration chain, its         *)
(* placement) and the adoption check every package has, on small sets: a   *)
(* behavior is a behavior of one of them.                                  *)
(***************************************************************************)
EXTENDS Naturals, Sequences, FiniteSets, TLC

CONSTANTS
    Parts, \* the components of the run
    Users, Orgs, Keys, NoKey, NoOrg, Producers, Channels, MaxEmits, MaxMarks, p1,
    Tenants, Platform, Topics, Rungs, General, Low, High, Every, InApp, Email, TTL,
    MaxChanges, MaxTicks, Wild, MaxWrites, MaxCrashes, MaxUndos, Schemas, Default,
    Settings, Unset, MaxCalls, MaxLosses

Cell(t, i, c, on, must) ==
    [topic |-> t, importance |-> i, channel |-> c, enabled |-> on, mandatory |-> must]

\* Every shape of cell over one topic and one rung, on and off, and two that a user
\* may not switch off.
Written == {Cell(t, i, c, on, FALSE) : t \in {Every, General}, i \in {Every, Low},
                                       c \in {InApp, Email}, on \in BOOLEAN}
           \cup {Cell(General, Low, Email, TRUE, TRUE), Cell(Every, Low, InApp, TRUE, TRUE)}

VARIABLES
    part, \* the component of this behavior
    rows, deliveries, emits, pc, local, left, back, born, marks, by,
    config, past, caches, clock, changes, emit,
    db, tx, at, locks, release, ended, wedged, misfit, writes, crashes, undos,
    path, created, placed, walls, pending, call, outcome, calls,
    pkg, postgres, found, carried, second, stamp, adopted, adoption, losses

Bell == INSTANCE Inbox
Matrix == INSTANCE Routing
    WITH Replicas <- {p1}, Writable <- Written
Chain == INSTANCE NotificationsSchema
Place == INSTANCE Placement
Adopt == INSTANCE Adoption
    WITH at <- adopted, outcome <- adoption

inboxVars == <<rows, deliveries, emits, pc, local, left, back, born, marks, by>>
routingVars == <<config, past, caches, clock, changes, emit>>
schemaVars == <<db, tx, at, locks, release, ended, wedged, misfit, writes, crashes, undos>>
placementVars == <<path, created, placed, walls, pending, call, outcome, calls>>
adoptionVars == <<pkg, postgres, found, carried, second, stamp, adopted, adoption, losses>>
all == <<part, inboxVars, routingVars, schemaVars, placementVars, adoptionVars>>

\* The inbox: each emit has finitely many recipients.
UsersAreFinite == IsFiniteSet(Users)
ASSUME InboxAssumption == UsersAreFinite

\* Routing: time is counted in ticks, and no org is the platform or "every".
MatrixNames ==
    /\ TTL \in Nat /\ Platform \notin Tenants /\ Every \notin Tenants
    /\ Low # High /\ {Low, High} \subseteq Rungs
ASSUME MatrixAssumption == MatrixNames

\* Placement: what is unset names no schema.
PlaceNames == Unset \notin Place!Places
ASSUME PlacementAssumption == PlaceNames

\* Migrations: NULL is no org.
SchemaNames == NoOrg \notin Orgs
ASSUME SchemaAssumption == SchemaNames

\* A component that is not this behavior's has no state.
inboxOff == rows = "off" /\ deliveries = "off" /\ emits = "off" /\ pc = "off" /\ local = "off" /\
    left = "off" /\ back = "off" /\ born = "off" /\ marks = "off" /\ by = "off"
routingOff == config = "off" /\ past = "off" /\ caches = "off" /\ clock = "off" /\ changes = "off"
    /\ emit = "off"
schemaOff == db = "off" /\ tx = "off" /\ at = "off" /\ locks = "off" /\ release = "off" /\ ended = "off"
    /\ wedged = "off" /\ misfit = "off" /\ writes = "off" /\ crashes = "off" /\ undos = "off"
placementOff == path = "off" /\ created = "off" /\ placed = "off" /\ walls = "off" /\ pending = "off"
    /\ call = "off" /\ outcome = "off" /\ calls = "off"
adoptionOff == pkg = "off" /\ postgres = "off" /\ found = "off" /\ carried = "off" /\ second = "off"
    /\ stamp = "off" /\ adopted = "off" /\ adoption = "off" /\ losses = "off"

Init ==
    \/ /\ part = "inbox" /\ part \in Parts /\ Bell!Init
       /\ routingOff /\ schemaOff /\ placementOff /\ adoptionOff
    \/ /\ part = "routing" /\ part \in Parts /\ Matrix!Init
       /\ inboxOff /\ schemaOff /\ placementOff /\ adoptionOff
    \/ /\ part = "schema" /\ part \in Parts /\ Chain!Init
       /\ inboxOff /\ routingOff /\ placementOff /\ adoptionOff
    \/ /\ part = "placement" /\ part \in Parts /\ Place!Init
       /\ inboxOff /\ routingOff /\ schemaOff /\ adoptionOff
    \/ /\ part = "adoption" /\ part \in Parts /\ Adopt!Init
       /\ inboxOff /\ routingOff /\ schemaOff /\ placementOff

Next ==
    \/ /\ part = "inbox" /\ Bell!Next
       /\ UNCHANGED <<part, routingVars, schemaVars, placementVars, adoptionVars>>
    \/ /\ part = "routing" /\ Matrix!Next
       /\ UNCHANGED <<part, inboxVars, schemaVars, placementVars, adoptionVars>>
    \/ /\ part = "schema" /\ Chain!Next
       /\ UNCHANGED <<part, inboxVars, routingVars, placementVars, adoptionVars>>
    \/ /\ part = "placement" /\ Place!Next
       /\ UNCHANGED <<part, inboxVars, routingVars, schemaVars, adoptionVars>>
    \/ /\ part = "adoption" /\ Adopt!Next
       /\ UNCHANGED <<part, inboxVars, routingVars, schemaVars, placementVars>>

Spec == Init /\ [][Next]_all

Symmetry == Permutations(Users) \cup Permutations(Orgs) \cup Permutations(Producers)

-----------------------------------------------------------------------------
(* The properties of the components, explained in their modules.             *)

\* Two live bell entries about the same thing exist only when the emits or an unarchive
\* crossed.
TwinsCrossed == part = "inbox" => Bell!TwinsCrossed

\* An emit reaches each recipient in one row, and a row changes only by its own emits
\* and its own recipient.
EmitsReachTheirOwn == [][part = "inbox" => Bell!EmitIsWhole /\ Bell!RewriteStaysHome]_all

\* An emit is routed by a configuration of the last TTL, whatever the process has
\* cached, up to the order of a topic's and an importance's cells.
EmitsByRecentConfig == part = "routing" => Matrix!EmitsByRecentConfig

\* What the documents say of that order, and the code does not do.
TopicBeatsImportance == part = "routing" => Matrix!TopicBeatsImportance

\* A boot that ends has brought the schema to its release's head, whatever earlier
\* boots left.
BootsReachHead == part = "schema" => Chain!BootsReachHead

\* A migration never widens a routing rule or invents one, and keeps what is emailed by
\* default.
MigrationsKeepMeaning == [][part = "schema" => Chain!KeepsMeaning]_all

\* A migrate() that ends left the tables and policies where it was asked to and the
\* connection as it found it.
PlacedWhereAsked == part = "placement" => Place!PlacedWhereAsked

\* A schema found without a version table is adopted exactly if it is whole.
AdoptsExactlyTheWhole == part = "adoption" => Adopt!AdoptsExactlyTheWhole

=============================================================================
