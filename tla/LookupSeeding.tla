---------------------------- MODULE LookupSeeding ----------------------------
(***************************************************************************)
(* The seeding of one lookup type at boot.  A file is checked whole, then  *)
(* written: the SQL seeder commits the type, every value, every backfill,  *)
(* the links and the version one by one; the ORM seeder, on SQLite, writes *)
(* type and values in one commit, then the links, then the version.        *)
(* Replicas boot side by side and die between two commits, releases bring  *)
(* new files, administrators edit what was seeded, orgs copy the template: *)
(* each of these loads the version when it begins and writes, at its       *)
(* commit and without a lock, the next one after that.                     *)
(***************************************************************************)
EXTENDS Naturals, Sequences, FiniteSets

CONSTANTS
    SeedCodes,   \* codes of values; Null is no code
    Tenants,     \* orgs that copy the template
    Replicas,    \* processes that seed when they start
    SeedFiles,   \* the files of the releases, as written: see Loads
    MaxBegun     \* bound: boots, requests of administrators, seedings of orgs

VARIABLES
    orm,      \* which of the two seeders the deployment runs
    listed,   \* the lookup_type row: its scope (Null when there is no row) and version
    seeded,   \* its lookup_value rows
    boot,     \* each process: where it stands, its file, the value it is at, whether it
              \* changed anything, the values it healed, and the version its session has
              \* loaded (0 when a commit expired it)
    copying,  \* each org's seeding, or none: the version it has loaded, the template rows to copy
    amend,    \* an administrator's request, or none: the version it has loaded, the row it
              \* writes, and the row that replaces that (0: it writes labels and meta)
    reader,   \* a client: the version of the list it holds, and the list
    begun,    \* boots, requests and seedings so far
    unsure    \* history: versions that stood for more than one list

\* NULL in a column, or a key that a file leaves out.
Null == ""

seeding == <<orm, listed, seeded, boot, copying, amend, reader, begun, unsure>>

At(step, file, i, changed, healed, loaded) ==
    [at |-> step, file |-> file, i |-> i, changed |-> changed, healed |-> healed, loaded |-> loaded]
Off == At("off", 0, 1, FALSE, {}, 0)

Copying(at, version, rows) == [at |-> at, version |-> version, rows |-> rows]
NoCopy == Copying("off", 0, {})
Amending(at, version, id, next) == [at |-> at, version |-> version, id |-> id, next |-> next]
NoAmend == Amending("off", 0, 0, 0)

Init ==
    /\ orm \in BOOLEAN
    /\ listed = [scope |-> Null, version |-> 0] /\ seeded = {}
    /\ boot = [b \in Replicas |-> Off]
    /\ copying = [o \in Tenants |-> NoCopy] /\ amend = NoAmend
    /\ reader = [version |-> 0, shown |-> {}]
    /\ begun = 0 /\ unsure = {}

-----------------------------------------------------------------------------
(* The file.                                                                *)

CodesOf(f) == {f.values[k].code : k \in DOMAIN f.values}

\* _parse_value: at least one translation, no language twice.
ValueParses(v) == v.langs # << >> /\ Cardinality({v.langs[k] : k \in DOMAIN v.langs}) = Len(v.langs)

\* The pointers of a value, once every code is known.
PointersParse(f, v) ==
    /\ {v.parent, v.next} \subseteq CodesOf(f) \cup {Null}
    /\ v.code \notin {v.parent, v.next}
    /\ v.parent # Null => f.hierarchical

\* load and _parse_type.
Loads(f) ==
    /\ f.open => f.scope = "org"
    /\ Cardinality(CodesOf(f)) = Len(f.values)
    /\ \A k \in DOMAIN f.values : ValueParses(f.values[k]) /\ PointersParse(f, f.values[k])

-----------------------------------------------------------------------------
(* Steps of a boot.  Each is one commit with the reads before it.           *)

\* The translations as they stand for the label: of the file, if it has any.
LabelOf(v) == IF v.langs = << >> THEN "none" ELSE "file"
Platform(c) == {r \in seeded : r.org = Null /\ r.code = c}
Row(id, o, c, label, meta) ==
    [id |-> id, org |-> o, code |-> c, label |-> label, meta |-> meta, parent |-> 0, next |-> 0]
NewRow(id, v) == Row(id, Null, v.code, LabelOf(v), IF v.meta THEN "file" ELSE "none")
Replaced(r, s) == (seeded \ {r}) \cup {s}
Fresh(n) == Cardinality(seeded) + n

\* The version attribute, read again when a commit has expired it.
Version(b) == IF boot[b].loaded = 0 THEN listed.version ELSE boot[b].loaded

\* A step that committed expires the attribute; another leaves it loaded.
Moved(b, at, i, committed, healed) ==
    boot' = [boot EXCEPT ![b] = At(at, @.file, i, @.changed \/ committed, @.healed \cup healed,
                                    IF committed THEN 0 ELSE Version(b))]

\* seed_lookups, seed_file, OrmSeeder.seed: a file that does not load changes nothing.
BootBegins(b, f) ==
    /\ boot[b].at = "off" /\ begun < MaxBegun /\ Loads(f)
    /\ begun' = begun + 1
    /\ boot' = [boot EXCEPT ![b] = At("type", f, 1, FALSE, {}, 0)]
    /\ UNCHANGED <<orm, listed, seeded, copying, amend, reader, unsure>>

Declared(f) == IF f.scope = Null THEN "platform" ELSE f.scope
NewType(f) == [scope |-> Declared(f), version |-> 1]

\* ensure_type: an existing type is returned as it is, unless the file declares another
\* scope, which raises before anything is written.
ensure_type(b) ==
    /\ boot[b].at = "type" /\ ~orm
    /\ IF listed.scope = Null
       THEN /\ listed' = NewType(boot[b].file)
            /\ boot' = [boot EXCEPT ![b] = At("values", @.file, @.i, @.changed, @.healed, 1)]
       ELSE /\ UNCHANGED listed
            /\ boot' = [boot EXCEPT ![b] =
                   IF boot[b].file.scope \in {Null, listed.scope}
                   THEN At("values", @.file, @.i, @.changed, @.healed, listed.version) ELSE Off]
    /\ UNCHANGED <<orm, seeded, copying, amend, reader, begun, unsure>>

Entry(b) == boot[b].file.values[boot[b].i]
Seeds(b) == boot[b].at = "values" /\ boot[b].i <= Len(boot[b].file.values)

\* ensure_value with a row to insert: value, translations and aliases in one commit.
InsertValue(b) ==
    /\ Seeds(b) /\ Platform(Entry(b).code) = {}
    /\ seeded' = seeded \cup {NewRow(Fresh(1), Entry(b))}
    /\ Moved(b, "values", boot[b].i + 1, TRUE, {})
    /\ UNCHANGED <<orm, listed, copying, amend, reader, begun, unsure>>

\* ensure_value with a row that has no label: labels and aliases, no meta.
HealValue(b) ==
    /\ Seeds(b)
    /\ \E r \in Platform(Entry(b).code) :
        /\ r.label = "none"
        /\ seeded' = Replaced(r, [r EXCEPT !.label = LabelOf(Entry(b))])
    /\ Moved(b, "values", boot[b].i + 1, TRUE, {Entry(b).code})
    /\ UNCHANGED <<orm, listed, copying, amend, reader, begun, unsure>>

\* _backfill_meta of a labelled row: keys it lacks, never those it has.
TopUp(r, v) == IF v.meta /\ r.meta = "none" THEN [r EXCEPT !.meta = "file"] ELSE r
KeepValue(b) ==
    /\ Seeds(b)
    /\ \E r \in Platform(Entry(b).code) :
        /\ r.label # "none"
        /\ seeded' = Replaced(r, TopUp(r, Entry(b)))
        /\ Moved(b, "values", boot[b].i + 1, TopUp(r, Entry(b)) # r, {})
    /\ UNCHANGED <<orm, listed, copying, amend, reader, begun, unsure>>

ValuesEnd(b) ==
    /\ boot[b].at = "values" /\ boot[b].i > Len(boot[b].file.values)
    /\ boot' = [boot EXCEPT ![b] = At("links", @.file, @.i, @.changed, @.healed, @.loaded)]
    /\ UNCHANGED <<orm, listed, seeded, copying, amend, reader, begun, unsure>>

\* OrmSeeder._seed_type up to its first commit: the type, whatever its scope, and the
\* values whose code has no platform row, healed and topped up never.
seed_type(b) ==
    /\ boot[b].at = "type" /\ orm
    /\ LET f == boot[b].file
           new == {k \in DOMAIN f.values : Platform(f.values[k].code) = {}}
           nth(k) == Cardinality({j \in new : j <= k})
       IN  /\ listed' = IF listed.scope = Null THEN NewType(f) ELSE listed
           /\ seeded' = seeded \cup {NewRow(Fresh(nth(k)), f.values[k]) : k \in new}
           /\ boot' = [boot EXCEPT ![b] = At("links", f, @.i, new # {}, @.healed, listed'.version)]
    /\ UNCHANGED <<orm, copying, amend, reader, begun, unsure>>

\* The row of a platform code, 0 for no code.
IdOf(c) == IF c = Null THEN 0 ELSE CHOOSE id \in {r.id : r \in Platform(c)} : TRUE

Pointed(r, v) == [r EXCEPT !.parent = IF @ = 0 THEN IdOf(v.parent) ELSE @,
                           !.next = IF @ = 0 THEN IdOf(v.next) ELSE @]
EntryOf(f, c) == {k \in DOMAIN f.values : f.values[k].code = c}
\* Mutant: a value that has one pointer is passed over.
LinkedOnce(r, f) ==
    IF r.org # Null \/ EntryOf(f, r.code) = {} \/ {r.parent, r.next} # {0} THEN r
    ELSE Pointed(r, f.values[CHOOSE k \in EntryOf(f, r.code) : TRUE])
\* A pointer is filled while it is NULL.
Linked(r, f) ==
    IF r.org # Null \/ EntryOf(f, r.code) = {} THEN r
    ELSE Pointed(r, f.values[CHOOSE k \in EntryOf(f, r.code) : TRUE])

\* _link_pass and _link_pointers: one commit for all.
LinkPass(b) ==
    /\ boot[b].at = "links"
    /\ seeded' = {Linked(r, boot[b].file) : r \in seeded}
    /\ Moved(b, "bump", boot[b].i, seeded' # seeded, {})
    /\ UNCHANGED <<orm, listed, copying, amend, reader, begun, unsure>>

\* A commit of one version more than the one loaded: versions from there on that other
\* writers have given meanwhile will have stood for two lists.
Writes(loaded) ==
    /\ listed' = [listed EXCEPT !.version = loaded + 1]
    /\ unsure' = unsure \cup (loaded + 1 .. listed.version)

\* bump_version_if, and the end of OrmSeeder._seed_type.
Bumps(b) == boot[b].changed
bump_version_if(b) ==
    /\ boot[b].at = "bump"
    /\ IF Bumps(b) THEN Writes(Version(b)) ELSE UNCHANGED <<listed, unsure>>
    /\ boot' = [boot EXCEPT ![b] = Off]
    /\ UNCHANGED <<orm, seeded, copying, amend, reader, begun>>

\* Killed, or refused by the unique index of a code another replica has inserted.
BootDies(b) ==
    /\ boot[b].at # "off"
    /\ boot' = [boot EXCEPT ![b] = Off]
    /\ unsure' = IF boot[b].changed THEN unsure \cup {listed.version} ELSE unsure
    /\ UNCHANGED <<orm, listed, seeded, copying, amend, reader, begun>>

-----------------------------------------------------------------------------
(* Orgs and administrators.                                                 *)

Namesakes(own, id) ==
    {r.id : r \in {u \in own : \E t \in seeded : t.org = Null /\ t.id = id /\ t.code = u.code}}
\* The org's row for a template row: the copy just made, or the row it already had.
OwnRow(own, id) ==
    LET ids == Namesakes(own, id) IN IF ids = {} THEN 0 ELSE CHOOSE i \in ids : TRUE

\* seed_org_lookups reads: the type, and the template rows whose code the org lacks.
SeedingReads(o) ==
    LET mine == {r \in seeded : r.org = o}
        missing == {t \in seeded : t.org = Null /\ ~ \E r \in mine : r.code = t.code}
    IN  /\ copying[o].at = "off" /\ listed.scope = "org" /\ missing # {}
        /\ begun < MaxBegun /\ begun' = begun + 1
        /\ copying' = [copying EXCEPT ![o] = Copying("open", listed.version, missing)]
        /\ UNCHANGED <<orm, listed, seeded, boot, amend, reader, unsure>>

\* seed_org_lookups commits: the copies, with pointers among the org's own rows, and the
\* version.  The unique index refuses a code that the org has got meanwhile.
seed_org_lookups(o) ==
    LET missing == copying[o].rows
        mine == {r \in seeded : r.org = o}
        copy(t) == Row(Fresh(Cardinality({u \in missing : u.id <= t.id})), o, t.code, t.label, t.meta)
        own == mine \cup {copy(t) : t \in missing}
        pointed(t) == [copy(t) EXCEPT !.parent = OwnRow(own, t.parent), !.next = OwnRow(own, t.next)]
    IN  /\ copying[o].at = "open" /\ ~ \E r \in mine, t \in missing : r.code = t.code
        /\ seeded' = seeded \cup {pointed(t) : t \in missing}
        /\ Writes(copying[o].version)
        /\ copying' = [copying EXCEPT ![o] = NoCopy]
        /\ UNCHANGED <<orm, boot, amend, reader, begun>>
\* Refused by that index, or killed: nothing is written.
SeedingFails(o) ==
    /\ copying[o].at = "open" /\ copying' = [copying EXCEPT ![o] = NoCopy]
    /\ UNCHANGED <<orm, listed, seeded, boot, amend, reader, begun, unsure>>

\* The requests of service.py that write: of labels and meta, and of a replacement among
\* the owner's rows.  The type is loaded when the request begins.
RequestReads ==
    /\ amend.at = "off" /\ listed.scope # Null /\ begun < MaxBegun
    /\ begun' = begun + 1
    /\ \E r \in seeded : \E next \in {0} \cup {w.id : w \in {u \in seeded : u.org = r.org /\ u # r}} :
          amend' = Amending("open", listed.version, r.id, next)
    /\ UNCHANGED <<orm, listed, seeded, boot, copying, reader, unsure>>
RequestCommits(r, s) ==
    /\ amend.at = "open" /\ r.id = amend.id
    /\ seeded' = Replaced(r, s) /\ Writes(amend.version) /\ amend' = NoAmend
    /\ UNCHANGED <<orm, boot, copying, reader, begun>>
Edit == \E r \in seeded : amend.next = 0 /\ RequestCommits(r, [r EXCEPT !.label = "admin", !.meta = "admin"])
Supersede ==
    \E r \in seeded : \E w \in {u \in seeded : u.org = r.org} :
        amend.next = w.id /\ RequestCommits(r, [r EXCEPT !.next = w.id])

\* A row committed by a create_value that died before its labels and its version.
CreateDies ==
    \E c \in SeedCodes, o \in {Null} \cup (IF listed.scope = "org" THEN Tenants ELSE {}) :
        /\ listed.scope # Null /\ begun < MaxBegun /\ ~ \E r \in seeded : r.org = o /\ r.code = c
        /\ begun' = begun + 1 /\ seeded' = seeded \cup {Row(Fresh(1), o, c, "none", "none")}
        /\ unsure' = unsure \cup {listed.version}
        /\ UNCHANGED <<orm, listed, boot, copying, amend, reader>>

\* The client asks again whenever the version is not the one it holds.
Reads ==
    /\ reader.version # listed.version
    /\ reader' = [version |-> listed.version, shown |-> seeded]
    /\ UNCHANGED <<orm, listed, seeded, boot, copying, amend, begun, unsure>>

Next ==
    \/ \E b \in Replicas :
        \/ \E f \in SeedFiles : BootBegins(b, f)
        \/ ensure_type(b) \/ InsertValue(b) \/ HealValue(b) \/ KeepValue(b) \/ ValuesEnd(b)
        \/ seed_type(b) \/ LinkPass(b) \/ bump_version_if(b) \/ BootDies(b)
    \/ \E o \in Tenants : SeedingReads(o) \/ seed_org_lookups(o) \/ SeedingFails(o)
    \/ RequestReads \/ Edit \/ Supersede \/ CreateDies \/ Reads

Spec == Init /\ [][Next]_seeding

-----------------------------------------------------------------------------
\* What a finished boot leaves of a value of its file.  The ORM seeder neither heals nor
\* tops up; the SQL seeder does not top up a row it has just healed.
Holds(b, v) ==
    \E r \in Platform(v.code) :
        /\ v.parent # Null => r.parent # 0
        /\ v.next # Null => r.next # 0
        /\ ~orm => r.label # "none"
        /\ ~orm /\ v.meta /\ v.code \notin boot[b].healed => r.meta # "none"

\* A boot that comes to its end has made good everything boots before it left undone:
\* whatever died, was edited or was left bare, every value of the file is there.
BootMakesGood ==
    \A b \in Replicas : boot[b].at = "bump" =>
        \A k \in DOMAIN boot[b].file.values : Holds(b, boot[b].file.values[k])

\* A client that revalidates holds the list, but while a boot is between its commits and
\* its version, after one that died there (or a create that did), and where two writers,
\* boots, requests or orgs' seedings, have loaded the same version.
RevalidatedIsCurrent ==
    reader.version = listed.version /\ listed.version \notin unsure
        /\ (\A b \in Replicas : ~boot[b].changed) => reader.shown = seeded

\* An org's rows point at its own rows, never into the template or at another org.
CopiesStayHome ==
    \A r \in seeded : \A id \in {r.parent, r.next} \ {0} :
        \E w \in seeded : w.id = id /\ w.org = r.org

\* Together: what boots leave behind is complete, revalidates, and stays home.
BootsLeaveItWhole == BootMakesGood /\ RevalidatedIsCurrent /\ CopiesStayHome
=============================================================================
