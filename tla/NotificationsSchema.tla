------------------------- MODULE NotificationsSchema -------------------------
(***************************************************************************)
(* asas-notifications' migrate() on Postgres: adopt-or-create, the chain   *)
(* of thirteen revisions, and the rows the revisions rewrite.  The chain   *)
(* runs in one transaction that the CONCURRENTLY builds of 0003 and 0004   *)
(* commit on the way; a boot may die at any step, and the next boot        *)
(* starts from what was committed.                                         *)
(***************************************************************************)
EXTENDS Naturals, Sequences, FiniteSets

CONSTANTS
    Wild,       \* NULL in a coordinate of a policy cell: every value
    Orgs,       \* the host's organisations
    NoOrg,      \* NULL
    MaxWrites,  \* bound: rows the host and its administrators write
    MaxCrashes, \* bound: boots that die
    MaxUndos    \* bound: downgrades and losses of the version table

VARIABLES
    db,      \* what is committed
    tx,      \* what the running boot's transaction sees
    at,      \* the running boot's next step in Program; 0: no boot runs
    locks,   \* the tables whose writers wait for the boot's next commit
    release, \* the last revision the installed release carries
    ended,   \* how the last boot ended, if it came to an end: "done", "failed", "refused"
    wedged,  \* history: a boot died between 0004's first commit and its last
    misfit,  \* history: the baseline was stamped on a table with other columns
    writes, crashes, undos

schema == <<db, tx, at, locks, release, ended, wedged, misfit, writes, crashes, undos>>

-----------------------------------------------------------------------------
(* The tables, as far as the revisions tell rows and columns apart.         *)

Revisions == <<"0001", "0002", "0003", "0004", "0005", "0005_opaque_identity", "0006",
               "0007", "0008", "0009", "0010", "0011", "0012">>
Number(rev) == CHOOSE n \in 1 .. Len(Revisions) : Revisions[n] = rev
AtLeast(d, rev) == d.version >= Number(rev)

\* 0.15, 0.16 and 0.16.1, then 0.17 to 0.19 of a line whose chain lacked 0005, and
\* 0.20, which joins the two.
Upstream == {"0003", "0004", "0005"}
OtherLine == {"0008", "0009", "0010"}
Releases == Upstream \cup OtherLine \cup {"0012"}

Feed == "notification"
Outbox == "notification_delivery"
Topic == "notification_topic"
Policy == "notification_channel_policy"
Importance == "notification_importance"
Baseline == {Feed, Outbox}

\* "others" stands for the baseline's columns that no revision renames or drops.
Columns == {"kind", "urgency", "category", "reason", "others"}
Sentinel == {"kind", "urgency", "others"}
Renamed == {<<"kind", "action">>, <<"urgency", "importance">>}

\* forced: the tables that carry the host's own row level security, owner included.
Fresh == [version |-> 0, tables |-> {}, columns |-> {}, valid |-> {}, invalid |-> {},
          rows |-> {}, cells |-> {}, topics |-> {}, rungs |-> {}, deliveries |-> {},
          forced |-> {}]

\* What a database may hold under the names of the baseline: the columns of it, one
\* missing or one that a later revision adds, or columns already renamed; one table or
\* both; its indexes, or the whole baseline with indexes of the host's own naming.
Shapes == {Columns} \cup {Columns \ {c} : c \in Columns}
          \cup {Columns \cup {c} : c \in {"action", "archived_at"}}
          \cup {(Columns \ {"kind"}) \cup {"action"},
                (Columns \ {"kind", "urgency"}) \cup {"action", "importance"}}
OldIndexes == {"0003_user", "0003_status", "0004_kind"}
Found == {[Fresh EXCEPT !.tables = t, !.columns = c, !.valid = OldIndexes] :
             t \in {{Feed}, Baseline}, c \in Shapes}
         \cup {[Fresh EXCEPT !.tables = Baseline, !.columns = Columns]}
         \cup {[Fresh EXCEPT !.tables = {Outbox}]}

Init ==
    /\ db \in {Fresh} \cup Found
    /\ release \in Releases
    /\ tx = db /\ at = 0 /\ locks = {} /\ ended = "none"
    /\ wedged = FALSE /\ misfit = FALSE
    /\ writes = 0 /\ crashes = 0 /\ undos = 0

-----------------------------------------------------------------------------
(* The revisions.  Each step maps the transaction's view to the next one.   *)

\* Names of the steps, in order; a revision is recorded with its last step.
Program ==
    <<"0001", "0002",
      "0003_feed", "0003_badge", "0003_claims", "0003_user", "0003_status",
      "0004_columns", "0004_kind", "0004_action", "0004_topic", "0004_tables",
      "0005_collapse", "0005", "0005_opaque_identity", "0006", "0007", "0008",
      "0009_fold", "0009", "0010", "0011_collapse", "0011", "0012">>
RevisionOf(n) == CASE n \in 3 .. 7 -> "0003"
                   [] n \in 8 .. 12 -> "0004"
                   [] n = 13 -> "0005"
                   [] n = 19 -> "0009"
                   [] n = 22 -> "0011"
                   [] OTHER -> Program[n]
Last(n) == n = Len(Program) \/ RevisionOf(n + 1) # RevisionOf(n)

\* The indexes, by the step that builds or drops them.
Builds(n) == Program[n] \in {"0003_feed", "0003_badge", "0003_claims", "0004_action", "0004_topic"}
Drops(n) == Program[n] \in OldIndexes

\* Mutant: a leftover of an interrupted build is taken for the index.
SkipInvalid(d, name) == name \in d.valid \cup d.invalid
\* _create's guard: only a valid index of that name is there already.
AlreadyBuilt(d, name) == name \in d.valid

Lacks(d, c) == c \notin d.columns
Adds(d, c) == [d EXCEPT !.columns = @ \cup {c}]
Renames(d, old, new) == [d EXCEPT !.columns = (@ \ {old}) \cup {new}]

\* What the boot's connection, bound to no org, sees of a table of which S are the rows.
Seen(d, table, S) == IF table \in d.forced THEN {} ELSE S
\* S after f has rewritten the rows it sees.
Rewritten(d, table, S, R) == R \cup (S \ Seen(d, table, S))

\* The platform's topics of one key, of which 0005 and 0011 keep the newest.
Twins(S) == {t \in S : \E u \in S : u # t /\ t.org = NoOrg /\ u.org = NoOrg /\ u.key = t.key}
NewestTopics(S) == {t \in S : \A u \in S : u.org = t.org /\ u.key = t.key /\ t.org = NoOrg => u.id <= t.id}
Collapsed(d) == [d EXCEPT !.topics = Rewritten(d, Topic, @, NewestTopics(Seen(d, Topic, @)))]
Unique(d) == [d EXCEPT !.valid = @ \cup {"platform_key"}]
Keyed(d) == "platform_key" \in d.valid

\* Mutant: cells that only name a nature are left without a condition.
KeepNature(c) == FALSE
\* 0007: the cells whose only condition was nature.
Orphaned(c) == c.nature # Wild /\ c.topic = Wild /\ c.loud = Wild

\* 0009: the retired rung folds up.
FoldUp(row) == IF row.loud = "normal" THEN [row EXCEPT !.loud = "high"] ELSE row

\* 0012 lifts FORCE for the statement: every row is seen.
Backfilled(d) == d.deliveries

OrgOf(d, v) == IF \E r \in d.rows : r.id = v.of THEN (CHOOSE r \in d.rows : r.id = v.of).org ELSE NoOrg

\* The revisions that change what is modelled, by their names; the others only add
\* columns (0006) or widen them (0005_opaque_identity).
baseline(d) == [d EXCEPT !.tables = Baseline, !.columns = Columns, !.valid = OldIndexes]
archived_at(d) == Adds(d, "archived_at")
actions_axes_columns(d) == Renames(Renames(d, "kind", "action"), "category", "nature")
actions_axes_tables(d) ==
    [d EXCEPT !.tables = @ \cup {Topic, Policy},
              !.topics = {[id |-> 1, org |-> NoOrg, key |-> "general", late |-> 0]}]
platform_topic_collapse(d) == IF release \in OtherLine THEN d ELSE Collapsed(d)
platform_topic_unique(d) == IF release \in OtherLine THEN d ELSE Unique(d)
routing_matrix(d) ==
    [d EXCEPT !.cells =
        {[c EXCEPT !.nature = Wild] : c \in {b \in @ : b \in Seen(d, Policy, @) => ~ Orphaned(b)}}]
drop_reason(d) == [d EXCEPT !.columns = @ \ {"reason"}]
importance_fold(d) ==
    [d EXCEPT !.rows = Rewritten(d, Feed, @, {FoldUp(r) : r \in Seen(d, Feed, @)}),
              !.cells = {c \in @ : c \in Seen(d, Policy, @) => c.loud # "normal"}]
importance_axis(d) == [Renames(d, "urgency", "importance") EXCEPT !.columns = @ \ {"nature"}]
importance_catalogue(d) ==
    [d EXCEPT !.tables = @ \cup {Importance},
              !.rungs = {[org |-> NoOrg, key |-> "low", emails |-> FALSE],
                         [org |-> NoOrg, key |-> "high", emails |-> TRUE]}]
platform_topic_collapse_everywhere(d) == IF Keyed(d) THEN d ELSE Collapsed(d)
delivery_org(d) ==
    [d EXCEPT !.deliveries = {IF v.org = NoOrg THEN [v EXCEPT !.org = OrgOf(d, v)] ELSE v : v \in Backfilled(d)}
                             \cup (@ \ Backfilled(d)),
              !.valid = @ \cup {"delivery_org"}]

Upgraded(d, name) ==
    CASE name = "0001" -> baseline(d)
      [] name = "0002" -> archived_at(d)
      [] name = "0004_columns" -> actions_axes_columns(d)
      [] name = "0004_tables" -> actions_axes_tables(d)
      [] name = "0005_collapse" -> platform_topic_collapse(d)
      [] name = "0005" -> platform_topic_unique(d)
      [] name = "0007" -> routing_matrix(d)
      [] name = "0008" -> drop_reason(d)
      [] name = "0009_fold" -> importance_fold(d)
      [] name = "0009" -> importance_axis(d)
      [] name = "0010" -> importance_catalogue(d)
      [] name = "0011_collapse" -> platform_topic_collapse_everywhere(d)
      [] name = "0011" -> Unique(d)
      [] name = "0012" -> delivery_org(d)
      [] OTHER -> d

\* What makes a step raise: a table or a column that is there already or is not, a
\* unique index over rows that repeat a key, an outbox row without an org.
Raises(d, name) ==
    CASE name = "0001" -> d.tables # {}
      [] name = "0002" -> ~ Lacks(d, "archived_at")
      [] name = "0004_columns" -> Lacks(d, "kind") \/ ~ Lacks(d, "action") \/ Lacks(d, "category")
      [] name = "0004_tables" -> Topic \in d.tables
      [] name = "0005" -> release \notin OtherLine /\ Twins(d.topics) # {}
      [] name = "0008" -> Lacks(d, "reason")
      [] name = "0009" -> Lacks(d, "urgency") \/ ~ Lacks(d, "importance")
      [] name = "0011" -> ~ Keyed(d) /\ Twins(d.topics) # {}
      [] name = "0012" -> \E v \in Upgraded(d, name).deliveries : v.org = NoOrg
      [] OTHER -> FALSE

\* The tables whose writers a step's DDL makes wait until the commit.
Locked(d, name) ==
    CASE name \in {"0002", "0004_columns", "0006", "0008"} -> {Feed}
      [] name = "0005" -> IF release \in OtherLine THEN {} ELSE {Topic}
      [] name = "0005_opaque_identity" -> {Feed, Topic, Policy}
      [] name = "0007" -> {Policy}
      [] name \in {"0009", "0010"} -> {Feed, Policy}
      [] name = "0011" -> IF Keyed(d) THEN {} ELSE {Topic}
      [] name = "0012" -> {Outbox} \cup (d.forced \cap {Feed})
      [] OTHER -> {}

Recorded(d, n) == IF Last(n) THEN [d EXCEPT !.version = Number(RevisionOf(n))] ELSE d

-----------------------------------------------------------------------------
(* A boot.                                                                  *)

\* _assert_adoptable: every baseline table, the baseline's columns, nothing renamed.
Adoptable(d) ==
    /\ Baseline \subseteq d.tables
    /\ \A p \in Renamed : p[2] \in d.columns => p[1] \in d.columns
    /\ Sentinel \subseteq d.columns

FirstStep(d) == CHOOSE n \in 1 .. Len(Program) + 1 :
                    /\ \A m \in 1 .. (n - 1) : Number(RevisionOf(m)) <= d.version
                    /\ n <= Len(Program) => Number(RevisionOf(n)) > d.version

\* migrate(): a table without bookkeeping is adopted or refused; the stamp commits.
Boot ==
    /\ at = 0
    /\ LET found == db.version = 0 /\ Feed \in db.tables
           start == IF found THEN [db EXCEPT !.version = 1] ELSE db
       IN  IF found /\ ~ Adoptable(db)
           THEN ended' = "refused" /\ UNCHANGED <<db, tx, at, misfit>>
           ELSE /\ db' = start /\ tx' = start
                /\ misfit' = (misfit \/ (found /\ db.columns # Columns))
                /\ IF start.version >= Number(release) THEN at' = 0 /\ ended' = "done"
                                           ELSE at' = FirstStep(start) /\ ended' = "none"
    /\ UNCHANGED <<locks, release, wedged, writes, crashes, undos>>

\* A step inside the transaction.
Transactional ==
    /\ at # 0 /\ ~ Builds(at) /\ ~ Drops(at)
    /\ IF Raises(tx, Program[at])
       THEN /\ ended' = "failed" /\ at' = 0 /\ tx' = db /\ locks' = {}
            /\ UNCHANGED db
       ELSE LET next == Recorded(Upgraded(tx, Program[at]), at)
            IN  /\ tx' = next
                /\ IF next.version = Number(release)
                   THEN db' = next /\ at' = 0 /\ locks' = {} /\ ended' = "done"
                   ELSE at' = at + 1 /\ locks' = locks \cup Locked(tx, Program[at]) /\ UNCHANGED <<db, ended>>
    /\ UNCHANGED <<release, wedged, misfit, writes, crashes, undos>>

\* The columns of 0004 are committed and its revision is not.
Halfway(d) == ~ AtLeast(d, "0004") /\ Lacks(d, "kind")

\* A CONCURRENTLY build or drop that has something to do commits what precedes it;
\* an interrupted build leaves an invalid index.
Concurrent(dies) ==
    LET name == Program[at]
        idle == IF Builds(at) THEN AlreadyBuilt(tx, name) ELSE name \notin tx.valid \cup tx.invalid
        built == IF Builds(at) THEN [tx EXCEPT !.valid = @ \cup {name}, !.invalid = @ \ {name}]
                               ELSE [tx EXCEPT !.valid = @ \ {name}, !.invalid = @ \ {name}]
        broken == [tx EXCEPT !.valid = @ \ {name}, !.invalid = @ \cup {name}]
    IN  /\ at # 0 /\ (Builds(at) \/ Drops(at))
        /\ IF ~ dies
           THEN LET next == Recorded(IF idle THEN tx ELSE built, at)
                    over == next.version = Number(release)
                IN  /\ tx' = next
                    /\ db' = IF over THEN next ELSE IF idle THEN db ELSE built
                    /\ at' = IF over THEN 0 ELSE at + 1
                    /\ locks' = IF over \/ ~ idle THEN {} ELSE locks
                    /\ ended' = IF over THEN "done" ELSE ended
                    /\ UNCHANGED <<wedged, crashes>>
           ELSE /\ ~ idle /\ crashes < MaxCrashes
                /\ crashes' = crashes + 1
                /\ db' = broken /\ tx' = broken /\ at' = 0 /\ locks' = {} /\ ended' = "none"
                /\ wedged' = (wedged \/ RevisionOf(at) = "0004")
        /\ UNCHANGED <<release, misfit, writes, undos>>

\* The process dies between steps, or the server ends its transaction (a deadlock with
\* a writer): what was not committed is gone.
Die ==
    /\ at # 0 /\ crashes < MaxCrashes
    /\ crashes' = crashes + 1
    /\ tx' = db /\ at' = 0 /\ locks' = {} /\ ended' = "none"
    /\ wedged' = (wedged \/ Halfway(db))
    /\ UNCHANGED <<db, release, misfit, writes, undos>>

-----------------------------------------------------------------------------
(* What the host's processes and administrators write, at rest and while a  *)
(* boot runs: a table under the boot's locks keeps them waiting.            *)

RungsAt(d) == IF AtLeast(d, "0010") THEN {r.key : r \in d.rungs}
            ELSE IF AtLeast(d, "0009") THEN {"low", "high"} ELSE {"low", "normal", "high"}

Written(d, table, x) == [d EXCEPT ![table] = @ \cup {x}]
Write(table, x) == db' = Written(db, table, x) /\ tx' = Written(tx, table, x)
Free(table) == table \notin locks

\* From 0012 on the processes of an older release write no org in the outbox.
WriteRow ==
    /\ Free(Feed) /\ Free(Outbox) /\ ~ Halfway(db)
    /\ \E loud \in RungsAt(db), org \in Orgs, old \in {0, 1} :
        LET row == [id |-> writes + 1, org |-> org, loud |-> loud]
            sent == [of |-> writes + 1, late |-> IF AtLeast(db, "0012") THEN old ELSE 0,
                     org |-> IF AtLeast(db, "0012") /\ old = 0 THEN org ELSE NoOrg]
        IN  /\ db' = Written(Written(db, "rows", row), "deliveries", sent)
            /\ tx' = Written(Written(tx, "rows", row), "deliveries", sent)
\* Only a database without foreign keys holds one.
WriteOrphan ==
    /\ Free(Outbox) /\ ~ AtLeast(db, "0012")
    /\ Write("deliveries", [of |-> 0, org |-> NoOrg, late |-> 0])
WriteCell ==
    /\ AtLeast(db, "0004") /\ Free(Policy)
    /\ \E t \in {Wild, "general"}, l \in RungsAt(db) \cup {Wild}, n \in {Wild, "info"} :
        /\ n # Wild => ~ AtLeast(db, "0007")
        /\ ~ AtLeast(db, "0007") => \/ t # Wild /\ l = Wild /\ n = Wild
                                    \/ t = Wild /\ (l # Wild \/ n # Wild)
        /\ Write("cells", [id |-> writes + 1, topic |-> t, loud |-> l, nature |-> n])
WriteTopic ==
    /\ AtLeast(db, "0004") /\ Free(Topic)
    /\ Keyed(db) => ~ \E t \in db.topics : t.key = "orders"
    /\ Write("topics", [id |-> writes + 2, org |-> NoOrg, key |-> "orders",
                        late |-> IF at = 0 THEN 0 ELSE 1])
\* A rung of the platform's, or an org's own for it.
WriteRung ==
    /\ AtLeast(db, "0010")
    /\ \E emails \in BOOLEAN, org \in Orgs \cup {NoOrg}, key \in {"low", "urgent", "critical"} :
        /\ ~ \E r \in db.rungs : r.org = org /\ r.key = key
        /\ Write("rungs", [org |-> org, key |-> key, emails |-> emails])

HostWrites ==
    /\ db.version > 0 /\ writes < MaxWrites /\ writes' = writes + 1
    /\ WriteRow \/ WriteOrphan \/ WriteCell \/ WriteTopic \/ WriteRung
    /\ ended' = "none"
    /\ UNCHANGED <<at, locks, release, wedged, misfit, crashes, undos>>

-----------------------------------------------------------------------------
(* Between boots: the host's row level security, a downgrade by hand, and   *)
(* the loss of the version table.                                           *)

AtRest(d) == at = 0 /\ d.version > 0

\* The host puts row level security on the tenants' tables or on all, or lifts it.
Force ==
    /\ AtRest(db)
    /\ \E walled \in {{}, Baseline, db.tables} : db' = [db EXCEPT !.forced = walled] /\ tx' = db'
    /\ ended' = "none"
    /\ UNCHANGED <<at, locks, release, wedged, misfit, writes, crashes, undos>>

\* The catalogue's row of a key: the platform's first, else some org's.
Catalogued(S, key) == LET P == {r \in S : r.key = key /\ r.org = NoOrg}
                      IN  IF P # {} THEN P ELSE {r \in S : r.key = key}

\* 0010's downgrade: a rung of the catalogue folds onto the one that routed as it did.
FoldedBack(S, row) ==
    IF row.loud \in {"low", "high"} \/ Catalogued(S, row.loud) = {} THEN row
    ELSE [row EXCEPT !.loud = IF \E r \in Catalogued(S, row.loud) : r.emails THEN "high" ELSE "low"]

catalogue_dropped(d) ==
    LET known == Seen(d, Importance, d.rungs)
        kept(c) == c.loud \in {"low", "high", Wild}
    IN  [d EXCEPT !.rows = Rewritten(d, Feed, @, {FoldedBack(known, r) : r \in Seen(d, Feed, @)}),
                  !.cells = IF {r.key : r \in known} \subseteq {"low", "high"} THEN @
                            ELSE {c \in @ : c \in Seen(d, Policy, @) => kept(c)},
                  !.rungs = {}, !.tables = @ \ {Importance}, !.forced = @ \ {Importance}]
urgency_restored(d) == [Renames(d, "importance", "urgency") EXCEPT !.columns = @ \cup {"nature"}]
\* The cells the older table could not hold: those of both coordinates and of neither.
Narrow(c) == (c.topic = Wild) # (c.loud = Wild)
matrix_undone(d) == [d EXCEPT !.cells = {c \in @ : c \in Seen(d, Policy, @) => Narrow(c)}]
delivery_org_dropped(d) ==
    [d EXCEPT !.deliveries = {[v EXCEPT !.org = NoOrg] : v \in @}, !.valid = @ \ {"delivery_org"}]

Downgraded(d) ==
    CASE Revisions[d.version] = "0012" -> delivery_org_dropped(d)
      [] Revisions[d.version] = "0010" -> catalogue_dropped(d)
      [] Revisions[d.version] = "0009" -> urgency_restored(d)
      [] Revisions[d.version] = "0008" -> Adds(d, "reason")
      [] Revisions[d.version] = "0007" -> matrix_undone(d)
      [] OTHER -> d

\* A downgrade raises, and changes nothing, over a rung the narrowed column cannot
\* hold, a row whose reason its UPDATE did not see, or a cell the CHECK does not admit.
UndoRaises(d) ==
    CASE Revisions[d.version] = "0010" -> \E x \in Downgraded(d).rows \cup Downgraded(d).cells : x.loud = "critical"
      [] Revisions[d.version] = "0008" -> d.rows # Seen(d, Feed, d.rows)
      [] Revisions[d.version] = "0007" -> \E c \in Downgraded(d).cells : ~ Narrow(c)
      [] OTHER -> FALSE

\* One revision down, from 0012 to 0006: each commits.
Downgrade ==
    /\ AtRest(db) /\ undos < MaxUndos /\ AtLeast(db, "0007") /\ ~ UndoRaises(db)
    /\ undos' = undos + 1
    /\ db' = [Downgraded(db) EXCEPT !.version = @ - 1] /\ tx' = db'
    /\ ended' = "none"
    /\ UNCHANGED <<at, locks, release, wedged, misfit, writes, crashes>>

\* A partial restore: the version table is gone, the tables are not.
LoseVersion ==
    /\ AtRest(db) /\ undos < MaxUndos
    /\ undos' = undos + 1
    /\ db' = [db EXCEPT !.version = 0] /\ tx' = db'
    /\ ended' = "none"
    /\ UNCHANGED <<at, locks, release, wedged, misfit, writes, crashes>>

\* A newer release of the package, or the joined one.
Install ==
    /\ at = 0
    /\ release' \in {r \in Releases : Number(r) > Number(release) /\ (r \in OtherLine => release # "0005")}
    /\ ended' = "none"
    /\ UNCHANGED <<db, tx, at, locks, wedged, misfit, writes, crashes, undos>>

Next == Boot \/ Transactional \/ (\E dies \in BOOLEAN : Concurrent(dies)) \/ Die
        \/ Install \/ HostWrites \/ Force \/ Downgrade \/ LoseVersion

Spec == Init /\ [][Next]_schema

-----------------------------------------------------------------------------
(* Properties.                                                              *)

\* A boot never leaves half a schema behind: when it is done the database is at the
\* release's revision, every index the chain builds up to there is valid and the ones it
\* replaces are gone, whichever boots died before; from 0011 on there is one platform
\* topic for a key, and from 0012 on every outbox row has the org of its notification,
\* but for those that a process of an older release wrote since.
\* It can fail for five reasons only: a boot died inside 0004, after its columns were
\* committed and before its revision was; the baseline was stamped on a table with a
\* column more or less; the outbox alone was there; an outbox row has no notification;
\* two platform topics share a key, and the host's policy hid them from the collapse or
\* one was written while a boot ran.
BootsReachHead ==
    /\ ended = "done" =>
        /\ AtLeast(db, release) /\ Baseline \subseteq db.tables /\ db.invalid = {}
        /\ \A n \in 1 .. Len(Program) : AtLeast(db, RevisionOf(n)) =>
              /\ Builds(n) => Program[n] \in db.valid
              /\ Drops(n) => Program[n] \notin db.valid
        /\ AtLeast(db, "0011") => Twins(db.topics) = {}
        /\ AtLeast(db, "0012") =>
              \A v \in db.deliveries : v.late = 1 \/ \E r \in db.rows : r.id = v.of /\ r.org = v.org
    /\ ended = "failed" =>
        \/ wedged \/ misfit
        \/ db.tables = {Outbox}
        \/ \E v \in db.deliveries : \A r \in db.rows : r.id # v.of
        \/ \E t \in Twins(db.topics) : Topic \in db.forced \/ t.late = 1

\* Whether a rung emails an org by default: the org's own row of the catalogue, else
\* the platform's, else not; before the catalogue, every rung but "low" did.
EmailsByDefault(d, org, rung) ==
    LET own == {r \in d.rungs : r.key = rung /\ r.org = org}
        shared == {r \in d.rungs : r.key = rung /\ r.org = NoOrg}
    IN  IF ~ AtLeast(d, "0010") THEN rung # "low"
        ELSE \E r \in (IF own # {} THEN own ELSE shared) : r.emails
\* No org has a row of its own that decides otherwise than the platform's.
Undisputed(d, rung) ==
    \A r \in d.rungs : r.key = rung => r.emails = EmailsByDefault(d, NoOrg, rung)

Matched(c) == {e \in {"general", "other"} \X {"low", "normal", "high", "urgent", "critical"} \X {"info", "other"} :
                  c.topic \in {Wild, e[1]} /\ c.loud \in {Wild, e[2]} /\ c.nature \in {Wild, e[3]}}

\* What a migration does to stored rows, up or down, it does without changing what they
\* say.  A policy cell never comes to match an emit it did not match, unless it named a
\* nature beside an urgency (0007 drops the condition and keeps the cell) or a nature
\* only, behind the host's policy.  A notification still reads as emailed by default
\* exactly if it did, unless its rung was retired and the fold did not see it (hidden by
\* the host's policy, or written after it), or, at the downgrade of 0010, the policy hid
\* it or an org had decided otherwise than the platform.
KeepsMeaning ==
    writes' = writes =>
     /\ \A c \in tx.cells, b \in tx'.cells :
           c.id = b.id => \/ Matched(b) \subseteq Matched(c)
                          \/ c.nature # Wild /\ (c.loud # Wild \/ Policy \in tx.forced)
     /\ {b.id : b \in tx'.cells} \subseteq {c.id : c \in tx.cells \cup db.cells}
     /\ \A r \in tx.rows, q \in tx'.rows :
           r.id = q.id /\ tx'.version # 0 /\ tx.version # 0
           => \/ EmailsByDefault(tx, r.org, r.loud) = EmailsByDefault(tx', q.org, q.loud)
              \/ r.loud \notin RungsAt(tx)
              \/ AtLeast(tx, "0010") /\ (Feed \in tx.forced \/ ~ Undisputed(tx, r.loud))
MigrationsKeepMeaning == [][KeepsMeaning]_schema
=============================================================================
