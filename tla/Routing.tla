------------------------------- MODULE Routing -------------------------------
(***************************************************************************)
(* The routing configuration of asas-notifications: the topics, the        *)
(* importance catalogue and the channel policies that administrators       *)
(* change, the three caches each process keeps of them for                 *)
(* CONFIG_TTL_SECONDS, and what notify decides from those: that an axis is *)
(* unknown, or which channels an emit goes to.                             *)
(***************************************************************************)
EXTENDS Naturals

CONSTANTS
    Replicas,     \* processes, each with its own caches
    Tenants,      \* orgs
    Platform,     \* org_id NULL: the platform's rows
    Topics, Rungs,
    General,      \* the topic that is seeded
    Low, High,    \* the rungs that are seeded
    Every,          \* NULL in a coordinate of a policy: every value
    InApp, Email, \* the two built-in channels
    Writable,     \* bound: the cells administrators write, [topic, importance, channel,
                  \* enabled, mandatory], Every in a coordinate that is NULL
    TTL,          \* CONFIG_TTL_SECONDS, in ticks
    MaxChanges,   \* bound: changes of an administrator
    MaxTicks      \* bound: ticks of the clock

VARIABLES
    config,  \* the committed tables: topics, rungs and policies
    past,    \* history: the configurations the last TTL ticks saw, with their age
    caches,  \* each process: the entries it keeps, with their age
    clock,   \* ticks so far
    changes, \* changes so far
    emit     \* the last emit, what it was told and what it decided

routing == <<config, past, caches, clock, changes, emit>>

Owners == Tenants \cup {Platform}
Routed == {InApp, Email}

Rung == [org : Owners, key : Rungs, emails : BOOLEAN]

None == [age |-> TTL + 1]
NoCaches == [topics |-> None, rungs |-> [o \in Tenants \cup {Every} |-> None],
             policies |-> [o \in Tenants |-> None]]

Init ==
    /\ config = [topics |-> {General},
                 rungs |-> {[org |-> Platform, key |-> Low, emails |-> FALSE],
                            [org |-> Platform, key |-> High, emails |-> TRUE]},
                 policies |-> {}]
    /\ past = {[age |-> 0, config |-> config]}
    /\ caches = [p \in Replicas |-> NoCaches]
    /\ clock = 0 /\ changes = 0
    /\ emit = [at |-> "none"]

-----------------------------------------------------------------------------
(* The administrators, on any replica.                                      *)

Changed(c) ==
    /\ changes < MaxChanges
    /\ changes' = changes + 1
    /\ config' = c
    /\ past' = past \cup {[age |-> 0, config |-> c]}
    /\ emit' = [at |-> "none"]
    /\ UNCHANGED <<caches, clock>>

SeedTopic(t) == t \notin config.topics /\ Changed([config EXCEPT !.topics = @ \cup {t}])

\* uq_notification_importance_org_key, as hosts' check-then-insert keeps it.
SaveRung(r) ==
    /\ r \notin config.rungs
    /\ Changed([config EXCEPT !.rungs = {q \in @ : <<q.org, q.key>> # <<r.org, r.key>>} \cup {r}])
DropRung(r) == Changed([config EXCEPT !.rungs = @ \ {r}])

AddPolicy(o, cell) ==
    Changed([config EXCEPT !.policies = @ \cup
        {[id |-> changes + 1, org |-> o, topic |-> cell.topic, importance |-> cell.importance,
          channel |-> cell.channel, enabled |-> cell.enabled, mandatory |-> cell.mandatory]}])
DropPolicy(r) == Changed([config EXCEPT !.policies = @ \ {r}])

\* The clock: entries and configurations grow old together.
Tick ==
    /\ clock < MaxTicks
    /\ clock' = clock + 1
    /\ LET Older(e) == IF e.age < TTL THEN [e EXCEPT !.age = @ + 1] ELSE None
       IN  /\ past' = {[h EXCEPT !.age = @ + 1] : h \in {g \in past : g.age + 1 < TTL}}
                      \cup {[age |-> 0, config |-> config]}
           /\ caches' = [p \in Replicas |->
                [topics |-> Older(caches[p].topics),
                 rungs |-> [o \in Tenants \cup {Every} |-> Older(caches[p].rungs[o])],
                 policies |-> [o \in Tenants |-> Older(caches[p].policies[o])]]]
    /\ emit' = [at |-> "none"]
    /\ UNCHANGED <<config, changes>>

\* config_cache_clear, and a restart of the process.
config_cache_clear(p) ==
    /\ caches' = [caches EXCEPT ![p] = NoCaches]
    /\ emit' = [at |-> "none"]
    /\ UNCHANGED <<config, past, clock, changes>>

-----------------------------------------------------------------------------
(* What a process reads.                                                    *)

\* Mutant: an entry is kept for one tick too many.
FreshTooLong(e) == "rows" \in DOMAIN e
\* An entry younger than the TTL.
Fresh(e) == e.age < TTL

Now(rows) == [age |-> 0, rows |-> rows]

\* The entry after a read: the cached one while it is fresh.
ReadThrough(e, rows) == IF Fresh(e) THEN e ELSE Now(rows)

\* Membership with a fresh re-query on miss.
ReadOrRefresh(e, rows, hits) ==
    IF hits \cap ReadThrough(e, rows).rows # {} THEN ReadThrough(e, rows) ELSE Now(rows)

\* The catalogue as routing reads it: the platform's rows and one org's.
RungsOf(o) == {r \in config.rungs : r.org \in {Platform, o}}
PoliciesOf(o) == {r \in config.policies : r.org \in {Platform, o}}

\* _emails_by_default: the org's own row beats the platform's; a rung without one is quiet.
Emails(rows, o, i) ==
    \/ \E r \in rows : r.key = i /\ r.org = o /\ r.emails
    \/ /\ ~ \E r \in rows : r.key = i /\ r.org = o
       /\ \E r \in rows : r.key = i /\ r.org = Platform /\ r.emails

Set(x) == IF x = Every THEN 0 ELSE 1

\* The key of max(): how many coordinates a cell states, whether it is an org's, its id.
Beats(r, q) ==
    LET Rank(x) == Set(x.topic) + Set(x.importance)
        Own(x) == IF x.org = Platform THEN 0 ELSE 1
    IN  \/ Rank(r) > Rank(q)
        \/ Rank(r) = Rank(q) /\ Own(r) > Own(q)
        \/ Rank(r) = Rank(q) /\ Own(r) = Own(q) /\ r.id >= q.id

Matches(r, t, i) == r.topic \in {Every, t} /\ r.importance \in {Every, i}

\* resolve_channels: each enabled channel, with whether it is mandatory.
resolve_channels(policies, rungs, o, t, i) ==
    LET Cells(c) == {r \in policies : r.channel = c /\ Matches(r, t, i)}
        Pick(c) == CHOOSE r \in Cells(c) : \A q \in Cells(c) : Beats(r, q)
        On(c) == IF Cells(c) # {} THEN Pick(c).enabled
                 ELSE c = InApp \/ (c = Email /\ Emails(rungs, o, i))
    IN  [c \in {d \in Routed : On(d)} |-> Cells(c) # {} /\ Pick(c).mandatory]

\* An emit's checks and its routing, each query through its cache.
Emit(p, o, t, i) ==
    LET mine == caches[p]
        rung == {r \in Rung : r.key = i}
        topics == ReadOrRefresh(mine.topics, config.topics, {t})
        all == ReadOrRefresh(mine.rungs[Every], config.rungs, rung)
        policies == ReadThrough(mine.policies[o], PoliciesOf(o))
        own == ReadOrRefresh(mine.rungs[o], RungsOf(o), rung)
        asks == ~ \E r \in policies.rows : r.channel = Email /\ Matches(r, t, i)
        asked == [mine EXCEPT !.topics = topics]
        known == [asked EXCEPT !.rungs = [@ EXCEPT ![Every] = all]]
        routed == [topics |-> topics, policies |-> [mine.policies EXCEPT ![o] = policies],
                   rungs |-> IF asks THEN [known.rungs EXCEPT ![o] = own] ELSE known.rungs]
        Decide(cache, what, channels) ==
            /\ caches' = [caches EXCEPT ![p] = cache]
            /\ emit' = [at |-> "emit", org |-> o, topic |-> t, importance |-> i,
                        decided |-> what, channels |-> channels]
    IN  /\ \/ /\ t \notin topics.rows
              /\ Decide(asked, "unknown_topic", <<>>)
           \/ /\ t \in topics.rows /\ rung \cap all.rows = {}
              /\ Decide(known, "unknown_importance", <<>>)
           \/ /\ t \in topics.rows /\ rung \cap all.rows # {}
              /\ Decide(routed, "routed", resolve_channels(policies.rows, own.rows, o, t, i))
        /\ UNCHANGED <<config, past, clock, changes>>

Next ==
    \/ \E t \in Topics : SeedTopic(t)
    \/ \E r \in Rung : SaveRung(r) \/ DropRung(r)
    \/ \E o \in Owners, cell \in Writable : AddPolicy(o, cell)
    \/ \E r \in config.policies : DropPolicy(r)
    \/ Tick
    \/ \E p \in Replicas : config_cache_clear(p)
    \/ \E p \in Replicas, o \in Tenants, t \in Topics, i \in Rungs : Emit(p, o, t, i)

Spec == Init /\ [][Next]_routing

-----------------------------------------------------------------------------
(* Properties.                                                              *)

\* The cells of one tier, an org's own before the platform's, the newest of them.
Winner(cells) ==
    LET own == {r \in cells : r.org # Platform}
        ranked == IF own # {} THEN own ELSE cells
    IN  CHOOSE r \in ranked : \A q \in ranked : r.id >= q.id

\* The cells of a configuration that speak of an emit on a channel, and their tiers.
Cells(c, ch, o, t, i) == {r \in c.policies : /\ r.org \in {Platform, o} /\ r.channel = ch
                                             /\ r.topic \in {Every, t} /\ r.importance \in {Every, i}}
Both(cells) == {r \in cells : r.topic # Every /\ r.importance # Every}
OfTopic(cells) == {r \in cells : r.topic # Every /\ r.importance = Every}
OfImportance(cells) == {r \in cells : r.topic = Every /\ r.importance # Every}

\* The cell that resolve_channels and the model of a policy say decides: both coordinates
\* beat a topic alone, that beats an importance alone, and that beats none.
Documented(cells) ==
    Winner(IF Both(cells) # {} THEN Both(cells)
           ELSE IF OfTopic(cells) # {} THEN OfTopic(cells)
           ELSE IF OfImportance(cells) # {} THEN OfImportance(cells) ELSE cells)

\* The cells that may decide: that one, but where cells of a topic alone and of an importance
\* alone meet, the best of either.
Deciding(cells) ==
    IF Both(cells) = {} /\ OfTopic(cells) # {} /\ OfImportance(cells) # {}
    THEN {Winner(OfTopic(cells)), Winner(OfImportance(cells))} ELSE {Documented(cells)}

\* A channel is routed as a cell says, or as the catalogue says where there is no cell.
AsCell(channels, ch, r) ==
    /\ ch \in DOMAIN channels <=> r.enabled
    /\ ch \in DOMAIN channels => (channels[ch] <=> r.mandatory)
AsDefault(channels, ch, c, o, i) ==
    LET own == {r \in c.rungs : r.key = i /\ r.org = o}
        platform == {r \in c.rungs : r.key = i /\ r.org = Platform}
        rung == IF own # {} THEN own ELSE platform
    IN  /\ ch \in DOMAIN channels <=> (ch = InApp \/ \E r \in rung : r.emails)
        /\ ch \in DOMAIN channels => ~ channels[ch]

RoutedBy(channels, c, o, t, i) ==
    /\ DOMAIN channels \subseteq Routed
    /\ \A ch \in Routed :
        IF Cells(c, ch, o, t, i) = {} THEN AsDefault(channels, ch, c, o, i)
        ELSE \E r \in Deciding(Cells(c, ch, o, t, i)) : AsCell(channels, ch, r)

Moment(g, h) == [policies |-> g.config.policies, rungs |-> h.config.rungs]

\* Whatever a process has cached: an emit is never refused for a topic or a rung that
\* is in the table, and it is routed as the matrix of some moment of the last TTL
\* says, on the rungs of some moment of the last TTL, by the org's own rows and the
\* platform's.  Not said: which of a topic's and an importance's cells wins.
EmitsByRecentConfig ==
    emit.at = "emit" =>
        /\ emit.decided = "unknown_topic" => emit.topic \notin config.topics
        /\ emit.decided = "unknown_importance" => ~ \E r \in config.rungs : r.key = emit.importance
        /\ emit.decided = "routed" => \E g, h \in past :
              RoutedBy(emit.channels, Moment(g, h), emit.org, emit.topic, emit.importance)

-----------------------------------------------------------------------------
(* What the documentation says and the code does not do.                    *)

\* "both coordinates beat topic alone beats importance alone beats the all-NULL row"
\* (NotificationChannelPolicy, and the five steps of resolve_channels).
TopicBeatsImportance ==
    emit.at = "emit" /\ emit.decided = "routed" =>
        \E g, h \in past : \A ch \in Routed :
            LET cells == Cells(Moment(g, h), ch, emit.org, emit.topic, emit.importance)
            IN  cells # {} => AsCell(emit.channels, ch, Documented(cells))
=============================================================================
