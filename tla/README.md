# A TLA+ verification project for asas

asas is a monorepo of small Python packages (`src/packages/asas-*`) that host
applications compose: background jobs, notifications, an audit trail, approval
workflows, an agent loop, reference data, access rules, clients for Oracle and
Microsoft Graph, and so on. The packages share no runtime of their own. They
meet in three places: the host's database (each package owns its tables and
joins the host's transactions), in-process registries the host fills at
start-up (job handlers, channels, completion callbacks, tools), and asyncio
loops the host runs.

This directory holds TLA+ modules translated from the source, TLC
configurations that check them on small instances, and TLAPS proofs of the main
results for every value of the constants. `PROJECT.json` is the index: the
components, the runs, the map from every definition to the lines it stands for,
a mutant for every checked property, the hazards and the findings.

Run a check with `tlc -config JobsKeyed.cfg MCJobs`, a proof with
`tlapm JobRunner_proofs.tla`.


## 1. Inventory

### The components that carry concurrent or crash-prone logic

| Component | State it keeps | Operations | What makes it hard | What makes it correct |
|---|---|---|---|---|
| **asas-jobs** `queue.py`, `runner.py`, `scheduler.py` | `background_job` rows (status, attempts, claimant, lease, run_at, dedupe_key), `job_schedule` rows, each worker's pass and stop event | `enqueue`, `claim_next`, `mark_succeeded`, `mark_failed`, `reclaim_expired`, `tick_schedules`, `run_once`, `_execute`, `run_loop`, `request_stop` | several worker processes on one table; every primitive is one or more transactions; workers die; leases lapse under live handlers; graceful shutdown in mid-pass | one active job per idempotency key; a settle touches only the settler's own claim; attempts bound the claims; every job ends; a schedule never stacks and never loses a tick |
| **asas-notifications** `service.py`, `aio.py` | `notification` rows (the inbox), `notification_delivery` rows (the outbox), the routing matrix with its caches | `notify` (with coalescing), `dispatch_pending` and its asynchronous twin, `has_pending`, `mark_read`, `archive`, ... | passes overlap (after-commit hook, periodic job, other instances); the send happens between two transactions; passes die between claim and mark | one sender per row; duplicates only through a crash; an outcome is final; every row comes to rest; one live row per coalesce key |
| **asas-audit** `service.py`, `chain.py` | `audit_event` rows linked by hash, an advisory lock (Postgres) or a process mutex (SQLite) | `append`, `verify` | the append rides on the caller's transaction and the chain must be linear across transactions that commit in any order | the committed chain of a tenant verifies; no fork |
| **asas-workflow** `engine.py` | `process_instance`, `node_execution`, `node_assignee`, `node_decision`, `info_request` rows | `open_instance`, `decide`, `request_info`, `answer_info`, `cancel`, `retry`, `reassign` | concurrent requests on one instance, each with its own ORM copies; a walk that may fail half-way; reassignment during a vote | one active step; the instance runs exactly while a step waits; the owner's effect is applied once; quorum |
| **asas-oracle** `upstream.py`, `client.py`, `auth.py`, `cache.py`, `lookups.py` | a breaker per resource and one for the host, a read cache, an OAuth token, memoised lookups | `request`, `get`, `post`, `patch`, `allow`, `record`, `release`, token renewal, background refresh | coroutines interleave at every await; a request can be cancelled; outcomes arrive late | one probe at a time; a probe is given back; reads come back when the upstream does; a write is visible to the next read |
| **asas-agent** `loop.py` | the pending tool calls of a turn, the trace, budgets | `run_agent` | tool calls of one answer run concurrently, writes must be alone; cancellation; time-outs | writes overlap nothing; the trace keeps the issue order; budgets hold |
| **asas-lookups** `service.py`, `seeding.py`, `orm_seeding.py` | lookup types with a version, values of the platform and of orgs, labels, aliases, pointers | list with an ETag, create, update, deprecate, merge, aliases; two boot seeders, the org's copy of the template | a request reads the type before it writes it; every step of a boot is its own commit; replicas boot side by side | a 304 is true; orgs stay apart; a boot that ends has made good what earlier ones left |
| **asas-access** `mac.py`, `policy.py`, `actions.py`, `groups.py` | levels, markings, clearances; grant rows; groups; caches per process and per session | mandatory and discretionary checks, edits of every table, invalidation | caches are filled from a read that an invalidation may cross | classification only restricts; an org's edits change no other org; a right is earned by a grant or a role |
| **asas-search** `semantic.py`, `fts.py` | documents and vectors, a query vector cache per replica | `upsert`, `rebuild`, `embed_pending`, `configure`, queries | the provider call sits between the read and the write; writers race the rebuild | a vector belongs to the text it is stored with; the index is what the sources say |
| **asas-tenancy** | a context variable, a setting per connection, row level security switches | bind, pin, sweep engines, protect and migrate a table, the conformance checks | pooled connections are reused; migrations die | tenants stay apart on a protected table |
| **schema migrations** (every package with tables) | tables, the version table, the database's own constraints | create or adopt, upgrade, downgrade, placement in a schema | some DDL commits on the way; any boot may die | a boot that ends is at head; rows keep their meaning |
| **asas-llm** `prompts.py`, `runners.py` | a layered prompt cache with degraded reads | `get`, refresh, `ainvoke` | stale and failed refreshes | a published prompt is eventually used; a failed refresh never loses one |
| **asas-ratelimit** | a token bucket per key | `allow`, `_prune_locked` | threads share the buckets; clock read outside the lock | never more than burst + rate in a window |

### The components that are sequential or pure

**asas-validation** (field checks), **asas-storage** (object backends),
**asas-graph** (HTTP client), **asas-mcp** (server builder), **asas-cli**
(developer tooling), the response shapes and routers of every package, and the
repository's examples and scripts. `PROJECT.json` lists every one with its
reason.

### Interactions

- A host's request handler opens a database session, calls package functions,
  and commits. `audit.append`, `notify`, `enqueue` (with the caller's session)
  and the workflow's completion callbacks all ride on that transaction.
- A `run_loop` task per process runs jobs. The host usually registers
  `dispatch_pending` as a periodic job *and* as an after-commit hook, which is
  why passes overlap.
- The workflow engine emits events; the notifications bridge turns them into
  `notify` calls in the same session.
- Agent tools call the other packages; the Oracle client serves many coroutines
  of one loop.


## 2. What each module models

### `JobLifecycle`, `JobQueue`, `JobRunner` (asas-jobs)

`JobQueue` is the table and the primitives of `queue.py`; one database
transaction is one step. What a primitive reads in one transaction and uses in
a later one is a separate step: `enqueue` is `EnqueueLookup`, `EnqueueInsert`,
`EnqueueRelookup`; `mark_failed` is `MarkFailedRead` (the attempts) and
`MarkFailed` (the CAS). `JobRunner` EXTENDS it with the worker processes: `pc`
and `local` are where a worker is and its local variables, and a pass goes
`poll` -> `snapshot` -> `tick` -> `drain` -> `run` -> settle. `SkipLocked`
chooses the engine: on Postgres the candidate SELECT locks the row, on SQLite
the SELECT and the CAS are two steps and a CAS may miss. `Interrupted` is a
killed process or an exception that ends the pass; `Shutdown` is the
cancellation of `run_loop`, which lets a running pass stop at its next job
boundary.

Wall-clock time appears only in the two comparisons the code makes: `due[r]`
(`run_at <= now`) and `lapsed[r]` (`lease_expires_at < now`). Each may turn true
at any moment, so skewed clocks and leases that lapse under a live handler are
included. `worker_id()` tells live workers apart (a pid on a host), which the
code relies on. Cron arithmetic and backoff only decide *when* `due` becomes
true and are left out, as is `ensure_schedule`, a start-up write.

`JobLifecycle` is the abstract specification of a row: absent, queued, running,
then succeeded, failed or queued again, an attempt counted by each start and
never more than `max_attempts`. `RefinesLifecycle` says that all of the runner
implements it.

### `DeliveryOutbox` (asas-notifications)

The `notification_delivery` rows and the passes of `dispatch_pending`, with
`OpenPass` (stale sweep and batch read), `Claim` (the committed CAS), `Deliver`
(the adapter's send, outside any transaction), `Finish` (the mark, by id alone)
and `ClosePass`. A pass keeps the attempts it read with the batch, because
that is what `_finish` counts from. `Crash` is a killed process or a cancelled
asynchronous pass. `stale[r]` abstracts the age of a claim. With `SlowSends =
FALSE` a claim becomes stale only when its claimant is gone, which is what the
comment on `STALE_CLAIM_SECONDS` assumes; the proofs say which results do not
need it. `Notify` lets a producer's rows commit in any order.

### `AuditChain` (asas-audit)

The host's transactions, `append` split where it waits or reads (`Append`,
`LockChain`, `ReadTail`, `AddRow`), `Commit`, `Rollback`, and the failures a
wait may end in (`WaitFails`: Postgres' deadlock detector, SQLite's busy
timeout). On Postgres the advisory lock is held to the end of the transaction
and the row is flushed later, by the next append or the commit; on SQLite the
mutex is held until the flush and the database's writer lock from there.
`MCAudit` chooses the engine in the beginning of a behavior, so that one run has both.
`dirty` is a host change that waits to be flushed: flushing it in `ReadTail`
takes SQLite's writer lock before the tail is read. An entry's hash is its identity: hashing is taken to be
injective. Verification (`chain.verify_rows`) on rows nobody tampered with is
the invariant `ChainIntact`.

Assumed: READ COMMITTED on Postgres; SQLite in one process with the driver's
legacy transaction control. Not modelled: savepoints, the database triggers and
row-level security that keep rows immutable, tampering.

### `OracleBreaker` (asas-oracle)

`breaker[n]` for each resource and the host; a request is `SendGuarded`,
`SendUnguarded` or `Refused`, then one of the endings the client distinguishes
(`Answered`, `Unauthorized` with its one retry, `Outage`, `NoResponse`,
`NoVerdict` for a refused credential or a cancelled coroutine). Everything
between two awaits is one step, which is asyncio's guarantee. The order "host
first, then resource" and who hears which verdict are the code's. `CooldownEnds`
is the passing of time.

### `WorkflowEngine` (asas-workflow)

One instance of an arbitrary definition. The definition is a constant: node
types, the targets of conditional transitions (whose condition may or may not
hold) and the default. The nodes a walk
may come to are a least closed set (`Walk`), and `Stops` are its ends there: parked,
complete, in error; `After` is the same from a completed step. Both are inside one
transaction, as in `_run_from`.

A request is a database session: `Load` takes an ORM copy of the instance,
`LockActive` is the `SELECT ... FOR UPDATE` of `decide` and `request_info`,
and the operation's own action is its commit. `Flushed` writes only the columns
that differ from the copy, as the ORM does: two sessions that change different
columns do not disturb each other, two that change `data` do. `Racing` is the
set of operations the host lets overlap with each other; the others run alone.
`Refuse` is every early return, raised error and rollback.

Abstracted: process data is the set of results and answers it contains; asking
the same member twice about one activation is bounded away. Left out:
`allow_request_info = False`, delegation, the executions of nodes that complete
in the transaction that creates them, and the event callbacks.

### `AgentTurn` (asas-agent)

`run_agent`'s tool calls. A call is created by `Invoke`, which takes its index and
its place (`alone`, `beside`) before anything is awaited, as `invoke` does; it then
waits for the events its place names (`MyTurn`), and what it does between two awaits is
one step: `Denied`, `BadArguments`, `ActivateSkill`, `Dispatch` and the ways a
dispatched tool ends. `Ends` is the common end: the event is set and the trace
released up to the first call that has left nothing (`Upto`). `pc[i] = "ended"`
stands for the set event, which is never cleared.

The SDK around it is modelled as the code relies on it: it starts the calls of an
answer in order, goes back to the model when all have ended, and ends the run at the
first error. Whether and when it then cancels the other calls is left open
(`Cancel`), and the host may cancel the run at any time. The record is its revision:
a write makes the next one, a read returns the one it was dispatched on, and any
result may carry none. Left out: wording, arguments and versions in the trace, the
typed output and token usage.


### `Inbox`, `Routing` (asas-notifications)

`Inbox` is `notify` in the producer's transaction. `Notify(p, ...)` reads the live
rows it will fold into, `Commit(p)` writes the folds, the new rows and their
deliveries (`Write`), and other transactions commit in between. A recipient's operations
(`mark_read`, `archive`, `unarchive`, `mark_all_read`, `archive_read`) are one
UPDATE each and so one step. `left`, `back` and `born` are the event numbers at
which a row left the bell, came back and was inserted: `TwinsCrossed` uses them to
say that two live entries with one key have a crossing to show for it.

`Routing` has the topics, the importance catalogue and the policy cells that
administrators change (`SeedTopic`, `SaveRung`, `DropRung`, `AddPolicy`,
`DropPolicy`), the three caches of each process with their TTL (`Tick` is a second
of it) and `Emit`, which refuses an unknown axis or resolves the channels.
`resolve_channels` is the code's ranking of cells by the coordinates they name;
`Deciding` is the same decision written tier by tier, and `EmitsByRecentConfig`
compares the two against the configurations of the last TTL. Where a topic's cells and
an importance's meet it says nothing of which wins: that is `TopicBeatsImportance`,
what the documentation says and the run `routing_tiers` refutes.

### `NotificationsSchema`, `Placement`, `Adoption` (migrations)

`NotificationsSchema` runs the thirteen revisions of asas-notifications as the
code does: `db` is what is committed, `tx` what the running boot's transaction sees,
`Program` the steps, of which a revision has as many as the host's processes can come
between. `Transactional` is a step of the transaction, `Concurrent` a CONCURRENTLY
build, which commits what came before it, and `Die` may follow any step. The boot finds
nothing, any part of the baseline under its names, with a column missing, with one that
a later revision adds, with columns already renamed, the outbox alone, or indexes
of the host's own naming (`Found`).

The host writes rows with their deliveries, orphans, cells, topics and rungs of each
release's shape, also while a boot runs: a write then shows in both `db` and `tx` (READ
COMMITTED), and waits if the table is in `locks`, those that the transaction's DDL has
locked. From 0012 on a process of the older release may write a row without an org
(`late`), as 0012 expects. Between boots the host puts row level security on the
tenants' tables or on all of them, owner included, or lifts it (`Force`): then `Seen` and
`Rewritten` say that a revision's SQL neither reads nor changes what is there, but for
0012, which lifts FORCE itself. `Downgrade` goes one revision back unless it raises
(`UndoRaises`); `LoseVersion` is a partial restore. `wedged` records that a boot died
between 0004's first commit and its last, `misfit` that the baseline was stamped on a
table with a column more or less.

`Placement` is `migrate(schema=, tenant_guc=)`: the schema entered on the host's
own connection (`EnterSchema`), the chain as one step that may raise, the policies
(`Protect`) and the way back (`Leave`), over three calls on one pooled connection.

`Adoption` is the check that every package makes of a schema without a version
table. The baselines of the seven packages are data (`Packages`); the database is
found with any part of one, with renamed columns, or with a stranger's table.
`UpgradeTogether` is what follows the baseline up to head in one step; for notifications
that is where a table without a column that a later revision needs is reported, and
`NotificationsSchema` has the revision at which it raises.

### `LookupValues`, `LookupSeeding` (asas-lookups)

A request of `LookupValues` is `Begin` (the session reads the type row) and one
commit of the operation's own (`update_value`, `deprecate_value`, `add_alias`,
`remove_alias`, `merge_values`; `create_value` commits the row first and
`CreateTouches` later). The client asks with `If-None-Match` in two steps, the type
and then the values. `skewed` and `author` are history: versions written twice or
ahead of their content, the cases the property excepts.

`LookupSeeding` has a boot of either seeder commit by commit: `BootBegins` with
the file judged whole (`Loads`), `ensure_type`, one value after the other
(`InsertValue`, `HealValue`, `KeepValue`), `LinkPass`, `bump_version_if`.
`BootDies` may follow any of them; replicas seed different releases. An org's copy of
the template is one long transaction, `SeedingReads` with the type and the rows it will
copy and `seed_org_lookups` with its commit; an administrator's request is
`RequestReads` and `Edit` or `Supersede`. Each of the writers commits one more than the
version it loaded at its beginning, without a lock (`Writes`): where two had loaded the
same one, `unsure` has the versions that then stood for two lists.

### `Clearance`, `Permissions` (asas-access)

`mac_allows` and the operators of the discretionary engine are translated as
functions of the rows in force; the actions are the administrators' edits and
what fills and clears the caches. `Permissions` splits a cache fill into `Query`
and `Fill`, so that an invalidation may cross it. `Clearance` keeps the session's
stamps (`stampCache`) and the process's catalogs (`levelCache`), and compares
every check before and after every step. An edit of the catalog does not touch
`levelCache`: `Invalidate` is a step of its own, which follows a commit of this process
at any time and one of another process never.

### `SearchIndex` (asas-search)

`Write` is the host's transaction with its upsert. `Rebuild`, `Extract`, `Derive`
and `Built` are the rebuild's statements; a write that finds a row locked by it is
`blocked` and goes on in `Resume`. `SweepReads` reads a batch and the provider is
called outside any lock, `SweepSets` writes the vectors by document id. `configure`
exchanges the model of one replica.

### `OracleReads`, `OracleNames` (asas-oracle)

`OracleReads` follows a call through the client: the cache, the token with its lock
(`EnterLock`, `Fetched`, `FetchFails`), the upstream taking the request (`Taken`),
its answer, a 401 with the one retry (`Refused`), or no answer at all. `put`
moves the resource's version before the request and `put_returns` after it. The
version is a cache entry too: `VersionExpires` lets it read 0 again, once everything
stored before it was last moved has expired, and what is stored after that is kept under numbers that were
used before (`era`, `behind`). The `floor` of a read is what had returned when it began.

`OracleNames` is `names`/`positions`/`people` for one id: memory, the shared store
with its two kinds, asking, and the background refresh (`Ask`, `WriteKind`,
`Keeps`). Ages are two facts, expired or not; answers age in the order written.

### `ProcessDefinitions`, `ProcessGraphs` (asas-workflow)

`ProcessDefinitions` has overlapping seeders (`ensure_definition`, `Validate`,
`Publish`), bindings of subjects to variants and `open_instance` on what
`resolve_definition` answers. `ProcessGraphs` declares a specification transition
by transition, judges it with `validate_definition`, and walks what is accepted:
`Finish` closes a node with any verdict, and conditions may hold or not at each
reading.

### `TenantIsolation` (asas-tenancy)

One table of the host. `context` is the context variable with its reset tokens,
`conn` a connection of the pool with the setting as the transaction sees it, as
last committed, and transaction-local. `BeginUnit` is the listener that pins the
tenant, `Connect` the one a sweep's engine uses, `EndUnit` commits or rolls back.
A migration is a `Program` of statements, in one transaction or committing each;
it `Finish`es, its block `Raises`, or its process `Dies`. `vowed` is history: the
table was protected and no half-done migration touched it. `SeenIn` is what
Postgres' row level security lets a role see, modelled from the policies the code
writes; a policy that somebody else wrote, and wrongly, is not there. An insert and its
commit are one step: a row inserted before an autocommit UPDATE and committed after it
is not in the model.

### The modules that share a run

The components of `MCNotifications`, `MCPlatform` and `MCSmall` (outbox, breaker and
agent turn, with their fairness) share no state, so one run can
hold them: a behavior chooses its `part` in the beginning and is then a behavior of
that component's module, while the variables of the others are "off". The state
spaces add up instead of multiplying, and setting `Parts` to one name checks one
component alone. Each property there is `part = "..." => ` the property of the component's
module, where it is explained. What a component takes for granted of its constants
is named there too and assumed (`LookupsAssumption` and its like); TLC evaluates it
on the values of the cfg, the proofs use nothing else of them. The outbox, the breaker
and the agent turn are proved about in their own modules, without the composition.


## 3. The runs

| Run | Instance | What it shows |
|---|---|---|
| `jobs_keyed` | SQLite; 2 racing `enqueue` calls on one key, 2 workers, 1 kill, 1 shutdown | the key is unique among active rows, a running row is its claimant's, a clean shutdown leaves nothing behind, the table implements `JobLifecycle` |
| `jobs_live` | Postgres; a `no_overlap` schedule that fires twice, 2 workers, 1 kill, 1 shutdown | no stacking and never more jobs than ticks; every job ends and every due schedule is ticked |
| `small` | the outbox: 2 rows, 2 passes, limits 1 and 2, 2 attempts, 1 crash; the breaker: 3 callers, 2 resources, every outcome; the agent turn: 3 tools (a read, a write, the question), 2 skills, a budget of 3 and 4 calls, errors and cancellation anywhere | duplicates only by a crash, no row lost between "pending" and "no attempts left", every row settles; one probe at a time, reads come back unless the host's probe was left claimed; writes overlap nothing, a call finds the skill issued before it, every call ends |
| `audit` | 3 transactions, 4 entries; on Postgres 2 tenants of which one is new, on SQLite one founded tenant | the chain is linear and grows at its end, every transaction ends |
| `audit_genesis_fork` | 2 transactions on an empty SQLite chain | **violated**: two first entries, both with a NULL link |
| `breaker_stuck_host` | 2 callers, 2 resources | **violated**: the host's probe is left claimed and reads never come back |
| `workflow` | 6 nodes with a branch, a loop, a failing handler and a missing transition; 3 members, 2 sessions | one active step, running exactly while it is parked at one, the effect applied once |
| `workflow_double_answer` | two answers overlap | **violated**: both resume the walk |
| `notifications` | the inbox, the routing matrix, the migration chain, its placement, and adoption in every package | twins only by a crossing, an emit reaches each recipient once and disturbs nobody else, it is routed by a recent configuration; boots reach head or fail for one of five reasons, and keep the meaning of rows but in the cases named, schemas are left as asked, exactly a whole baseline is adopted |
| `routing_tiers` | the routing matrix of `notifications`, alone | **violated**: an importance's cell decides over a topic's |
| `platform_config` | lookups and seeding, clearances and permissions, process definitions and graphs | see the next table |
| `platform_data` | the search index, Oracle's reads and names, tenants | see the next table |

| Property of `platform_config`, `platform_data` | What it says |
|---|---|
| `NotModifiedIsTrue`, `OthersSeeNothing` | a 304 is true unless writers overlapped; a request changes nothing for another org |
| `BootsLeaveItWhole` | a boot that ends has every value of its file, clients that revalidate hold the list but under versions that two writers gave, an org's copies point at its own rows |
| `RestrictsOnly`, `EditsStayInTheirOrg`, `RightsAreEarned` | classification never shows more, whenever the process comes to know of an edit, but in the cases named; edits of one org answer nobody of another differently; a right comes from a role, a grant or a relationship, and stale caches are owed to somebody |
| `IndexMatchesItsSources` | vectors are of their text and the index is of its rows, but for the races named in it; hits are of the caller's org |
| `WritesAreSeen`, `RefreshedFromOracle` | a read after a returned write shows it, but from an entry older than the version's last expiry, and a write lands once, resent or not; a refresh never saves again the answer it was to replace |
| `OpensOnTheNewestVariant`, `AcceptedGraphsFinish` | an instance opens on the newest active version of the variant bound; a walk of a definition that validates is never shut in nodes that lead to no end, approvals aside, where a person decides |
| `TenantsStayApart` | pins, sweeps and migrations keep tenants apart on a protected table, data migrations miss no row, the conformance kit passes only then |

### Bounds, and why they are enough

- Two workers (passes, sessions) show every race between two claimants, and the
  code has no step in which three must meet. Three transactions in the audit
  runs are needed for a deadlock cycle beside a bystander, and three breaker
  callers for two requests on one resource beside another resource.
- `MaxAttempts = 2` (`MAX_ATTEMPTS = 2`) has a first, a retried and a last
  attempt. `PassBudget = 1` makes the budget bite at once. `ClaimTries = 2` has
  a missed and a repeated CAS; the code's own constants are larger and only
  repeat that.
- `MaxKills`, `MaxStops`, `MaxCrashes` = 1 put a crash between any two steps. A
  second crash repeats the first at another place; the theorems have no such
  bound for the safety properties.
- `MaxTicks = 2` and two tick rows are two firings, the least that can stack.
- `MaxEvents = 4` is two entries for one transaction plus one for the others.
- `MaxExecutions = 3` is the review, its clarification, and the second review
  (the loop), or review, signoff, and the retried signoff; `Consulted = {ini}`
  has one member asked by an approver and the standalone step asks others.
  The final verdicts, the reassignment and the loop are all reached.
- Four calls with a budget of 3 (agent turn): a write and reads on both sides of
  it, and a call over the budget, which takes a place and ends at once. The proofs
  have no such bounds.
- `notifications`: two emits that cross need two producers, two recipients tell a
  folded row from a new one, and two orgs show that a recipient's mark stays in one;
  two marks are the archive and the unarchive. Two topics and rungs are the general
  one and another; a TTL of one tick and one tick are a fresh and a stale cache. Two
  admin writes and a crash between the revisions put a row of each shape before and inside
  each revision and a second boot after a broken one, one downgrade undoes each revision
  from 0012 to 0007 over them; two orgs can disagree about a rung; the chain itself is the
  code's thirteen revisions. Three placement calls are one before, one that fails,
  one after. Adoption starts from every state that may be found.
- `platform_config`, `platform_data`: two requests (readers, seeders, replicas) that overlap, on one
  code, of which the platform and two orgs may each have a row; the seeder has two
  codes, because values point at each other, and two orgs that copy the template beside
  a boot or an edit: three beginnings are two writers that load one version and a third
  that takes it further. Three edits are two of the catalog and one that classifies. Two texts, models and a sweep of each of two replicas show a
  stale vector; one rebuild races two writes. One write races two reads, each of which
  is made again; of two tokens the first is refused, with a write resent under the second;
  the version expires once.
  Four definition rows are two versions of two variants. Every graph over two inner
  nodes and four transitions is declared, which has each shape of dead end, cycle
  and missing default. One migration, two tenants and one pooled connection that is
  reused. The theorems of section 4 have none of these bounds.
- Symmetry is used over users, orgs and producers (`notifications`, whose other
  parts do not tell them apart), over replicas, tenants and owners (`platform_config`),
  replicas and asks (`platform_data`), workers (`jobs_keyed`) and sessions (`workflow`), in
  runs without liveness.
- `CHECK_DEADLOCK FALSE` where the system may really stop: all rows settled
  and all bounds used up (`small`), all transactions ended (audit), all bounds used up
  (`notifications`, `platform_config`, `platform_data`). The breaker's callers may
  all be refused for good, which is what `breaker_stuck_host` shows.

### Fairness

- *Jobs*: a worker that is down is started again and no handler hangs, every
  call of `enqueue` goes on, and leases lapse (weak fairness on each). Killing
  and stopping are bounded, schedules need not come due: no fairness on them.
- *Outbox*: the host runs a pass while `has_pending` says so, adapters return,
  abandoned claims age. New rows are not promised.
- *Audit*: the host ends its transactions by a commit; a wait for a lock that
  cannot be granted ends (deadlock detector, busy timeout). Rollbacks are not
  promised.
- *Breaker*: cooldowns end, requests end, callers keep reading. Nothing else:
  not that the upstream recovers, only what follows if it does.
- *Agent*: the loop runs every call that can go on, and tools return or raise.
  The model and the SDK promise nothing.
- *Workflow*, `notifications`, `platform_config` and `platform_data`: none. People decide when they like,
  boots and sweeps happen when the host lets them, and no liveness is claimed.


## 4. What is proved

Every theorem holds for all values of the constants under the named
assumptions of its module, which TLC evaluates in the runs. They are those of the
jobs (`NamesAssumption`, `MaxAttemptsAssumption`, `RunnerAssumption`), the outbox
(`OutboxAssumption`), the audit chain (`ChainAssumption`), the breaker
(`BreakerAssumption`), the agent (`AgentAssumption`), the workflow
(`DefinitionAssumption`, `PeopleAssumption`), and one for each part of the two
modules that share a run. Most say that a name with a meaning of its own ("nobody",
"no org", the end of a graph) is not also a name of something else;
`GraphsAssumption` and `InboxAssumption` add that nodes and users are finitely many,
`SpecsAssumption` that a spec has a key, a purpose and a type, `SeedingAssumption` that
a file's values are a list, `ClearanceAssumption`
that ranks are numbers, `MatrixAssumption` that the time to live is one and that the
two seeded rungs are different rungs.

- **`JobRunner_proofs`**: `TypeCorrect`, `AttemptsTheorem` (`AttemptsBounded`,
  any number of workers, kills and lapses), `LineageTheorem`,
  `SuccessTheorem`, `SettleTheorem`, `TerminalTheorem` and
  `RefinementTheorem`. The inductive invariant joins the types with: `HasJob`
  (a worker past its claim query has a row, and the row a budget left to claim
  from), `VerdictHolds` (what `mark_failed` read still fits while the row is its
  own), `ClaimLineage` itself (a running row that names this worker is at the
  attempt this worker claimed) and `OkWasRun` (a worker about to mark success has
  committed). `ClaimLineage` is what makes the claimant CAS sufficient: the claimant's
  name does not change without the attempt number growing. Refinement follows step by step:
  each transaction maps to one `RowNext` of the rows it touches.
- **`DeliveryOutbox_proofs`**: `RetryableTheorem` needs no timing assumption:
  every status written comes with attempts from a batch entry that had one
  left. `OneSenderTheorem`, `DuplicatesTheorem` and `FinalTheorem` hold under
  `~ SlowSends`: the invariant says that a row in hand is "sending" with a
  fresh claim, so that neither the sweep nor another CAS can take it; a row
  accepted once per crash so far plus one is finished or about to be.
- **`AuditChain_proofs`**: `IntactTheorem` and `ExtendTheorem` (on Postgres, and on
  SQLite when every tenant's chain is founded; without that they are false, as
  `audit_genesis_fork` shows), `FreshTheorem` (on Postgres; on SQLite a tail does
  go stale). On Postgres the invariant `IInv` has the lock discipline (an
  append, and a transaction with entries, holds the tenant's lock), and relates
  each link to what its transaction saw: flushed entries link to the newest
  entry before them, an unflushed one to the newest visible, committed entries of a
  tenant are numbered below every live one's. That a transaction's unflushed
  entry is flushed before the next tail read is where the proof uses
  `ReadTail`'s flush. On SQLite `IInvSQLite` has the engine's writer in the
  lock's place: every uncommitted row is the writer's, one transaction is in the
  mutex, and a tail read there is still the newest visible entry or a committed
  entry has built on it (`Overtaken`), which the unique index then refuses. The
  commit is the hard step: the oldest row of the committing transaction links to
  the very tail that the transaction in the mutex has read.
- **`OracleBreaker_proofs`**: `TypeCorrect` (a claimed probe is half-open),
  `ProbeTheorem`, and `OneProbeTheorem` as long as no request ended without a
  verdict: such an ending gives back a claim that may be another request's, which
  the model shows lets a second probe out.

- **`AgentTurn_proofs`**: `InTurnTheorem`, `SkillTheorem`, `RecordTheorem`. A
  call waits only for the last call that runs alone and the reads since, not for
  all earlier ones; the invariant says why that is enough. `Places`: the calls after
  `alone` are reads, and the live ones are in `beside`. `Waiting`: a waiting call
  waits for each live call it must not overlap, or for a call in between that runs alone.
  `Passed`: a call that had its turn has no live call before it that it must be kept
  apart from; a call that ended without its turn was over the budget, and so is
  every later one, or cancelled, and then nobody takes a turn any more. That is
  where the `finally` that sets the event of a call that never ran is shown harmless.

- **`JobRunner_proofs`, exclusion**: `KeyTheorem` (`OneActivePerKey`),
  `StackingTheorem` (`NoStacking`) and `ShutdownTheorem` (`ShutdownIsClean`), over
  the same invariant. `UInv` says that no two active rows share a key
  or a schedule that may not overlap, and that a schedule has at most as many rows as
  it had ticks. Only an insert can break it, and an insert looks for a conflict in the
  same step; retries and reclaims activate no row that was not active. `Held` says
  that, while nobody was killed, a running row whose lease holds has its claimant at it.
  Here most of the proof is in the settles, which give a row up and so must have
  changed its status.
- **`WorkflowEngine_proofs`**: `OneActiveNodeTheorem`, `RunningIffParkedTheorem` and
  `EffectOnceTheorem`, for any definition, any people and any number of sessions, under
  the hypothesis `Overlaps`: what the host lets overlap are decisions and questions,
  which take locks. It stays a hypothesis because the code does not grant it:
  `answer_info` takes none, and `workflow_double_answer` is the run in which two
  answers overlap. What keeps overlapping verdicts apart is `LockTaken`: a request acts
  on the executions it has locked, and until it commits those are all the active ones;
  its copy of the instance may be older, but says "running", which is what the row says
  while a step is active.
- **`Notifications_proofs`**: `TwinsTheorem`, `EmitsTheorem`, `RoutedTheorem`,
  `PlacedTheorem` and `AdoptionTheorem`. `InboxIInv` holds what an emit knows between its reads and its
  commit: a row it will fold into has left the inbox, if it has, since the emit looked,
  and where it found nothing to fold into, whatever is live by now came since
  (`Held`); after the commit the same is said of the row it inserted (`LiveCameSince`).
  `RoutingIInv` says that an entry that is fresh is what one of the configurations kept
  in `past` held when it was as young, which a tick preserves because entries and
  configurations grow old together; `ResolvesByTiers` shows that the code's ranking
  of cells picks what the tiers (both coordinates, one, none) do, since ids are never given twice (`Numbered`).
  `PlacementIInv` follows the host's connection through a call: a table is protected
  by the time the path is handed back, whichever step raises. `AdoptionIInv`: a schema
  that is stamped, or about to be, is whole.
- **`Platform_proofs`**: twelve theorems, about every part of `MCPlatform`. A
  step of the composition is a step of its part and leaves `part` alone (`PartKept`
  and the `...Steps` lemmas), so each theorem needs an invariant of its component only.
  - *Lookups* (`NotModifiedTheorem`, `OthersTheorem`): `LookupsIInv` numbers the rows,
    bounds the versions that clients and sessions know, and says that a session between
    the two commits of `create_value` is at a row of its own org. That no answer of
    another org changes is shown once for any two tables that agree on what an org
    sees (`AnswersBySight`); a commit is then only shown to leave that alone.
  - *Seeding* (`SeedingTheorem`): rows gain and never lose (`Onward`, `Later`): nobody
    takes a label, meta or pointer back or a row away. So what a boot has found or made
    good stays so whoever writes beside it (`BootOnward`), and `BootSound` need only say
    how far it is: the values it has passed are `Filled`, at the links all have their
    rows, at the version all are `Complete`. `VersionsSound`: a boot, a request or an org's
    seeding that writes one more than the version it loaded may set the version back behind
    a client's, and then every version in between is unsure; `PendingSound` is what the
    requests and seedings under way have loaded. `Homely`: a pointer is to a row of the owner,
    which the rows' ids and owners, never changing, preserve; a copy's pointers are among
    the rows the org has or is being given.
  - *Search index* (`IndexTheorem`): `IndexIInv` says that ids are given once across
    the committed and the rebuilt documents (`WrittenSound`), that a sweep's batch and
    vectors are of texts that their ids keep (`SweepSound`), and that an open rebuild has
    made, of the sources it is done with, what it read, while documents it is not doomed
    to delete are of sources written since (`BuildSound`).
  - *Clearances* (`RestrictsTheorem`): `MacIInv` says that a code is in a catalog once,
    in the table's and in any the process may have kept, and that the stamps kept were made.
    `Shown` is the check as a function of what it reads; `StruckLevel` and
    `AnyLevelPasses` are the arithmetic of ranks, and show that the exceptions the property
    names are the only ones, whatever the kept catalog and the table's have come to differ by.
  - *Permissions* (`RightsTheorem`, `EditsTheorem`): `GrantsIInv` says that no group
    goes by a reserved principal and that a cache is the table, or owed its
    invalidation, or was filled across one.
  - *Oracle reads* (`WritesTheorem`). `CacheCurrent`: an entry kept under the current
    version, with a key made since that version last expired, holds every write that has
    returned. It is inductive only together with
    `Reading`: a read that will keep its body under a version that is still current
    was taken by the upstream after all writes that have returned by now, because a
    returning write moves the version once more. `Landing` is why the retry after a 401
    lands no write twice: a refused request was not taken.
  - *Oracle names* (`RefreshTheorem`): `NamesIInv` says that what a task is about to
    write is of the change it began at or a later one.
  - *Definitions* (`OpensTheorem`): `DefinitionsIInv` says that versions of a key are
    given out in order with none left out, also to a replica about to write, and that
    the last one given is active.
  - *Graphs* (`GraphsTheorem`): `GraphsIInv` says that a graph that is walked was
    accepted. The closure that validation computes is shown to hold its seeds, to be
    closed, and to stay in every closed set that holds them; the rounds of its recursive
    function are reached by a least-number argument (`LeastNatural`).
  - *Tenants* (`TenantsTheorem`). `PinInv` says what a
    connection's setting is between and during units: a sweep's is its tenant, committed
    or rolled back; the application's is never a tenant's outside a transaction.
    `Protecting` and `VowKept` follow the switches through a migration. `RowsInv` says
    that a data migration under way has reached every row, and that in a transaction it
    holds the table's lock, so that no unit adds a row it missed.

Some theorems
are of properties that no run checks any more, because a listed run checks what they
were steps to: `AttemptsTheorem`, `SuccessTheorem`, `SettleTheorem`,
`TerminalTheorem`, `OneSenderTheorem`, `FinalTheorem`, `FreshTheorem`,
`ProbeTheorem` and `RecordTheorem`.

### Only model-checked

- Liveness (`EveryJobEnds`, `DueScheduleTicks`, `EveryRowSettles`, `EveryTxnEnds`,
  `ReadsComeBackUnlessStuck`, `EveryCallEnds`) is out of the prover's reach.
- The audit chain on SQLite for a tenant without entries, where it forks.
- The migration chain of asas-notifications (`BootsReachHead`, `MigrationsKeepMeaning`):
  twenty-four steps crossed with the host's writes, checked to the bounds of section 3.


## 5. Divergences found

Checked by the violation runs and described in `PROJECT.json` "findings":
the genesis fork on SQLite, the host's stuck probe, the double answer and the tiers of the
routing matrix.

Seen in the models and not given a run of their own:

- The loser of a keyed `enqueue` race raises its `IntegrityError` when the winner has
  finished before the loser looks again (`EnqueueRelookup`); the docstring says
  "loser returns the winner" (`queue.py` 55-56).
- "AskPending ends the run at the question" (`loop.py` 310), but its `finally` sets the
  event first: a call that waited for the question is dispatched before the SDK
  can cancel it (`AskPending`, then `Dispatch`).
- On SQLite the claim's CAS tests the status alone, so a row re-queued with a
  later `run_at` between SELECT and CAS is run early.
- A lease is not renewed: a handler that outlives it runs beside its
  replacement, also for a `no_overlap` schedule. `models.py` calls this
  cooperative; the models include it.
- A send slower than `STALE_CLAIM_SECONDS` is sent twice, and the later mark
  wins (`SlowSends = TRUE`).
- Two overlapping passes may count two failures as the same attempt, so a row
  may be sent more than `MAX_ATTEMPTS` times: the claim tests the status, not
  the attempts read.
- On SQLite, with a founded chain, a stale tail becomes the loser's
  `IntegrityError`, as designed.
- `cancel` and `answer_info` take no lock: overlapping with a `decide` they leave
  a step active in a canceled instance, or overwrite each other's data. Two
  overlapping `retry` calls activate the node twice. `retry` after a missing
  transition asks again about a step already decided. `reassign` accepts the
  initiator, and a member who has already voted.


- Workflow: `decide` rewrites `instance.data` from a stale copy (`engine.py` 556), so
  of two decisions on different steps one result is lost; `models.py` 185-186 calls
  `data` what later steps read. Overlapping seeders of different releases may
  leave two active versions; a default variant may be republished with another
  entity type without its variants being checked; the comment in validation says
  an approval's positive path "must still be covered", but an approval with only
  conditional transitions is accepted.
- Inbox: two concurrent emits both find no live row and both insert; an emit folds
  into a row that was archived after it was read; an unarchive makes a second live
  row; two folds of one row lose one body.
- Migrations of asas-notifications: 0007 keeps a cell that named both urgency and
  nature and drops the nature, so the rule widens; behind a host's forced policy on
  the configuration tables it also keeps one that named a nature only, which from then
  on is the org's default for everything, against 0007's own "deleted, not widened" (86).
  A row that the host's forced policy hid
  from 0009 stays "normal" and changes its default once 0010 has retired the rung and the
  policy is lifted. 0009 176 says this is the only way a row keeps the rung, but a process
  of the older release may write one between the fold and the ALTER of the same
  transaction. 0009's warning counts under the policy that hid the rows and never warns.
  Under the policy 0010's downgrade does not "do nothing" (172): where a hidden row has a
  key longer than six characters, narrowing the column raises, and 0008's raises at SET NOT
  NULL. 0010's downgrade folds an org's rows by the platform's rung though the org's own row
  decided otherwise.
- The same chain: 0005 and 0011 delete all but the newest platform topic of a key and
  then build a unique index, which raises where another was written in between or the
  policy hid the topics from the DELETE. 0004's first autocommit block
  commits the column renames before its version is recorded, and a death in its index
  builds, or a deadlock with a writer, wedges every later boot. `migrate.py` says of a
  partial schema "a shape no shipped schema ever has", but 0004 to 0008 are exactly that;
  it says that extra columns are fine (86), but `archived_at` or `action` makes 0002 or 0004
  raise on a table it has stamped, and so does a missing `category` or `reason`, which its
  check does not ask for; with the outbox alone the baseline itself raises. A version table
  lost at 0002 or 0003 is stamped and then wedges; the messages for a half-renamed schema
  print `{{...}}` literally.
- Adoption: the second revision of asas-access creates tables unconditionally and
  fails where they stand (that of asas-lookups resumes). On SQLite a death inside the
  baseline leaves tables with an empty version table, and every later boot fails. The
  audit package adopts a table whose append-only trigger is missing.
- Classification: striking the lowest level raises everyone without one of their
  own; a failing clearance source gives a subject whose own level is gone the lowest
  rank; a subject's level is looked up in the catalog of the record's org. The level catalog
  is never read again after another process's edit, and this process's own invalidation
  shows that edit too. A record without an org that is stamped in one org is shown, also
  to the anonymous, when the caller names another (`mac.py` 167-175).
- Permissions: the reference host's `_is_assignee(session, user, record)`
  (`wiring/access.py` 99) is not the contract's `fn(user, record, session)`; a host's
  relationship principals are not reserved from group keys; a row of another
  org can make `redact_view` raise; a cache filled across an invalidation stays stale.
- Lookups: `_touch_type` writes the version it read plus one, so overlapping writers
  give one version to two contents and a 304 is stale; so does an edit, or another org's
  seeding, that falls within the transaction of `seed_org_lookups`, against the comment at
  its increment (`seeding.py` 201-203); `create_value` commits the
  row before its labels and its version; a boot that dies before its bump never
  bumps; a value healed in a boot gets its meta only in the next (`seeding.py`
  392); the ORM seeder neither minds the scope nor heals nor tops up.
- Oracle: a resource's version expires a day, or the longest time to live, after its last
  write and counts from 0 again. An entry of that lifetime that was stored after that write,
  by a read begun before it or under a number that comes up again, answers once more,
  against `CachePolicy`'s "every cached read goes stale at once" (`EveryReadGoesStale`,
  not a run of its own). A write that raised after it landed leaves older cached reads; a late 401
  drops a newer token; a stale name put in memory lives there for another TTL, and an
  empty refresh does not clear it; `positions` judges freshness by the age of the
  name alone, and `names("position")` renews the name alone, against
  `store.py` 13-15.
- Search: a rebuild that races writers leaves phantom or stale documents, or fails
  the writer on the unique key, though the wiring says that re-running is safe;
  replicas with different models embed each other's rows for ever; a sweep reads its
  provider's name again when it writes.
- Tenancy: `without_force` calls both its paths safe, but outside a transaction a
  killed process, or a restore that fails quietly, leaves FORCE off, and while it is
  lifted the owner's own traffic sees every tenant; it also sets FORCE on a table
  that had none. `add_tenant_scoped_column` drops its default on SQLite, which has no
  such statement. `assert_isolated` reports a leak on a table with shared rows, and
  `assert_unpinned_sees_nothing` passes on an empty table. A `tenant_scope` inside an
  open transaction does not change the pin.


## 6. Not modelled

`PROJECT.json` gives the reason for each component. In short: generators, request
builders and formatting; routers and response shapes; single-transaction CRUD guarded
by unique constraints; pure libraries of checks (asas-validation, the token bucket
of asas-ratelimit as one process sees it); backends whose semantics are a provider's
(asas-storage, asas-graph, asas-llm, asas-mcp); the file store of agent releases;
the developer tooling and the examples.


## 7. Plan

Done: jobs with the abstract `JobLifecycle`, outbox, audit chain, breaker, workflow
engine, agent turn, inbox, routing, migrations, lookups, access, search, the Oracle
client's reads and names, process definitions, tenancy; the proofs of section 4.

To come, most important first:

1. The prompt store of asas-llm (layers, TTL, degraded reads) and the release files
   of asas-agent.
2. Operators against reference definitions over bounded inputs: the token bucket, the
   checks of asas-validation, `verify_rows` on tampered rows.

Where two components meet in the host's transaction (jobs and outbox, workflow and
notifications), the composition adds no new interleaving as long as each side's steps
are transactions. Where they share rows, as the inbox and the outbox do, one inserts
what the other only updates.
