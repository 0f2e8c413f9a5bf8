----------------------------- MODULE AuditChain -----------------------------
(***************************************************************************)
(* The per-tenant hash chain of asas-audit: append puts an entry on the    *)
(* caller's own transaction, chained to the newest entry that transaction  *)
(* sees; the caller commits it with the change it records.  On Postgres an *)
(* advisory lock is held from the tail read to the end of the transaction; *)
(* on SQLite a process-wide mutex is held until the flush, and the engine's*)
(* writer lock from the first write to the end of the transaction.         *)
(*                                                                         *)
(* An entry's hash is abstracted to its identity: no two entries hash      *)
(* alike, and the hash names the entry it was computed for.  Hash 0 is the *)
(* newest entry a founded tenant had at the start, and NULL for the others.*)
(***************************************************************************)
EXTENDS Naturals, FiniteSets

CONSTANTS
    Txns,       \* the transactions of the host
    Orgs,       \* tenants
    Founded,    \* the tenants whose chain has entries already
    MaxEvents,  \* bound: entries appended in all
    Postgres,   \* the engine: Postgres, or SQLite in one process
    None        \* nobody

Events == 1 .. MaxEvents

ASSUME ChainAssumption ==
    /\ Founded \subseteq Orgs
    /\ MaxEvents \in Nat
    /\ Postgres \in BOOLEAN
    /\ None \notin Txns /\ None \notin Orgs

VARIABLES
    pc,         \* where each transaction is
    target,     \* the tenant of the append it is in
    tail,       \* the hash that append read as its tail
    dirty,      \* has the session changes of its own, not flushed yet?
    entries,    \* number of AuditEvent objects made
    org, owner, hash_prev,   \* each entry's tenant, transaction and link
    seq,        \* the sequence number of an inserted entry, 0 before
    last_seq,   \* the last sequence number the database gave out
    advisory,   \* Postgres: holder of each tenant's advisory lock
    mutex,      \* SQLite: holder of _SQLITE_APPEND_MUTEX
    writer      \* SQLite: the transaction that has begun to write

rowVars == <<entries, org, owner, hash_prev, seq, last_seq>>
lockVars == <<advisory, mutex, writer>>
vars == <<pc, target, tail, dirty, rowVars, lockVars>>

Live == {"open", "lock", "tail", "insert"}

TypeOK ==
    /\ pc \in [Txns -> Live \cup {"new", "committed", "aborted"}]
    /\ target \in [Txns -> Orgs \cup {None}]
    /\ tail \in [Txns -> Events \cup {0}]
    /\ dirty \in [Txns -> BOOLEAN]
    /\ entries \in 0 .. MaxEvents
    /\ org \in [Events -> Orgs \cup {None}]
    /\ owner \in [Events -> Txns \cup {None}]
    /\ hash_prev \in [Events -> Events \cup {0}]
    /\ seq \in [Events -> 0 .. last_seq]
    /\ last_seq \in Nat
    /\ advisory \in [Orgs -> {t \in Txns : pc[t] \in Live} \cup {None}]
    /\ mutex \in {t \in Txns : pc[t] \in {"tail", "insert"}} \cup {None}
    /\ writer \in {t \in Txns : pc[t] \in Live} \cup {None}

Init ==
    /\ pc = [t \in Txns |-> "new"]
    /\ target = [t \in Txns |-> None]
    /\ tail = [t \in Txns |-> 0]
    /\ dirty = [t \in Txns |-> FALSE]
    /\ entries = 0
    /\ org = [e \in Events |-> None]
    /\ owner = [e \in Events |-> None]
    /\ hash_prev = [e \in Events |-> 0]
    /\ seq = [e \in Events |-> 0]
    /\ last_seq = 0
    /\ advisory = [o \in Orgs |-> None]
    /\ mutex = None
    /\ writer = None

-----------------------------------------------------------------------------
(* The table.                                                               *)

Rows(o) == {e \in Events : seq[e] > 0 /\ org[e] = o}
CommittedRows(o) == {e \in Rows(o) : pc[owner[e]] = "committed"}
Visible(t, o) == {e \in Rows(o) : owner[e] = t \/ pc[owner[e]] = "committed"}

\* p is the hash _tail's query finds among the rows S: that of the newest row.
IsTail(p, S) ==
    \/ S = {} /\ p = 0
    \/ p \in S /\ \A e \in S : seq[e] <= seq[p]

\* Mutant: no unique index.
ClashesNever(o, p) == FALSE
\* The unique index on (org_id, hash_prev), under which NULLs are distinct.
Clashes(o, p) ==
    /\ p # 0 \/ o \in Founded
    /\ \E d \in CommittedRows(o) : hash_prev[d] = p

\* The entry a transaction has added to its session but not flushed.
Unflushed(t) == {e \in Events : owner[e] = t /\ seq[e] = 0}

\* session.flush() inserts it; the database numbers the row.
Flush(t) ==
    IF Unflushed(t) = {} THEN UNCHANGED <<seq, last_seq>>
    ELSE /\ last_seq' = last_seq + 1
         /\ seq' = [e \in Events |-> IF e \in Unflushed(t) THEN last_seq + 1 ELSE seq[e]]

FlushClashes(t) == \E e \in Unflushed(t) : Clashes(org[e], hash_prev[e])

\* SQLite lets one transaction write; the others wait until it has ended.
MayWrite(t) == Postgres \/ writer \in {None, t}
Writes(t) == writer' = IF Postgres THEN None ELSE t

-----------------------------------------------------------------------------
(* The ends of a transaction.                                               *)

\* Mutant: the mutex is not released on an exception.
MutexStays(t) == mutex
\* The mutex of append is held by a with statement.
MutexAfter(t) == IF mutex = t THEN None ELSE mutex

\* The advisory lock is the transaction's.
AdvisoryAfter(t) == [o \in Orgs |-> IF advisory[o] = t THEN None ELSE advisory[o]]

End(t, how) ==
    /\ pc' = [pc EXCEPT ![t] = how]
    /\ target' = [target EXCEPT ![t] = None]
    /\ tail' = [tail EXCEPT ![t] = 0]
    /\ dirty' = [dirty EXCEPT ![t] = FALSE]
    /\ advisory' = AdvisoryAfter(t)
    /\ mutex' = MutexAfter(t)
    /\ writer' = IF writer = t THEN None ELSE writer

\* The host rolls back, or the connection dies, also in the middle of append.
Rollback(t) ==
    /\ pc[t] \in Live
    /\ End(t, "aborted")
    /\ UNCHANGED rowVars

\* A commit flushes; a clash in the index fails it.
Commit(t) ==
    /\ pc[t] = "open"
    /\ dirty[t] => MayWrite(t)
    /\ IF FlushClashes(t)
       THEN End(t, "aborted") /\ UNCHANGED rowVars
       ELSE End(t, "committed") /\ Flush(t) /\ UNCHANGED <<entries, org, owner, hash_prev>>

\* Waiting has a limit: SQLite's busy timeout, and Postgres's deadlock detector
\* on a cycle of transactions that hold one tenant's lock and wait for another's.
Waiting(t) ==
    \/ ~ Postgres /\ pc[t] \in {"tail", "insert"} /\ ~ MayWrite(t)
    \/ \E S \in SUBSET Txns : t \in S /\ \A u \in S :
            pc[u] = "lock" /\ advisory[target[u]] \in S \ {u}

WaitFails(t) ==
    /\ Waiting(t)
    /\ End(t, "aborted")
    /\ UNCHANGED rowVars

-----------------------------------------------------------------------------
(* append.                                                                  *)

Begin(t) ==
    /\ pc[t] = "new"
    /\ pc' = [pc EXCEPT ![t] = "open"]
    /\ UNCHANGED <<target, tail, dirty, rowVars, lockVars>>

\* The host changes an object of its session; only SQLite's writer cares.
HostChange(t) ==
    /\ pc[t] = "open" /\ ~ dirty[t] /\ ~ Postgres
    /\ dirty' = [dirty EXCEPT ![t] = TRUE]
    /\ UNCHANGED <<pc, target, tail, rowVars, lockVars>>

Appending == {t \in Txns : pc[t] \in {"lock", "tail", "insert"}}

Append(t, o) ==
    /\ pc[t] = "open" /\ entries + Cardinality(Appending) < MaxEvents
    /\ pc' = [pc EXCEPT ![t] = "lock"]
    /\ target' = [target EXCEPT ![t] = o]
    /\ UNCHANGED <<tail, dirty, rowVars, lockVars>>

\* Mutant: the tail is read without a lock.
MayLockAlways(t, o) == TRUE
MayLock(t, o) == IF Postgres THEN advisory[o] \in {None, t} ELSE mutex = None

LockChain(t) ==
    /\ pc[t] = "lock" /\ MayLock(t, target[t])
    /\ pc' = [pc EXCEPT ![t] = "tail"]
    /\ IF Postgres
       THEN advisory' = [advisory EXCEPT ![target[t]] = t] /\ UNCHANGED mutex
       ELSE mutex' = t /\ UNCHANGED advisory
    /\ UNCHANGED <<target, tail, dirty, rowVars, writer>>

\* The flush makes the transaction's earlier entries visible to its own query.
ReadTail(t) ==
    /\ pc[t] = "tail"
    /\ dirty[t] => MayWrite(t)
    /\ IF FlushClashes(t)
       THEN End(t, "aborted") /\ UNCHANGED rowVars
       ELSE /\ pc' = [pc EXCEPT ![t] = "insert"]
            /\ IF dirty[t] THEN Writes(t) ELSE UNCHANGED writer
            /\ dirty' = [dirty EXCEPT ![t] = FALSE]
            /\ Flush(t)
            /\ UNCHANGED <<target, entries, org, owner, hash_prev, advisory, mutex>>
            /\ \E p \in Events \cup {0} :
                /\ IsTail(p, Visible(t, target[t]))'
                /\ tail' = [tail EXCEPT ![t] = p]

AddEntry(t) ==
    /\ entries' = entries + 1
    /\ org' = [org EXCEPT ![entries'] = target[t]]
    /\ owner' = [owner EXCEPT ![entries'] = t]
    /\ hash_prev' = [hash_prev EXCEPT ![entries'] = tail[t]]

BackToHost(t) ==
    /\ pc' = [pc EXCEPT ![t] = "open"]
    /\ target' = [target EXCEPT ![t] = None]
    /\ tail' = [tail EXCEPT ![t] = 0]
    /\ UNCHANGED dirty

\* Postgres: session.add alone.  SQLite: the insert, which may lose to the index.
AddRow(t) ==
    /\ pc[t] = "insert" /\ entries < MaxEvents
    /\ IF Postgres
       THEN AddEntry(t) /\ BackToHost(t) /\ UNCHANGED <<seq, last_seq, lockVars>>
       ELSE /\ MayWrite(t)
            /\ IF Clashes(target[t], tail[t])
               THEN End(t, "aborted") /\ UNCHANGED rowVars
               ELSE /\ AddEntry(t) /\ BackToHost(t) /\ Writes(t)
                    /\ last_seq' = last_seq + 1
                    /\ seq' = [seq EXCEPT ![entries'] = last_seq']
                    /\ mutex' = None /\ UNCHANGED advisory

AppendStep(t) == LockChain(t) \/ ReadTail(t) \/ AddRow(t)

Next ==
    \E t \in Txns :
        \/ Begin(t) \/ HostChange(t) \/ Commit(t) \/ Rollback(t) \/ WaitFails(t)
        \/ AppendStep(t) \/ \E o \in Orgs : Append(t, o)

Spec == Init /\ [][Next]_vars

\* The host ends its transactions, and no wait lasts for ever by itself.
FairSpec ==
    /\ Spec
    /\ \A t \in Txns : WF_vars(AppendStep(t)) /\ WF_vars(Commit(t)) /\ WF_vars(WaitFails(t))

-----------------------------------------------------------------------------
(* What the chain promises.                                                 *)

\* verify finds nothing: in seq order, every committed entry links to the one
\* committed before it (chain.py verify_rows on untampered rows).
ChainIntact ==
    \A o \in Orgs : \A e \in CommittedRows(o) :
        IsTail(hash_prev[e], {d \in CommittedRows(o) : seq[d] < seq[e]})

\* What append has read as its tail is still the tail when it uses it: two
\* appends to a tenant never build on the same entry (service.py, The hard part).
TailIsFresh ==
    \A t \in Txns : pc[t] = "insert" /\ MayWrite(t) =>
        IsTail(tail[t], Visible(t, target[t]))

\* A commit extends a tenant's chain at its end: whoever verified it before
\* verified a prefix of it, whatever the order of the inserts.
CommitsExtend ==
    [][\A o \in Orgs : \A e \in CommittedRows(o)' : \A d \in CommittedRows(o) :
            e \notin CommittedRows(o) => seq[d] < seq'[e]]_vars

\* Every transaction ends, also when several append to the same tenants in
\* different orders.
EveryTxnEnds == \A t \in Txns : pc[t] = "open" ~> pc[t] \in {"committed", "aborted"}
=============================================================================
