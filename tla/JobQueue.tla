------------------------------ MODULE JobQueue ------------------------------
(***************************************************************************)
(* The background_job table of asas-jobs and the primitives of queue.py    *)
(* that change it: enqueue, claim_next, mark_succeeded, mark_failed and    *)
(* reclaim_expired.  Every primitive is one or several database            *)
(* transactions; a transaction is one step here, and whatever a primitive  *)
(* reads in one transaction and uses in a later one is a separate step.    *)
(*                                                                         *)
(* Wall-clock time is abstracted to the two comparisons the code makes:    *)
(* due[r] says run_at <= now, and lapsed[r] says lease_expires_at < now.   *)
(* Both may become true at any moment, so a clock that is slow, fast or    *)
(* skewed between hosts is included.                                       *)
(***************************************************************************)
EXTENDS Naturals, FiniteSets

CONSTANTS
    Calls,       \* calls of enqueue; call c inserts row c, if it inserts
    TickRows,    \* the rows schedule ticks may insert (bounds their number)
    Keys,        \* (org, kind, dedupe_key) triples
    NoKey,       \* dedupe_key IS NULL
    KeyOf,       \* the key each call of enqueue passes
    Schedules,   \* rows of job_schedule
    NoSchedule,  \* schedule_id IS NULL
    Workers,     \* runner processes, identified by worker_id()
    NoWorker,    \* claimed_by IS NULL
    MaxAttempts  \* max_attempts of every row

Rows == Calls \cup TickRows
Terminal == {"succeeded", "failed"}
Active == {"queued", "running"}
Status == {"absent"} \cup Active \cup Terminal

ASSUME NamesAssumption ==
    /\ Calls \cap TickRows = {}
    /\ NoKey \notin Keys
    /\ KeyOf \in [Calls -> Keys \cup {NoKey}]
    /\ NoSchedule \notin Schedules
    /\ NoWorker \notin Workers
ASSUME MaxAttemptsAssumption == MaxAttempts \in Nat \ {0}

VARIABLES
    status,      \* status[r]: the row's status; "absent" before its INSERT
    attempts,    \* attempts[r]
    claimed_by,  \* claimed_by[r]
    lapsed,      \* lease_expires_at < now
    due,         \* run_at <= now
    schedule_id, \* schedule_id[r]
    call_pc,     \* where each call of enqueue is
    call_ret     \* the row each call of enqueue returned

rowVars == <<status, attempts, claimed_by, lapsed, due, schedule_id>>
callVars == <<call_pc, call_ret>>

NoRow == "norow"
Key(r) == IF r \in Calls THEN KeyOf[r] ELSE NoKey
CallPc == {"lookup", "insert", "relookup", "returned", "raised"}

QueueTypeOK ==
    /\ status \in [Rows -> Status]
    /\ attempts \in [Rows -> 0 .. MaxAttempts]
    /\ claimed_by \in [Rows -> Workers \cup {NoWorker}]
    /\ lapsed \in [Rows -> BOOLEAN]
    /\ due \in [Rows -> BOOLEAN]
    /\ schedule_id \in [Rows -> Schedules \cup {NoSchedule}]
    /\ call_pc \in [Calls -> CallPc]
    /\ call_ret \in [Calls -> Rows \cup {NoRow}]

QueueInit ==
    /\ status = [r \in Rows |-> "absent"]
    /\ attempts = [r \in Rows |-> 0]
    /\ claimed_by = [r \in Rows |-> NoWorker]
    /\ lapsed = [r \in Rows |-> FALSE]
    /\ due = [r \in Rows |-> FALSE]
    /\ schedule_id = [r \in Rows |-> NoSchedule]
    /\ call_pc = [c \in Calls |-> "lookup"]
    /\ call_ret = [c \in Calls |-> NoRow]

-----------------------------------------------------------------------------
(* The row transactions.                                                    *)

\* INSERT of a fresh row; soon says whether its run_at is already past.
Insert(r, s, soon) ==
    /\ status[r] = "absent"
    /\ status' = [status EXCEPT ![r] = "queued"]
    /\ due' = [due EXCEPT ![r] = soon]
    /\ schedule_id' = [schedule_id EXCEPT ![r] = s]
    /\ UNCHANGED <<attempts, claimed_by, lapsed>>

\* Rows holding an idempotency key: what _active_duplicate selects.
ActiveDuplicates(k) == {r \in Rows : Key(r) = k /\ status[r] \in Active}

\* Mutant: the partial unique indexes are missing.
ConflictsNever(c) == FALSE
\* The INSERT violates one of the two partial unique indexes.
Conflicts(c) == KeyOf[c] # NoKey /\ ActiveDuplicates(KeyOf[c]) # {}

\* Mutant: identified by the host name alone, all workers of a host are one.
HostOf(w) == CHOOSE v \in Workers : TRUE
\* hostname:pid tells all live workers apart.
WorkerId(w) == w

\* Mutant: the claim is an UPDATE by id.
ClaimableAlways(r) == TRUE
\* claim_next's CAS: WHERE id = r AND status = 'queued'.
Claimable(r) == status[r] = "queued"

ClaimRow(w, r) ==
    /\ Claimable(r)
    /\ status' = [status EXCEPT ![r] = "running"]
    /\ claimed_by' = [claimed_by EXCEPT ![r] = WorkerId(w)]
    /\ lapsed' = [lapsed EXCEPT ![r] = FALSE]
    /\ attempts' = [attempts EXCEPT ![r] = @ + 1]
    /\ UNCHANGED <<due, schedule_id>>

\* The WHERE of both settles: still running, still this claimant's.
Owns(w, r) == status[r] = "running" /\ claimed_by[r] = WorkerId(w)

\* A settle writes the outcome st when Owns holds and nothing otherwise; a
\* re-queued row waits out its backoff.
SettleRow(w, r, st) ==
    IF Owns(w, r)
    THEN /\ status' = [status EXCEPT ![r] = st]
         /\ claimed_by' = [claimed_by EXCEPT ![r] = NoWorker]
         /\ lapsed' = [lapsed EXCEPT ![r] = FALSE]
         /\ due' = [due EXCEPT ![r] = @ /\ st # "queued"]
         /\ UNCHANGED <<attempts, schedule_id>>
    ELSE UNCHANGED rowVars

\* No attempt is left.
Exhausted(r) == attempts[r] >= MaxAttempts

\* Mutant: rows with no attempt left are filtered out, and nobody buries them.
ExpiredUnspent == {r \in Rows : status[r] = "running" /\ lapsed[r] /\ ~ Exhausted(r)}
\* reclaim_expired's WHERE.
Expired == {r \in Rows : status[r] = "running" /\ lapsed[r]}

\* reclaim_expired: dead-letter the exhausted rows, re-queue the others.
ReclaimExpired ==
    /\ status' = [r \in Rows |-> IF r \notin Expired THEN status[r]
                                 ELSE IF Exhausted(r) THEN "failed" ELSE "queued"]
    /\ claimed_by' = [r \in Rows |-> IF r \in Expired THEN NoWorker ELSE claimed_by[r]]
    /\ lapsed' = [r \in Rows |-> lapsed[r] /\ r \notin Expired]
    /\ due' = [r \in Rows |-> due[r] \/ r \in Expired]
    /\ UNCHANGED <<attempts, schedule_id>>

\* Mutant: the overlap check looks at running rows only.
HasRunning(s) == \E r \in Rows : schedule_id[r] = s /\ status[r] = "running"
\* The scheduler's overlap check.
HasActive(s) == \E r \in Rows : schedule_id[r] = s /\ status[r] \in Active

-----------------------------------------------------------------------------
(* enqueue: a fast-path lookup, the INSERT, and after an IntegrityError a   *)
(* second lookup.  Each is a transaction of its own.                        *)

Return(c, r) ==
    /\ call_pc' = [call_pc EXCEPT ![c] = "returned"]
    /\ call_ret' = [call_ret EXCEPT ![c] = r]

Goto(c, label) == call_pc' = [call_pc EXCEPT ![c] = label] /\ UNCHANGED call_ret

EnqueueLookup(c) ==
    /\ call_pc[c] = "lookup"
    /\ \/ Conflicts(c) /\ \E r \in ActiveDuplicates(KeyOf[c]) : Return(c, r)
       \/ ~ Conflicts(c) /\ Goto(c, "insert")
    /\ UNCHANGED rowVars

EnqueueInsert(c) ==
    /\ call_pc[c] = "insert"
    /\ \/ /\ Conflicts(c)
          /\ Goto(c, "relookup")
          /\ UNCHANGED rowVars
       \/ /\ ~ Conflicts(c)
          /\ \E soon \in BOOLEAN : Insert(c, NoSchedule, soon)
          /\ Return(c, c)

EnqueueRelookup(c) ==
    /\ call_pc[c] = "relookup"
    /\ \/ \E r \in ActiveDuplicates(KeyOf[c]) : Return(c, r)
       \/ ActiveDuplicates(KeyOf[c]) = {} /\ Goto(c, "raised")
    /\ UNCHANGED rowVars

Enqueue(c) == EnqueueLookup(c) \/ EnqueueInsert(c) \/ EnqueueRelookup(c)

-----------------------------------------------------------------------------
(* The passing of time.                                                     *)

BecomesDue(r) ==
    /\ status[r] = "queued" /\ ~ due[r]
    /\ due' = [due EXCEPT ![r] = TRUE]
    /\ UNCHANGED <<status, attempts, claimed_by, lapsed, schedule_id, callVars>>

LeaseLapses(r) ==
    /\ status[r] = "running" /\ ~ lapsed[r]
    /\ lapsed' = [lapsed EXCEPT ![r] = TRUE]
    /\ UNCHANGED <<status, attempts, claimed_by, due, schedule_id, callVars>>

-----------------------------------------------------------------------------
(* What the table promises.                                                 *)

\* At most one queued or running row holds an idempotency key, however many
\* enqueue calls race past the fast-path lookup (queue.py enqueue).
OneActivePerKey == \A k \in Keys : Cardinality(ActiveDuplicates(k)) <= 1

\* A queued row still has an attempt left and a running one has used at least
\* one: claim, retry and reclaim agree on the attempt count, so a job that
\* kills every worker is dead-lettered after max_attempts claims.
AttemptsBounded ==
    \A r \in Rows :
        /\ status[r] = "queued" => attempts[r] < MaxAttempts
        /\ status[r] = "running" => attempts[r] \in 1 .. MaxAttempts
        /\ status[r] = "absent" => attempts[r] = 0

\* A finished row stays as it is: no late settle, reclaim or claim revives it.
TerminalIsFinal ==
    [][\A r \in Rows : status[r] \in Terminal => status'[r] = status[r]]_status
=============================================================================
