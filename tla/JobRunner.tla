----------------------------- MODULE JobRunner -----------------------------
(***************************************************************************)
(* The runner processes of asas-jobs over the job table: run_once's pass   *)
(* (reclaim lapsed leases, tick the schedules, drain due jobs), _execute,  *)
(* the asyncio loop's shutdown, and the schedules of scheduler.py.         *)
(* Workers are separate processes; nothing but the database is shared.     *)
(***************************************************************************)
EXTENDS JobQueue

CONSTANTS
    NoOverlap,   \* the schedules with no_overlap set
    SkipLocked,  \* TRUE: Postgres, the candidate row is locked by the SELECT
    PassBudget,  \* MAX_JOBS_PER_PASS
    ClaimTries,  \* the CAS misses claim_next accepts
    MaxTicks,    \* bound: the ticks of one schedule
    MaxKills,    \* bound: killed processes and passes ended by an exception
    MaxStops     \* bound: graceful shutdowns

ASSUME RunnerAssumption ==
    /\ NoOverlap \subseteq Schedules
    /\ SkipLocked \in BOOLEAN
    /\ PassBudget \in Nat \ {0}
    /\ ClaimTries \in Nat \ {0}
    /\ {MaxTicks, MaxKills, MaxStops} \subseteq Nat

VARIABLES
    pc,          \* where each worker is
    local,       \* the local variables of each worker's pass
    stopping,    \* _stop_event
    next_run_at, \* each schedule's next_run_at, as the number of advances
    sched_due,   \* next_run_at <= now
    kills, stops,
    commits      \* history: committed handler runs of each row

schedVars == <<next_run_at, sched_due>>
boundVars == <<kills, stops>>
envVars == <<callVars, stopping, schedVars, boundVars, commits>>
vars == <<rowVars, pc, local, envVars>>

Holding == {"run", "ok", "raised", "nohandler", "settle"}
Pc == {"down", "poll", "snapshot", "tick", "drain", "cas"} \cup Holding

\* The candidate or claimed row; the status mark_failed decided to write; the
\* loop counters of claim_next and run_once; tick_schedules' snapshot; and, as
\* history, the row's attempts when this worker claimed it.
Local == [job : Rows \cup {NoRow}, verdict : {"none", "queued", "failed"},
          misses : 0 .. ClaimTries - 1, ran : 0 .. PassBudget,
          todo : SUBSET (Schedules \X Nat), claim_no : 0 .. MaxAttempts]
NoLocals == [job |-> NoRow, verdict |-> "none", misses |-> 0, ran |-> 0,
             todo |-> {}, claim_no |-> 0]

TypeOK ==
    /\ QueueTypeOK
    /\ pc \in [Workers -> Pc]
    /\ local \in [Workers -> Local]
    /\ stopping \in [Workers -> BOOLEAN]
    /\ next_run_at \in [Schedules -> Nat]
    /\ sched_due \in [Schedules -> BOOLEAN]
    /\ kills \in 0 .. MaxKills
    /\ stops \in 0 .. MaxStops
    /\ commits \in [Rows -> Nat]

Init ==
    /\ QueueInit
    /\ pc = [w \in Workers |-> "down"]
    /\ local = [w \in Workers |-> NoLocals]
    /\ stopping = [w \in Workers |-> FALSE]
    /\ next_run_at = [s \in Schedules |-> 0]
    /\ sched_due = [s \in Schedules |-> TRUE]
    /\ kills = 0
    /\ stops = 0
    /\ commits = [r \in Rows |-> 0]

-----------------------------------------------------------------------------
(* Worker control.                                                          *)

job(w) == local[w].job
Move(w, label) == pc' = [pc EXCEPT ![w] = label]

\* The worker's locals are dropped: its pass, or its process, is over.
Forget(w) == local' = [local EXCEPT ![w] = NoLocals]

\* run_loop starts by clearing the stop event.
ClearStop(w) == stopping' = [stopping EXCEPT ![w] = FALSE]

Boot(w) ==
    /\ pc[w] = "down"
    /\ Move(w, "poll")
    /\ ClearStop(w)
    /\ UNCHANGED <<rowVars, local, callVars, schedVars, boundVars, commits>>

\* After its pass the loop sleeps, or ends when it was cancelled meanwhile.
PassEnds(w) == Move(w, IF stopping[w] THEN "down" ELSE "poll") /\ Forget(w)

-----------------------------------------------------------------------------
(* run_once.                                                                *)

Reclaim(w) ==
    /\ pc[w] = "poll"
    /\ ReclaimExpired
    /\ Move(w, "snapshot")
    /\ UNCHANGED <<local, envVars>>

\* tick_schedules snapshots the due schedules with their next_run_at.
TickSnapshot(w) ==
    /\ pc[w] = "snapshot"
    /\ local' = [local EXCEPT ![w].todo =
                  {<<s, next_run_at[s]>> : s \in {t \in Schedules : sched_due[t]}}]
    /\ Move(w, "tick")
    /\ UNCHANGED <<rowVars, envVars>>

\* Mutant: the comparison is inverted.
UntickedNot(s, seen) == next_run_at[s] # seen
\* The CAS on next_run_at: no other worker has advanced the schedule.
Unticked(s, seen) == next_run_at[s] = seen

\* What commits together with the advance: nothing when a no_overlap schedule
\* still has an active job, the schedule's next job otherwise.
Materialize(s) ==
    IF s \in NoOverlap /\ HasActive(s)
    THEN UNCHANGED rowVars
    ELSE \E r \in TickRows : Insert(r, s, TRUE)

TickSchedule(w, s, seen) ==
    /\ pc[w] = "tick"
    /\ <<s, seen>> \in local[w].todo
    /\ local' = [local EXCEPT ![w].todo = @ \ {<<s, seen>>}]
    /\ \/ /\ ~ Unticked(s, seen)
          /\ UNCHANGED <<rowVars, schedVars>>
       \/ /\ Unticked(s, seen)
          /\ next_run_at' = [next_run_at EXCEPT ![s] = seen + 1]
          /\ sched_due' = [sched_due EXCEPT ![s] = FALSE]
          /\ Materialize(s)
    /\ UNCHANGED <<pc, callVars, stopping, boundVars, commits>>

TickDone(w) ==
    /\ pc[w] = "tick" /\ local[w].todo = {}
    /\ Move(w, "drain")
    /\ UNCHANGED <<rowVars, local, envVars>>

Candidates == {r \in Rows : status[r] = "queued" /\ due[r]}

\* The drain loop's condition.
DrainsOn(w) == local[w].ran < PassBudget /\ ~ stopping[w]

Drained(w) ==
    /\ pc[w] = "drain"
    /\ ~ DrainsOn(w) \/ Candidates = {}
    /\ PassEnds(w)
    /\ UNCHANGED <<rowVars, envVars>>

Claimed(w, r) ==
    /\ ClaimRow(w, r)
    /\ local' = [local EXCEPT ![w] = [@ EXCEPT !.job = r, !.misses = 0,
                                               !.claim_no = attempts[r] + 1]]
    /\ Move(w, "run")
    /\ UNCHANGED envVars

\* Postgres: SELECT .. FOR UPDATE SKIP LOCKED and the CAS are one transaction
\* on a locked row.
ClaimNext(w, r) ==
    /\ SkipLocked
    /\ pc[w] = "drain" /\ DrainsOn(w)
    /\ r \in Candidates
    /\ Claimed(w, r)

\* SQLite: the SELECT holds no lock; the CAS follows in a step of its own.
SelectCandidate(w, r) ==
    /\ ~ SkipLocked
    /\ pc[w] = "drain" /\ DrainsOn(w)
    /\ r \in Candidates
    /\ local' = [local EXCEPT ![w].job = r]
    /\ Move(w, "cas")
    /\ UNCHANGED <<rowVars, envVars>>

ClaimCas(w) ==
    /\ pc[w] = "cas"
    /\ Claimed(w, job(w))

\* A missed CAS is tried again ClaimTries times, then the pass ends.
ClaimMiss(w) ==
    /\ pc[w] = "cas" /\ ~ Claimable(job(w))
    /\ IF local[w].misses + 1 < ClaimTries
       THEN /\ Move(w, "drain")
            /\ local' = [local EXCEPT ![w] =
                            [@ EXCEPT !.job = NoRow, !.misses = local[w].misses + 1]]
       ELSE PassEnds(w)
    /\ UNCHANGED <<rowVars, envVars>>

-----------------------------------------------------------------------------
(* _execute.                                                                *)

AfterRaise == "raised"

\* The handler's work is committed before the settle, in its own transaction.
HandlerCommits(w) ==
    /\ pc[w] = "run"
    /\ commits' = [commits EXCEPT ![job(w)] = @ + 1]
    /\ Move(w, "ok")
    /\ UNCHANGED <<rowVars, local, callVars, stopping, schedVars, boundVars>>

\* The handler, or its commit, raises; or the kind has no handler.
HandlerFails(w) ==
    /\ pc[w] = "run"
    /\ \E label \in {AfterRaise, "nohandler"} : Move(w, label)
    /\ UNCHANGED <<rowVars, local, envVars>>

BackToDrain(w) ==
    /\ Move(w, "drain")
    /\ local' = [local EXCEPT ![w] = [NoLocals EXCEPT !.ran = local[w].ran + 1]]
    /\ UNCHANGED envVars

MarkSucceeded(w) ==
    /\ pc[w] = "ok"
    /\ SettleRow(w, job(w), "succeeded")
    /\ BackToDrain(w)

\* mark_failed reads the attempts of the (expired, so re-read) row ...
MarkFailedRead(w) ==
    /\ pc[w] \in {"raised", "nohandler"}
    /\ local' = [local EXCEPT ![w].verdict =
         IF pc[w] = "nohandler" \/ Exhausted(job(w)) THEN "failed" ELSE "queued"]
    /\ Move(w, "settle")
    /\ UNCHANGED <<rowVars, envVars>>

\* ... and settles with a CAS.
MarkFailed(w) ==
    /\ pc[w] = "settle"
    /\ SettleRow(w, job(w), local[w].verdict)
    /\ BackToDrain(w)

-----------------------------------------------------------------------------
(* The environment: kills, exceptions, shutdowns and time.                  *)

\* The process dies, or an exception ends the pass and run_loop survives it.
Interrupted(w) ==
    /\ pc[w] # "down" /\ kills < MaxKills
    /\ kills' = kills + 1
    /\ \E label \in {"down", IF stopping[w] THEN "down" ELSE "poll"} : Move(w, label)
    /\ Forget(w)
    /\ UNCHANGED <<rowVars, callVars, stopping, schedVars, stops, commits>>

\* Mutant: cancellation abandons the pass instead of awaiting it.
StopAtOnce(w) == Move(w, "down") /\ Forget(w) /\ UNCHANGED stopping
\* Cancelling run_loop: a sleeping loop ends; a running pass is asked to stop
\* at its next job boundary and is awaited.
StopCleanly(w) ==
    IF pc[w] = "poll"
    THEN Move(w, "down") /\ Forget(w) /\ UNCHANGED stopping
    ELSE /\ stopping' = [stopping EXCEPT ![w] = TRUE]
         /\ UNCHANGED <<pc, local>>

Shutdown(w) ==
    /\ pc[w] # "down" /\ ~ stopping[w] /\ stops < MaxStops
    /\ stops' = stops + 1
    /\ StopCleanly(w)
    /\ UNCHANGED <<rowVars, callVars, schedVars, kills, commits>>

ScheduleComesDue(s) ==
    /\ ~ sched_due[s] /\ next_run_at[s] < MaxTicks
    /\ sched_due' = [sched_due EXCEPT ![s] = TRUE]
    /\ UNCHANGED <<rowVars, pc, local, callVars, stopping, next_run_at, boundVars, commits>>

\* One step of a worker's pass.
WorkerStep(w) ==
    \/ Boot(w) \/ Reclaim(w) \/ TickSnapshot(w) \/ TickDone(w)
    \/ \E s \in Schedules, seen \in 0 .. MaxTicks : TickSchedule(w, s, seen)
    \/ Drained(w)
    \/ \E r \in Rows : ClaimNext(w, r) \/ SelectCandidate(w, r)
    \/ ClaimCas(w) \/ ClaimMiss(w)
    \/ HandlerCommits(w) \/ HandlerFails(w)
    \/ MarkSucceeded(w) \/ MarkFailedRead(w) \/ MarkFailed(w)

EnqueueStep(c) == Enqueue(c) /\ UNCHANGED <<pc, local, stopping, schedVars, boundVars, commits>>
TimeStep(r) ==
    /\ BecomesDue(r) \/ LeaseLapses(r)
    /\ UNCHANGED <<pc, local, stopping, schedVars, boundVars, commits>>

Next ==
    \/ \E c \in Calls : EnqueueStep(c)
    \/ \E w \in Workers : WorkerStep(w) \/ Interrupted(w) \/ Shutdown(w)
    \/ \E r \in Rows : TimeStep(r)
    \/ \E s \in Schedules : ScheduleComesDue(s)

Spec == Init /\ [][Next]_vars

\* A process that is down is started again and no handler hangs; time passes.
Fairness ==
    /\ \A w \in Workers : WF_vars(WorkerStep(w))
    /\ \A c \in Calls : WF_vars(EnqueueStep(c))
    /\ \A r \in Rows : WF_vars(TimeStep(r))

FairSpec == Spec /\ Fairness

-----------------------------------------------------------------------------
(* What the runner promises.                                                *)

Holds(w, r) == pc[w] \in Holding /\ job(w) = r

\* A worker that the row names as its claimant holds the claim the row is in:
\* the row was not claimed again since.  Without it the claimant CAS of the
\* settles (queue.py) would not tell a stale run from the current one.
ClaimLineage ==
    \A w \in Workers : 
        pc[w] \in Holding /\ status[job(w)] = "running" /\ claimed_by[job(w)] = WorkerId(w)
        => attempts[job(w)] = local[w].claim_no

\* A running row leaves "running" only when its lease lapsed (reclaim_expired)
\* or by the worker of its current claim: the late settle of a run that was
\* reclaimed never touches the run that took over.
SettledByItsClaim ==
    [][\A r \in Rows : status[r] = "running" /\ status'[r] # "running" =>
        \/ lapsed[r]
        \/ \E w \in Workers : Holds(w, r) /\ pc'[w] = "drain"
                              /\ local[w].claim_no = attempts[r]]_vars

\* A row is succeeded only after a run of its handler was committed, even when
\* several runs of it overlap (runner.py _execute).
SucceededWasRun == \A r \in Rows : status[r] = "succeeded" => commits[r] > 0

\* A no_overlap schedule never has two active jobs (scheduler.py tick_schedules),
\* however the ticks of several workers interleave; and no schedule has had more
\* jobs than next_run_at was advanced: two workers that saw the same tick due do not
\* both enqueue.
NoStacking ==
    \A s \in Schedules :
        /\ s \in NoOverlap =>
              Cardinality({r \in Rows : schedule_id[r] = s /\ status[r] \in Active}) <= 1
        /\ Cardinality({r \in Rows : schedule_id[r] = s}) <= next_run_at[s]

\* Unless a process was killed or a pass raised, a running row is in the hands
\* of a live worker until its lease lapses: a graceful shutdown never leaves
\* a job behind for the lease to bring back (runner.py run_loop).
ShutdownIsClean ==
    kills = 0 => \A r \in Rows : status[r] = "running" /\ ~ lapsed[r]
                     => \E w \in Workers : Holds(w, r) /\ local[w].claim_no = attempts[r]

\* Every job ends, whatever the handlers do and however often a worker dies
\* while it runs the job: "a poison job can never loop forever" (models.py).
EveryJobEnds == \A r \in Rows : status[r] \in Active ~> status[r] \in Terminal

\* A due schedule is advanced: the drain loop's budget and its clean stops never
\* starve the next pass (runner.py run_once).
DueScheduleTicks == \A s \in Schedules : sched_due[s] ~> ~ sched_due[s]

\* The table refines the life cycle each row is promised.
Lifecycle == INSTANCE JobLifecycle WITH status <- status, attempts <- attempts
RefinesLifecycle == Lifecycle!Spec

=============================================================================
