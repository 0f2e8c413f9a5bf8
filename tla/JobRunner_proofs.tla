-------------------------- MODULE JobRunner_proofs --------------------------
(***************************************************************************)
(* Safety of the job runner for every number of rows, keys, schedules and  *)
(* workers, on both engines.                                               *)
(***************************************************************************)
EXTENDS JobRunner, FiniteSetTheorems, TLAPS

\* A worker past its claim query has a row, and budget left for it.
HasJob ==
    \A w \in Workers : pc[w] \in Holding \cup {"cas"} =>
        job(w) \in Rows /\ local[w].ran < PassBudget

\* The verdict mark_failed read still fits the row when it is written: as long
\* as the row is this worker's, nobody else changed its attempts.
VerdictHolds ==
    \A w \in Workers : pc[w] = "settle" =>
        /\ local[w].verdict \in {"queued", "failed"}
        /\ local[w].verdict = "queued" /\ Owns(w, job(w)) => attempts[job(w)] < MaxAttempts

\* A worker that is about to settle a success has committed the handler's work.
OkWasRun == \A w \in Workers : pc[w] = "ok" => commits[job(w)] > 0

IInv == TypeOK /\ AttemptsBounded /\ HasJob /\ VerdictHolds /\ ClaimLineage
        /\ OkWasRun /\ SucceededWasRun

-----------------------------------------------------------------------------
(* Updates of one worker's locals.                                          *)

LEMMA LocalJob ==
  ASSUME NEW l \in Local, NEW r \in Rows \cup {NoRow} PROVE [l EXCEPT !.job = r] \in Local
  BY DEF Local

LEMMA LocalVerdict ==
  ASSUME NEW l \in Local, NEW v \in {"none", "queued", "failed"}
  PROVE  [l EXCEPT !.verdict = v] \in Local
  BY DEF Local

LEMMA LocalMiss ==
  ASSUME NEW l \in Local, NEW r \in Rows \cup {NoRow}, NEW n \in 0 .. ClaimTries - 1
  PROVE  [l EXCEPT !.job = r, !.misses = n] \in Local
  BY DEF Local

LEMMA LocalClaim ==
  ASSUME NEW l \in Local, NEW r \in Rows, NEW n \in 0 .. MaxAttempts
  PROVE  [l EXCEPT !.job = r, !.misses = 0, !.claim_no = n] \in Local
<1>1. 0 \in 0 .. ClaimTries - 1
  BY RunnerAssumption
<1>2. QED
  BY <1>1 DEF Local

LEMMA LocalTodo ==
  ASSUME NEW l \in Local, NEW S \in SUBSET (Schedules \X Nat)
  PROVE  [l EXCEPT !.todo = S] \in Local
  BY DEF Local

LEMMA LocalUpdate ==
  ASSUME local \in [Workers -> Local], NEW w \in Workers, NEW l \in Local,
         local' = [local EXCEPT ![w] = l]
  PROVE  local' \in [Workers -> Local]
  OBVIOUS

-----------------------------------------------------------------------------
\* A settle keeps the types of the table.
LEMMA SettleTypes ==
  ASSUME QueueTypeOK, NEW w \in Workers, NEW r \in Rows,
         NEW st \in {"queued", "succeeded", "failed"},
         SettleRow(w, r, st), UNCHANGED callVars
  PROVE  QueueTypeOK'
<1> USE DEF QueueTypeOK, rowVars, callVars
<1>1. CASE Owns(w, r)
  <2>1. /\ status' = [status EXCEPT ![r] = st]
        /\ claimed_by' = [claimed_by EXCEPT ![r] = NoWorker]
        /\ lapsed' = [lapsed EXCEPT ![r] = FALSE]
        /\ due' = [due EXCEPT ![r] = due[r] /\ st # "queued"]
        /\ UNCHANGED <<attempts, schedule_id>>
    BY ONLY <1>1, SettleRow(w, r, st) DEF SettleRow
  <2>2. st \in Status
    BY DEF Status, Active, Terminal
  <2>3. due \in [Rows -> BOOLEAN]
    OBVIOUS
  <2>4. due' \in [Rows -> BOOLEAN]
    BY ONLY <2>1, <2>3, r \in Rows
  <2>5. QED
    BY <2>1, <2>2, <2>4
<1>2. CASE ~ Owns(w, r)
  BY <1>2 DEF SettleRow
<1>3. QED
  BY <1>1, <1>2

LEMMA InitIInv == Init => IInv
<1> SUFFICES ASSUME Init PROVE IInv
  OBVIOUS
<1> USE RunnerAssumption, NamesAssumption, MaxAttemptsAssumption
<1>1. QueueTypeOK
  BY DEF Init, QueueInit, QueueTypeOK, Status, CallPc
<1>2. TypeOK
  BY <1>1 DEF Init, TypeOK, Pc, Local, NoLocals
<1>3. AttemptsBounded
  BY DEF Init, QueueInit, AttemptsBounded
<1>4. HasJob /\ VerdictHolds /\ ClaimLineage /\ OkWasRun
  BY DEF Init, HasJob, VerdictHolds, ClaimLineage, OkWasRun, Holding
<1>5. SucceededWasRun
  BY DEF Init, QueueInit, SucceededWasRun
<1>6. QED
  BY <1>2, <1>3, <1>4, <1>5 DEF IInv

LEMMA StepIInv == IInv /\ [Next]_vars => IInv'
<1> SUFFICES ASSUME IInv, [Next]_vars PROVE IInv'
  OBVIOUS
<1> USE RunnerAssumption, NamesAssumption, MaxAttemptsAssumption
<1> USE DEF IInv, TypeOK, QueueTypeOK, AttemptsBounded, HasJob, VerdictHolds,
            ClaimLineage, OkWasRun, SucceededWasRun, Status, Active, Terminal, CallPc, Pc, Holding,
            Local, NoLocals, job, Owns, WorkerId, NoRow,
            rowVars, callVars, schedVars, boundVars, envVars, Move, Forget
<1>1. ASSUME NEW c \in Calls, EnqueueStep(c) PROVE IInv'
  <2>1. CASE EnqueueLookup(c)
    BY <1>1, <2>1 DEF EnqueueStep, EnqueueLookup, Return, Goto, ActiveDuplicates
  <2>2. CASE EnqueueInsert(c)
    <3>1. CASE UNCHANGED rowVars /\ Goto(c, "relookup")
      BY <1>1, <3>1 DEF EnqueueStep, Goto
    <3>2. ASSUME NEW soon \in BOOLEAN, Insert(c, NoSchedule, soon), Return(c, c) PROVE IInv'
      <4>1. c \in Rows
        BY DEF Rows
      <4>2. QueueTypeOK'
        BY <1>1, <3>2, <4>1 DEF EnqueueStep, Insert, Return
      <4>3. TypeOK' /\ AttemptsBounded'
        BY <1>1, <3>2, <4>1, <4>2 DEF EnqueueStep, Insert
      <4>4. HasJob' /\ VerdictHolds' /\ ClaimLineage'
        BY <1>1, <3>2, <4>1 DEF EnqueueStep, Insert
      <4>5. OkWasRun' /\ SucceededWasRun'
        BY <1>1, <3>2, <4>1 DEF EnqueueStep, Insert
      <4>6. QED
        BY <4>3, <4>4, <4>5
    <3>3. QED
      BY <2>2, <3>1, <3>2 DEF EnqueueInsert
  <2>3. CASE EnqueueRelookup(c)
    <3>1. CASE Goto(c, "raised")
      BY <1>1, <2>3, <3>1 DEF EnqueueStep, EnqueueRelookup, Goto
    <3>2. ASSUME NEW r \in Rows, Return(c, r) PROVE IInv'
      BY <1>1, <2>3, <3>2 DEF EnqueueStep, EnqueueRelookup, Return
    <3>3. QED
      BY <2>3, <3>1, <3>2 DEF EnqueueRelookup, ActiveDuplicates
  <2>4. QED
    BY <1>1, <2>1, <2>2, <2>3 DEF EnqueueStep, Enqueue
<1>2. ASSUME NEW w \in Workers, WorkerStep(w) PROVE IInv'
  <2>1. CASE Boot(w)
    BY <2>1 DEF Boot, ClearStop
  <2>2. CASE Reclaim(w)
    <3> USE <2>2 DEF Reclaim, ReclaimExpired, Expired, Exhausted
    <3>1. QueueTypeOK'
      OBVIOUS
    <3>2. local' \in [Workers -> Local]
      OBVIOUS
    <3>3. TypeOK'
      BY <3>1, <3>2
    <3>4. AttemptsBounded'
      OBVIOUS
    <3>5. HasJob'
      OBVIOUS
    <3>6. VerdictHolds'
      OBVIOUS
    <3>7. ClaimLineage'
      OBVIOUS
    <3>8. OkWasRun'
      OBVIOUS
    <3>9. SucceededWasRun'
      OBVIOUS
    <3>10. QED
      BY <3>3, <3>4, <3>5, <3>6, <3>7, <3>8, <3>9
  <2>3. CASE TickSnapshot(w)
    <3> USE <2>3 DEF TickSnapshot
    <3>1. QueueTypeOK'
      OBVIOUS
    <3>2. local' \in [Workers -> Local]
      OBVIOUS
    <3>3. TypeOK'
      BY <3>1, <3>2
    <3>4. AttemptsBounded'
      OBVIOUS
    <3>5. HasJob'
      OBVIOUS
    <3>6. VerdictHolds'
      OBVIOUS
    <3>7. ClaimLineage'
      OBVIOUS
    <3>8. OkWasRun'
      OBVIOUS
    <3>9. SucceededWasRun'
      OBVIOUS
    <3>10. QED
      BY <3>3, <3>4, <3>5, <3>6, <3>7, <3>8, <3>9
  <2>4. CASE TickDone(w)
    BY <2>4 DEF TickDone
  <2>5. ASSUME NEW s \in Schedules, NEW seen \in 0 .. MaxTicks, TickSchedule(w, s, seen)
        PROVE IInv'
    <3> USE <2>5 DEF TickSchedule, Unticked, Materialize, Insert, Rows
    <3>1. QueueTypeOK'
      <4>1. CASE UNCHANGED rowVars
        BY <4>1
      <4>2. ASSUME NEW r \in TickRows, Insert(r, s, TRUE) PROVE QueueTypeOK'
        BY <4>2
      <4>3. QED
        BY <4>1, <4>2
    <3>2. local' \in [Workers -> Local]
      <4>1. local \in [Workers -> Local] /\ local[w] \in Local
        OBVIOUS
      <4>2. local[w].todo \ {<<s, seen>>} \in SUBSET (Schedules \X Nat)
        OBVIOUS
      <4>3. [local[w] EXCEPT !.todo = local[w].todo \ {<<s, seen>>}] \in Local
        BY ONLY <4>1, <4>2, LocalTodo
      <4>4. local' = [local EXCEPT ![w] = [local[w] EXCEPT !.todo = local[w].todo \ {<<s, seen>>}]]
        OBVIOUS
      <4>5. QED
        BY ONLY <4>1, <4>3, <4>4, w \in Workers, LocalUpdate
    <3>3. TypeOK'
      <4>1. seen + 1 \in Nat
        OBVIOUS
      <4>2. next_run_at' \in [Schedules -> Nat] /\ sched_due' \in [Schedules -> BOOLEAN]
        <5>1. CASE UNCHANGED schedVars
          BY <5>1
        <5>2. CASE /\ next_run_at' = [next_run_at EXCEPT ![s] = seen + 1]
                   /\ sched_due' = [sched_due EXCEPT ![s] = FALSE]
          BY <4>1, <5>2
        <5>3. QED
          BY <5>1, <5>2
      <4>3. QED
        BY <3>1, <3>2, <4>2
    <3>4. AttemptsBounded'
      OBVIOUS
    <3>5. HasJob'
      OBVIOUS
    <3>6. VerdictHolds'
      OBVIOUS
    <3>7. ClaimLineage'
      OBVIOUS
    <3>8. OkWasRun'
      OBVIOUS
    <3>9. SucceededWasRun'
      OBVIOUS
    <3>10. QED
      BY <3>3, <3>4, <3>5, <3>6, <3>7, <3>8, <3>9
  <2>6. CASE Drained(w)
    BY <2>6 DEF Drained, PassEnds
  <2>7. ASSUME NEW r \in Rows, ClaimNext(w, r) PROVE IInv'
    <3> USE <2>7 DEF ClaimNext, Claimed, ClaimRow, Claimable, DrainsOn
    <3>1. QueueTypeOK'
      OBVIOUS
    <3>2. local' \in [Workers -> Local]
      <4>1. local \in [Workers -> Local] /\ local[w] \in Local
        OBVIOUS
      <4>2. r \in Rows /\ attempts[r] + 1 \in 0 .. MaxAttempts
        OBVIOUS
      <4>3. [local[w] EXCEPT !.job = r, !.misses = 0, !.claim_no = attempts[r] + 1] \in Local
        BY ONLY <4>1, <4>2, LocalClaim
      <4>4. local' = [local EXCEPT ![w] = [local[w] EXCEPT !.job = r, !.misses = 0, !.claim_no = attempts[r] + 1]]
        OBVIOUS
      <4>5. QED
        BY ONLY <4>1, <4>3, <4>4, w \in Workers, LocalUpdate
    <3>3. TypeOK'
      BY <3>1, <3>2
    <3>4. AttemptsBounded'
      OBVIOUS
    <3>5. HasJob'
      OBVIOUS
    <3>6. VerdictHolds'
      OBVIOUS
    <3>7. ClaimLineage'
      OBVIOUS
    <3>8. OkWasRun'
      OBVIOUS
    <3>9. SucceededWasRun'
      OBVIOUS
    <3>10. QED
      BY <3>3, <3>4, <3>5, <3>6, <3>7, <3>8, <3>9
  <2>8. ASSUME NEW r \in Rows, SelectCandidate(w, r) PROVE IInv'
    <3> USE <2>8 DEF SelectCandidate, DrainsOn
    <3>1. QueueTypeOK'
      OBVIOUS
    <3>2. local' \in [Workers -> Local]
      <4>1. local \in [Workers -> Local] /\ local[w] \in Local
        OBVIOUS
      <4>2. r \in Rows \cup {NoRow}
        OBVIOUS
      <4>3. [local[w] EXCEPT !.job = r] \in Local
        BY ONLY <4>1, <4>2, LocalJob
      <4>4. local' = [local EXCEPT ![w] = [local[w] EXCEPT !.job = r]]
        OBVIOUS
      <4>5. QED
        BY ONLY <4>1, <4>3, <4>4, w \in Workers, LocalUpdate
    <3>3. TypeOK'
      BY <3>1, <3>2
    <3>4. AttemptsBounded'
      OBVIOUS
    <3>5. HasJob'
      OBVIOUS
    <3>6. VerdictHolds'
      OBVIOUS
    <3>7. ClaimLineage'
      OBVIOUS
    <3>8. OkWasRun'
      OBVIOUS
    <3>9. SucceededWasRun'
      OBVIOUS
    <3>10. QED
      BY <3>3, <3>4, <3>5, <3>6, <3>7, <3>8, <3>9
  <2>9. CASE ClaimCas(w)
    <3> USE <2>9 DEF ClaimCas, Claimed, ClaimRow, Claimable
    <3>1. QueueTypeOK'
      OBVIOUS
    <3>2. local' \in [Workers -> Local]
      <4>1. local \in [Workers -> Local] /\ local[w] \in Local
        OBVIOUS
      <4>2. job(w) \in Rows /\ attempts[job(w)] + 1 \in 0 .. MaxAttempts
        OBVIOUS
      <4>3. [local[w] EXCEPT !.job = job(w), !.misses = 0, !.claim_no = attempts[job(w)] + 1] \in Local
        BY ONLY <4>1, <4>2, LocalClaim
      <4>4. local' = [local EXCEPT ![w] = [local[w] EXCEPT !.job = job(w), !.misses = 0, !.claim_no = attempts[job(w)] + 1]]
        OBVIOUS
      <4>5. QED
        BY ONLY <4>1, <4>3, <4>4, w \in Workers, LocalUpdate
    <3>3. TypeOK'
      BY <3>1, <3>2
    <3>4. AttemptsBounded'
      OBVIOUS
    <3>5. HasJob'
      OBVIOUS
    <3>6. VerdictHolds'
      OBVIOUS
    <3>7. ClaimLineage'
      OBVIOUS
    <3>8. OkWasRun'
      OBVIOUS
    <3>9. SucceededWasRun'
      OBVIOUS
    <3>10. QED
      BY <3>3, <3>4, <3>5, <3>6, <3>7, <3>8, <3>9
  <2>10. CASE ClaimMiss(w)
    <3> USE <2>10 DEF ClaimMiss, PassEnds
    <3>1. QueueTypeOK'
      OBVIOUS
    <3>2. local' \in [Workers -> Local]
      <4>1. local \in [Workers -> Local] /\ local[w] \in Local
        OBVIOUS
      <4>2. CASE local[w].misses + 1 < ClaimTries
        <5>1. local[w].misses + 1 \in 0 .. ClaimTries - 1 /\ NoRow \in Rows \cup {NoRow}
          BY <4>2
        <5>2. [local[w] EXCEPT !.job = NoRow, !.misses = local[w].misses + 1] \in Local
          BY ONLY <4>1, <5>1, LocalMiss
        <5>3. local' = [local EXCEPT ![w] =
                          [local[w] EXCEPT !.job = NoRow, !.misses = local[w].misses + 1]]
          BY ONLY <2>10, <4>2 DEF ClaimMiss, job
        <5>4. QED
          BY ONLY <4>1, <5>2, <5>3, w \in Workers, LocalUpdate
      <4>3. CASE ~ (local[w].misses + 1 < ClaimTries)
        BY <4>3
      <4>4. QED
        BY <4>2, <4>3
    <3>3. TypeOK'
      BY <3>1, <3>2
    <3>4. /\ pc'[w] \in {"drain", "poll", "down"}
          /\ \A v \in Workers : v # w => pc'[v] = pc[v] /\ local'[v] = local[v]
          /\ UNCHANGED <<rowVars, commits>>
      <4>1. pc \in [Workers -> Pc] /\ local \in [Workers -> Local]
        OBVIOUS
      <4>2. PICK label \in {"drain", "poll", "down"} : pc' = [pc EXCEPT ![w] = label]
        BY ONLY <2>10 DEF ClaimMiss, PassEnds, Move
      <4>3. PICK l : local' = [local EXCEPT ![w] = l]
        BY ONLY <2>10 DEF ClaimMiss, PassEnds, Forget, job
      <4>4. UNCHANGED <<rowVars, commits>>
        BY ONLY <2>10 DEF ClaimMiss, envVars
      <4>5. pc'[w] = label /\ \A v \in Workers : v # w => pc'[v] = pc[v]
        BY ONLY <4>1, <4>2, w \in Workers
      <4>6. \A v \in Workers : v # w => local'[v] = local[v]
        BY ONLY <4>1, <4>3, w \in Workers
      <4>7. QED
        BY <4>2, <4>4, <4>5, <4>6
    <3>5. AttemptsBounded' /\ SucceededWasRun'
      BY <3>4
    <3>6. \A v \in Workers : pc'[v] \in Holding \cup {"cas"} =>
              v # w /\ pc'[v] = pc[v] /\ local'[v] = local[v]
      BY ONLY <3>4, w \in Workers DEF Holding
    <3>7. UNCHANGED <<status, attempts, claimed_by, commits>>
      BY <3>4
    <3>8. HasJob' /\ OkWasRun'
      BY ONLY HasJob, OkWasRun, <3>6, <3>7 DEF HasJob, OkWasRun, Holding, job
    <3>9. VerdictHolds' /\ ClaimLineage'
      BY ONLY VerdictHolds, ClaimLineage, <3>6, <3>7
      DEF VerdictHolds, ClaimLineage, Holding, Owns, WorkerId, job
    <3>10. QED
      BY <3>3, <3>5, <3>8, <3>9
  <2>11. CASE HandlerCommits(w)
    BY <2>11 DEF HandlerCommits
  <2>12. CASE HandlerFails(w)
    BY <2>12 DEF HandlerFails, AfterRaise
  <2>13. CASE MarkSucceeded(w)
    <3> USE <2>13 DEF MarkSucceeded, SettleRow, BackToDrain
    <3>1. QueueTypeOK'
      <4>1. QueueTypeOK /\ job(w) \in Rows /\ UNCHANGED callVars
        OBVIOUS
      <4>2. SettleRow(w, job(w), "succeeded")
        BY ONLY <2>13 DEF MarkSucceeded
      <4>3. QED
        BY ONLY <4>1, <4>2, w \in Workers, SettleTypes
    <3>2. local' \in [Workers -> Local]
      OBVIOUS
    <3>3. TypeOK'
      BY <3>1, <3>2
    <3>4. AttemptsBounded'
      OBVIOUS
    <3>5. HasJob'
      OBVIOUS
    <3>6. VerdictHolds'
      OBVIOUS
    <3>7. ClaimLineage'
      OBVIOUS
    <3>8. OkWasRun'
      OBVIOUS
    <3>9. SucceededWasRun'
      OBVIOUS
    <3>10. QED
      BY <3>3, <3>4, <3>5, <3>6, <3>7, <3>8, <3>9
  <2>14. CASE MarkFailedRead(w)
    <3> USE <2>14 DEF MarkFailedRead, Exhausted
    <3>1. QueueTypeOK'
      OBVIOUS
    <3>2. local' \in [Workers -> Local]
      <4>1. local \in [Workers -> Local] /\ local[w] \in Local
        OBVIOUS
      <4>2. (IF pc[w] = "nohandler" \/ Exhausted(job(w)) THEN "failed" ELSE "queued") \in {"none", "queued", "failed"}
        OBVIOUS
      <4>3. [local[w] EXCEPT !.verdict = IF pc[w] = "nohandler" \/ Exhausted(job(w)) THEN "failed" ELSE "queued"] \in Local
        BY ONLY <4>1, <4>2, LocalVerdict
      <4>4. local' = [local EXCEPT ![w] = [local[w] EXCEPT !.verdict = IF pc[w] = "nohandler" \/ Exhausted(job(w)) THEN "failed" ELSE "queued"]]
        OBVIOUS
      <4>5. QED
        BY ONLY <4>1, <4>3, <4>4, w \in Workers, LocalUpdate
    <3>3. TypeOK'
      BY <3>1, <3>2
    <3>4. AttemptsBounded'
      OBVIOUS
    <3>5. HasJob'
      OBVIOUS
    <3>6. VerdictHolds'
      OBVIOUS
    <3>7. ClaimLineage'
      OBVIOUS
    <3>8. OkWasRun'
      OBVIOUS
    <3>9. SucceededWasRun'
      OBVIOUS
    <3>10. QED
      BY <3>3, <3>4, <3>5, <3>6, <3>7, <3>8, <3>9
  <2>15. CASE MarkFailed(w)
    <3> USE <2>15 DEF MarkFailed, SettleRow, BackToDrain
    <3>1. QueueTypeOK'
      <4>1. QueueTypeOK /\ job(w) \in Rows /\ UNCHANGED callVars
        OBVIOUS
      <4>2. SettleRow(w, job(w), local[w].verdict)
        BY ONLY <2>15 DEF MarkFailed
      <4>3. local[w].verdict \in {"queued", "failed"}
        OBVIOUS
      <4>4. QED
        BY ONLY <4>1, <4>2, <4>3, w \in Workers, SettleTypes
    <3>2. local' \in [Workers -> Local]
      OBVIOUS
    <3>3. TypeOK'
      BY <3>1, <3>2
    <3>4. AttemptsBounded'
      OBVIOUS
    <3>5. HasJob'
      OBVIOUS
    <3>6. VerdictHolds'
      OBVIOUS
    <3>7. ClaimLineage'
      OBVIOUS
    <3>8. OkWasRun'
      OBVIOUS
    <3>9. SucceededWasRun'
      OBVIOUS
    <3>10. QED
      BY <3>3, <3>4, <3>5, <3>6, <3>7, <3>8, <3>9
  <2>16. QED
    BY <1>2, <2>1, <2>2, <2>3, <2>4, <2>5, <2>6, <2>7, <2>8, <2>9, <2>10, <2>11,
       <2>12, <2>13, <2>14, <2>15 DEF WorkerStep
<1>3. ASSUME NEW w \in Workers, Interrupted(w) PROVE IInv'
  BY <1>3 DEF Interrupted
<1>4. ASSUME NEW w \in Workers, Shutdown(w) PROVE IInv'
  <2> USE <1>4 DEF Shutdown, StopCleanly
  <2>1. stops' \in 0 .. MaxStops
    OBVIOUS
  <2>2. QueueTypeOK'
    OBVIOUS
  <2>3. CASE pc[w] = "poll"
    <3>1. pc' = [pc EXCEPT ![w] = "down"] /\ local' = [local EXCEPT ![w] = NoLocals]
      BY <2>3
    <3>2. UNCHANGED <<rowVars, callVars, stopping, schedVars, kills, commits>>
      BY <2>3
    <3>3. TypeOK'
      BY <2>1, <2>2, <3>1, <3>2
    <3>4. AttemptsBounded' /\ SucceededWasRun'
      BY <3>2
    <3>5. HasJob' /\ VerdictHolds' /\ ClaimLineage' /\ OkWasRun'
      BY <3>1, <3>2
    <3>6. QED
      BY <3>3, <3>4, <3>5
  <2>4. CASE pc[w] # "poll"
    <3>1. /\ stopping' = [stopping EXCEPT ![w] = TRUE]
          /\ UNCHANGED <<rowVars, pc, local, callVars, schedVars, kills, commits>>
      BY <2>4
    <3>2. TypeOK'
      BY <2>1, <2>2, <3>1
    <3>3. AttemptsBounded' /\ SucceededWasRun' /\ HasJob' /\ VerdictHolds' /\ ClaimLineage' /\ OkWasRun'
      BY <3>1
    <3>4. QED
      BY <3>2, <3>3
  <2>5. QED
    BY <2>3, <2>4
<1>5. ASSUME NEW r \in Rows, TimeStep(r) PROVE IInv'
  <2>1. CASE BecomesDue(r)
    BY <1>5, <2>1 DEF TimeStep, BecomesDue
  <2>2. CASE LeaseLapses(r)
    BY <1>5, <2>2 DEF TimeStep, LeaseLapses
  <2>3. QED
    BY <1>5, <2>1, <2>2 DEF TimeStep
<1>6. ASSUME NEW s \in Schedules, ScheduleComesDue(s) PROVE IInv'
  BY <1>6 DEF ScheduleComesDue
<1>7. CASE UNCHANGED vars
  BY <1>7 DEF vars
<1>8. QED
  BY <1>1, <1>2, <1>3, <1>4, <1>5, <1>6, <1>7 DEF Next

-----------------------------------------------------------------------------
(* What a step does to a row: the refinement of the life cycle.             *)

LEMMA ReclaimRow ==
  ASSUME IInv, ReclaimExpired, NEW r \in Rows
  PROVE  /\ Lifecycle!RowNext(r)
         /\ status[r] = "running" /\ status'[r] # "running" => lapsed[r]
<1>1. CASE r \notin Expired
  BY <1>1 DEF ReclaimExpired, IInv, TypeOK, QueueTypeOK, Expired, Lifecycle!RowNext, Lifecycle!Rests
<1>2. CASE r \in Expired
  <2>1. status[r] = "running" /\ lapsed[r] /\ attempts'[r] = attempts[r] + 0
    BY <1>2 DEF ReclaimExpired, Expired, IInv, TypeOK, QueueTypeOK
  <2>2. CASE Exhausted(r)
    BY <1>2, <2>1, <2>2 DEF ReclaimExpired, Lifecycle!RowNext, Lifecycle!Bury, Lifecycle!Becomes
  <2>3. CASE ~ Exhausted(r)
    <3>1. attempts[r] < MaxAttempts
      BY <2>3, MaxAttemptsAssumption DEF Exhausted, IInv, TypeOK, QueueTypeOK
    <3>2. status'[r] = "queued"
      BY <1>2, <2>3 DEF ReclaimExpired
    <3>3. QED
      BY <2>1, <3>1, <3>2 DEF Lifecycle!RowNext, Lifecycle!Retry, Lifecycle!Becomes
  <2>4. QED
    BY <2>2, <2>3
<1>3. QED
  BY <1>1, <1>2

LEMMA InsertRow ==
  ASSUME IInv, NEW q \in Rows, NEW s, NEW soon, Insert(q, s, soon), NEW r \in Rows
  PROVE  Lifecycle!RowNext(r) /\ (status[r] = "running" => status'[r] = "running")
<1>1. CASE r = q
  <2>1. status[r] = "absent" /\ status'[r] = "queued" /\ attempts'[r] = attempts[r] + 0
    BY <1>1 DEF Insert, IInv, TypeOK, QueueTypeOK
  <2>2. QED
    BY <2>1 DEF Lifecycle!RowNext, Lifecycle!Submit, Lifecycle!Becomes
<1>2. CASE r # q
  BY <1>2 DEF Insert, IInv, TypeOK, QueueTypeOK, Lifecycle!RowNext, Lifecycle!Rests
<1>3. QED
  BY <1>1, <1>2

LEMMA ClaimedRow ==
  ASSUME IInv, NEW w \in Workers, NEW q \in Rows, ClaimRow(w, q), NEW r \in Rows
  PROVE  Lifecycle!RowNext(r) /\ (status[r] = "running" => status'[r] = "running")
<1>1. CASE r = q
  <2>1. /\ status[r] = "queued" /\ status'[r] = "running"
        /\ attempts'[r] = attempts[r] + 1 /\ attempts[r] < MaxAttempts
    BY <1>1 DEF ClaimRow, Claimable, IInv, TypeOK, QueueTypeOK, AttemptsBounded
  <2>2. QED
    BY <2>1 DEF Lifecycle!RowNext, Lifecycle!Start, Lifecycle!Becomes
<1>2. CASE r # q
  BY <1>2 DEF ClaimRow, IInv, TypeOK, QueueTypeOK, Lifecycle!RowNext, Lifecycle!Rests
<1>3. QED
  BY <1>1, <1>2

LEMMA SettledRow ==
  ASSUME IInv, NEW w \in Workers, pc[w] \in Holding, NEW st, SettleRow(w, job(w), st),
         \/ st \in {"succeeded", "failed"}
         \/ st = "queued" /\ (Owns(w, job(w)) => attempts[job(w)] < MaxAttempts),
         NEW r \in Rows
  PROVE  /\ Lifecycle!RowNext(r)
         /\ status[r] = "running" /\ status'[r] # "running" =>
                Holds(w, r) /\ local[w].claim_no = attempts[r]
<1>1. CASE Owns(w, job(w)) /\ r = job(w)
  <2>1. status[r] = "running" /\ status'[r] = st /\ attempts'[r] = attempts[r] + 0
    BY <1>1 DEF SettleRow, Owns, IInv, TypeOK, QueueTypeOK
  <2>2. Lifecycle!RowNext(r)
    BY <1>1, <2>1 DEF Lifecycle!RowNext, Lifecycle!Succeed, Lifecycle!Bury, Lifecycle!Retry,
                      Lifecycle!Becomes
  <2>3. Holds(w, r) /\ local[w].claim_no = attempts[r]
    BY <1>1 DEF Holds, IInv, ClaimLineage, Owns
  <2>4. QED
    BY <2>2, <2>3
<1>2. CASE ~ (Owns(w, job(w)) /\ r = job(w))
  BY <1>2 DEF SettleRow, rowVars, IInv, TypeOK, QueueTypeOK, Lifecycle!RowNext, Lifecycle!Rests
<1>3. QED
  BY <1>1, <1>2

LEMMA RestingRow ==
  ASSUME UNCHANGED <<status, attempts>>, NEW r \in Rows
  PROVE  Lifecycle!RowNext(r) /\ (status[r] = "running" => status'[r] = "running")
  BY DEF Lifecycle!RowNext, Lifecycle!Rests

\* A row leaves "running" by its lease or by the worker of its current claim.
Left(r) ==
    status[r] = "running" /\ status'[r] # "running" =>
        \/ lapsed[r]
        \/ \E w \in Workers : Holds(w, r) /\ pc'[w] = "drain"
                              /\ local[w].claim_no = attempts[r]

LEMMA StepRow ==
  ASSUME IInv, [Next]_vars, NEW r \in Rows
  PROVE  Lifecycle!RowNext(r) /\ Left(r)
<1> USE DEF Left, rowVars
<1>1. ASSUME NEW c \in Calls, EnqueueStep(c) PROVE Lifecycle!RowNext(r) /\ Left(r)
  <2>1. c \in Rows
    BY DEF Rows
  <2>2. CASE \E soon \in BOOLEAN : Insert(c, NoSchedule, soon)
    BY <2>1, <2>2, InsertRow
  <2>3. CASE UNCHANGED rowVars
    BY <2>3, RestingRow
  <2>4. QED
    BY <1>1, <2>2, <2>3 DEF EnqueueStep, Enqueue, EnqueueLookup, EnqueueInsert, EnqueueRelookup
<1>2. ASSUME NEW w \in Workers, WorkerStep(w) PROVE Lifecycle!RowNext(r) /\ Left(r)
  <2>1. CASE Reclaim(w)
    BY <2>1, ReclaimRow DEF Reclaim
  <2>2. ASSUME NEW s \in Schedules, NEW seen \in 0 .. MaxTicks, TickSchedule(w, s, seen)
        PROVE Lifecycle!RowNext(r) /\ Left(r)
    <3>1. CASE UNCHANGED rowVars
      BY <3>1, RestingRow
    <3>2. ASSUME NEW q \in TickRows, Insert(q, s, TRUE)
          PROVE Lifecycle!RowNext(r) /\ Left(r)
      <4>1. q \in Rows
        BY DEF Rows
      <4>2. QED
        BY <3>2, <4>1, InsertRow
    <3>3. QED
      BY <2>2, <3>1, <3>2 DEF TickSchedule, Materialize
  <2>3. ASSUME NEW q \in Rows, ClaimNext(w, q) PROVE Lifecycle!RowNext(r) /\ Left(r)
    BY <2>3, ClaimedRow DEF ClaimNext, Claimed
  <2>4. CASE ClaimCas(w)
    <3>1. job(w) \in Rows
      BY <2>4 DEF ClaimCas, IInv, HasJob
    <3>2. QED
      BY <2>4, <3>1, ClaimedRow DEF ClaimCas, Claimed
  <2>5. CASE MarkSucceeded(w)
    <3>1. pc[w] \in Holding /\ SettleRow(w, job(w), "succeeded")
      BY <2>5 DEF MarkSucceeded, Holding
    <3>2. pc'[w] = "drain"
      BY <2>5 DEF MarkSucceeded, BackToDrain, Move, IInv, TypeOK
    <3>3. QED
      BY <3>1, <3>2, SettledRow
  <2>6. CASE MarkFailed(w)
    <3>1. pc[w] = "settle" /\ pc[w] \in Holding /\ SettleRow(w, job(w), local[w].verdict)
      BY <2>6 DEF MarkFailed, Holding
    <3>2. \/ local[w].verdict \in {"succeeded", "failed"}
          \/ local[w].verdict = "queued" /\ (Owns(w, job(w)) => attempts[job(w)] < MaxAttempts)
      BY <3>1 DEF IInv, VerdictHolds
    <3>3. pc'[w] = "drain"
      BY <2>6 DEF MarkFailed, BackToDrain, Move, IInv, TypeOK
    <3>4. QED
      BY <3>1, <3>2, <3>3, SettledRow
  <2>7. ASSUME \/ Boot(w) \/ TickSnapshot(w) \/ TickDone(w) \/ Drained(w)
               \/ \E q \in Rows : SelectCandidate(w, q)
               \/ ClaimMiss(w) \/ HandlerCommits(w) \/ HandlerFails(w) \/ MarkFailedRead(w)
        PROVE  Lifecycle!RowNext(r) /\ Left(r)
    BY <2>7, RestingRow DEF Boot, TickSnapshot, TickDone, Drained, SelectCandidate, ClaimMiss,
                            HandlerCommits, HandlerFails, MarkFailedRead
  <2>8. QED
    BY <1>2, <2>1, <2>2, <2>3, <2>4, <2>5, <2>6, <2>7 DEF WorkerStep
<1>3. CASE \/ \E w \in Workers : Interrupted(w) \/ Shutdown(w)
           \/ \E q \in Rows : TimeStep(q)
           \/ \E s \in Schedules : ScheduleComesDue(s)
           \/ UNCHANGED vars
  BY <1>3, RestingRow DEF Interrupted, Shutdown, TimeStep, BecomesDue, LeaseLapses,
                          ScheduleComesDue, vars
<1>4. QED
  BY <1>1, <1>2, <1>3 DEF Next

-----------------------------------------------------------------------------
\* The inductive invariant holds of every behavior of the runner.
THEOREM Invariance == Spec => []IInv
  BY InitIInv, StepIInv, PTL DEF Spec

\* Every variable keeps its type; in particular no claim takes attempts beyond
\* max_attempts and no pass runs more than its budget of jobs.
THEOREM TypeCorrect == Spec => []TypeOK
<1>1. IInv => TypeOK
  BY DEF IInv
<1>2. QED
  BY <1>1, Invariance, PTL

\* Claim, retry and reclaim agree on the attempt count: a queued row always has
\* an attempt left, so no job is claimed more than max_attempts times.
THEOREM AttemptsTheorem == Spec => []AttemptsBounded
<1>1. IInv => AttemptsBounded
  BY DEF IInv
<1>2. QED
  BY <1>1, Invariance, PTL

\* A worker named by its row's claimed_by holds the row's latest claim.
THEOREM LineageTheorem == Spec => []ClaimLineage
<1>1. IInv => ClaimLineage
  BY DEF IInv
<1>2. QED
  BY <1>1, Invariance, PTL

\* No row is marked succeeded unless a run of its handler was committed.
THEOREM SuccessTheorem == Spec => []SucceededWasRun
<1>1. IInv => SucceededWasRun
  BY DEF IInv
<1>2. QED
  BY <1>1, Invariance, PTL

\* The late settle of a reclaimed run never touches the run that took over.
THEOREM SettleTheorem == Spec => SettledByItsClaim
<1>1. IInv /\ [Next]_vars =>
        [\A r \in Rows : status[r] = "running" /\ status'[r] # "running" =>
            \/ lapsed[r]
            \/ \E w \in Workers : Holds(w, r) /\ pc'[w] = "drain"
                                  /\ local[w].claim_no = attempts[r]]_vars
  BY StepRow DEF Left
<1>2. QED
  BY <1>1, Invariance, PTL DEF Spec, SettledByItsClaim

\* The job table implements the life cycle each row is promised.
THEOREM RefinementTheorem == Spec => RefinesLifecycle
<1>1. Init => Lifecycle!Init
  BY DEF Init, QueueInit, Lifecycle!Init
<1>2. IInv /\ [Next]_vars => [Lifecycle!Next]_<<status, attempts>>
  BY StepRow DEF Lifecycle!Next
<1>3. QED
  BY <1>1, <1>2, Invariance, PTL DEF Spec, RefinesLifecycle, Lifecycle!Spec

\* Nothing revives a finished row: an instance of the life cycle.
THEOREM TerminalTheorem == Spec => TerminalIsFinal
<1>1. ASSUME IInv, [Next]_vars, NEW r \in Rows, status[r] \in Terminal
      PROVE  status'[r] = status[r]
  BY <1>1, StepRow DEF Terminal, Lifecycle!RowNext, Lifecycle!Submit, Lifecycle!Start,
       Lifecycle!Succeed, Lifecycle!Retry, Lifecycle!Bury, Lifecycle!Becomes, Lifecycle!Rests
<1>2. IInv /\ [Next]_vars =>
        [\A r \in Rows : status[r] \in Terminal => status'[r] = status[r]]_status
  BY <1>1
<1>3. QED
  BY <1>2, Invariance, PTL DEF Spec, TerminalIsFinal

-----------------------------------------------------------------------------
(* Who may be active beside whom: keys and schedules.                       *)

\* Two active rows share neither a key nor a schedule that may not overlap.
Apart(r, q) ==
    status[r] \in Active /\ status[q] \in Active =>
        /\ Key(r) = Key(q) => Key(r) \notin Keys
        /\ schedule_id[r] = schedule_id[q] => schedule_id[r] \notin NoOverlap

RowsOf(s) == {r \in Rows : schedule_id[r] = s}

UInv == /\ \A r, q \in Rows : r # q => Apart(r, q)
        /\ \A s \in Schedules : IsFiniteSet(RowsOf(s)) /\ Cardinality(RowsOf(s)) <= next_run_at[s]

\* A step that inserts no row activates none and assigns no schedule.
Activates ==
    \/ schedule_id' = schedule_id /\ \A r \in Rows : status'[r] \in Active => status[r] \in Active
    \/ \E c \in Calls, soon \in BOOLEAN : Insert(c, NoSchedule, soon) /\ ~ Conflicts(c)
    \/ \E r \in TickRows, s \in Schedules :
          Insert(r, s, TRUE) /\ next_run_at' = [next_run_at EXCEPT ![s] = @ + 1]
                             /\ (s \in NoOverlap => ~ HasActive(s))

LEMMA SettleActivates ==
  ASSUME IInv, NEW w \in Workers, NEW r \in Rows, NEW st, SettleRow(w, r, st)
  PROVE  schedule_id' = schedule_id /\ \A q \in Rows : status'[q] \in Active => status[q] \in Active
  BY DEF SettleRow, Owns, rowVars, IInv, TypeOK, QueueTypeOK, Active

LEMMA ClaimActivates ==
  ASSUME IInv, NEW w \in Workers, NEW r \in Rows, ClaimRow(w, r)
  PROVE  schedule_id' = schedule_id /\ \A q \in Rows : status'[q] \in Active => status[q] \in Active
  BY DEF ClaimRow, Claimable, IInv, TypeOK, QueueTypeOK, Active

LEMMA StepActivates ==
  ASSUME IInv, [Next]_vars
  PROVE  Activates /\ \A s \in Schedules : next_run_at'[s] \in Nat /\ next_run_at'[s] >= next_run_at[s]
<1> DEFINE Grows == \A s \in Schedules : next_run_at'[s] \in Nat /\ next_run_at'[s] >= next_run_at[s]
           Still == schedule_id' = schedule_id /\ \A r \in Rows : status'[r] \in Active => status[r] \in Active
<1> USE DEF rowVars, envVars, schedVars, boundVars
<1>a. next_run_at \in [Schedules -> Nat]
  BY DEF IInv, TypeOK
<1>b. ASSUME next_run_at' = next_run_at PROVE Grows
  BY ONLY <1>a, <1>b
<1>c. Still => Activates
  BY DEF Activates
<1> HIDE DEF Grows
<1>1. ASSUME NEW c \in Calls, EnqueueStep(c) PROVE Activates /\ Grows
  <2>1. next_run_at' = next_run_at
    BY <1>1 DEF EnqueueStep
  <2>2. CASE \E soon \in BOOLEAN : Insert(c, NoSchedule, soon) /\ ~ Conflicts(c)
    BY <2>1, <2>2, <1>b DEF Activates
  <2>3. CASE UNCHANGED rowVars
    BY <2>1, <2>3, <1>b, <1>c
  <2>4. QED
    BY <1>1, <2>2, <2>3 DEF EnqueueStep, Enqueue, EnqueueLookup, EnqueueInsert, EnqueueRelookup
<1>2. ASSUME NEW w \in Workers, WorkerStep(w) PROVE Activates /\ Grows
  <2>1. CASE Reclaim(w)
    <3>1. Still
      BY <2>1 DEF Reclaim, ReclaimExpired, Expired, Active, IInv, TypeOK, QueueTypeOK
    <3>2. QED
      BY <2>1, <3>1, <1>b, <1>c DEF Reclaim
  <2>2. ASSUME NEW s \in Schedules, NEW seen \in 0 .. MaxTicks, TickSchedule(w, s, seen)
        PROVE Activates /\ Grows
    <3>1. CASE UNCHANGED <<rowVars, schedVars>>
      BY <3>1, <1>b, <1>c
    <3>2. CASE Unticked(s, seen) /\ next_run_at' = [next_run_at EXCEPT ![s] = seen + 1] /\ Materialize(s)
      <4>1. next_run_at' = [next_run_at EXCEPT ![s] = next_run_at[s] + 1]
        BY <3>2 DEF Unticked
      <4>2. Grows
        BY ONLY <4>1, <1>a, s \in Schedules DEF Grows
      <4>3. CASE UNCHANGED rowVars
        BY <4>2, <4>3, <1>c
      <4>4. CASE \E r \in TickRows : Insert(r, s, TRUE) /\ (s \in NoOverlap => ~ HasActive(s))
        BY <4>1, <4>2, <4>4 DEF Activates
      <4>5. QED
        BY <3>2, <4>3, <4>4 DEF Materialize
    <3>3. QED
      BY <2>2, <3>1, <3>2 DEF TickSchedule
  <2>3. ASSUME NEW q \in Rows, ClaimNext(w, q) PROVE Activates /\ Grows
    BY <2>3, ClaimActivates, <1>b, <1>c DEF ClaimNext, Claimed
  <2>4. CASE ClaimCas(w)
    <3>1. job(w) \in Rows
      BY <2>4 DEF ClaimCas, IInv, HasJob
    <3>2. QED
      BY <2>4, <3>1, ClaimActivates, <1>b, <1>c DEF ClaimCas, Claimed
  <2>5. CASE MarkSucceeded(w) \/ MarkFailed(w)
    <3>1. job(w) \in Rows /\ \E st : SettleRow(w, job(w), st)
      BY <2>5 DEF MarkSucceeded, MarkFailed, IInv, HasJob, Holding
    <3>2. next_run_at' = next_run_at
      BY <2>5 DEF MarkSucceeded, MarkFailed, BackToDrain
    <3>3. QED
      BY <3>1, <3>2, SettleActivates, <1>b, <1>c
  <2>6. ASSUME \/ Boot(w) \/ TickSnapshot(w) \/ TickDone(w) \/ Drained(w)
               \/ \E q \in Rows : SelectCandidate(w, q)
               \/ ClaimMiss(w) \/ HandlerCommits(w) \/ HandlerFails(w) \/ MarkFailedRead(w)
        PROVE  Activates /\ Grows
    <3>1. UNCHANGED <<rowVars, schedVars>>
      BY <2>6 DEF Boot, TickSnapshot, TickDone, Drained, SelectCandidate, ClaimMiss,
                  HandlerCommits, HandlerFails, MarkFailedRead
    <3>2. QED
      BY <3>1, <1>b, <1>c
  <2>7. QED
    BY <1>2, <2>1, <2>2, <2>3, <2>4, <2>5, <2>6 DEF WorkerStep
<1>3. CASE \/ \E w \in Workers : Interrupted(w) \/ Shutdown(w)
           \/ \E q \in Rows : TimeStep(q)
           \/ \E s \in Schedules : ScheduleComesDue(s)
           \/ UNCHANGED vars
  <2>1. UNCHANGED <<status, schedule_id, next_run_at>>
    BY <1>3 DEF Interrupted, Shutdown, TimeStep, BecomesDue, LeaseLapses, ScheduleComesDue, vars
  <2>2. Still
    BY <2>1
  <2>3. Grows
    BY <2>1, <1>b
  <2>4. QED
    BY <2>2, <2>3, <1>c DEF Grows
<1>4. QED
  BY <1>1, <1>2, <1>3 DEF Next, Grows

LEMMA InsertApart ==
  ASSUME IInv, UInv, NEW n \in Rows, NEW s, NEW soon, Insert(n, s, soon),
         \A q \in Rows : q # n /\ status[q] \in Active =>
             (Key(n) = Key(q) => Key(n) \notin Keys) /\ (s = schedule_id[q] => s \notin NoOverlap)
  PROVE  \A r, q \in Rows : r # q => Apart(r, q)'
<1>1. /\ status[n] = "absent" /\ status'[n] = "queued" /\ schedule_id'[n] = s
      /\ \A q \in Rows : q # n => status'[q] = status[q] /\ schedule_id'[q] = schedule_id[q]
  BY DEF Insert, IInv, TypeOK, QueueTypeOK
<1>2. \A r \in Rows : Key(r)' = Key(r)
  BY DEF Key
<1>3. QED
  BY <1>1, <1>2 DEF Apart, UInv

LEMMA InsertCount ==
  ASSUME IInv, NEW n \in Rows, NEW s, NEW soon, Insert(n, s, soon), NEW t
  PROVE  RowsOf(t)' \subseteq IF t = s THEN RowsOf(t) \cup {n} ELSE RowsOf(t)
  BY DEF Insert, RowsOf, IInv, TypeOK, QueueTypeOK

LEMMA StepUInv == IInv /\ UInv /\ [Next]_vars => UInv'
<1> SUFFICES ASSUME IInv, UInv, [Next]_vars PROVE UInv'
  OBVIOUS
<1>1. \A s \in Schedules : next_run_at[s] \in Nat /\ next_run_at'[s] \in Nat /\ next_run_at'[s] >= next_run_at[s]
  BY StepActivates DEF IInv, TypeOK
<1>2. ASSUME NEW t \in Schedules, RowsOf(t)' \subseteq RowsOf(t)
      PROVE  IsFiniteSet(RowsOf(t))' /\ (Cardinality(RowsOf(t)) <= next_run_at[t])'
  <2>1. IsFiniteSet(RowsOf(t)) /\ Cardinality(RowsOf(t)) <= next_run_at[t]
    BY DEF UInv
  <2>2. IsFiniteSet(RowsOf(t)') /\ Cardinality(RowsOf(t)') <= Cardinality(RowsOf(t))
    BY ONLY <1>2, <2>1, FS_Subset
  <2>3. Cardinality(RowsOf(t)) \in Nat /\ Cardinality(RowsOf(t)') \in Nat
    BY ONLY <2>1, <2>2, FS_CardinalityType
  <2>4. QED
    BY <1>1, <2>1, <2>2, <2>3
<1>3. CASE schedule_id' = schedule_id /\ \A r \in Rows : status'[r] \in Active => status[r] \in Active
  <2>1. \A r, q \in Rows : r # q => Apart(r, q)'
    BY <1>3 DEF UInv, Apart, Key
  <2>2. \A t \in Schedules : RowsOf(t)' \subseteq RowsOf(t)
    BY <1>3 DEF RowsOf
  <2>3. QED
    BY <2>1, <2>2, <1>2 DEF UInv
<1>4. ASSUME NEW c \in Calls, NEW soon \in BOOLEAN, Insert(c, NoSchedule, soon), ~ Conflicts(c) PROVE UInv'
  <2>1. c \in Rows /\ Key(c) = KeyOf[c]
    BY DEF Rows, Key
  <2>2. NoSchedule \notin NoOverlap /\ NoSchedule \notin Schedules /\ NoKey \notin Keys
    BY NamesAssumption, RunnerAssumption
  <2>3. \A q \in Rows : status[q] \in Active /\ Key(c) = Key(q) => Key(c) \notin Keys
    BY <1>4, <2>1, <2>2 DEF Conflicts, ActiveDuplicates
  <2>4. \A r, q \in Rows : r # q => Apart(r, q)'
    BY <1>4, <2>1, <2>2, <2>3, InsertApart
  <2>5. \A t \in Schedules : RowsOf(t)' \subseteq RowsOf(t)
    BY <1>4, <2>1, <2>2, InsertCount
  <2>6. QED
    BY <2>4, <2>5, <1>2 DEF UInv
<1>5. ASSUME NEW n \in TickRows, NEW s \in Schedules, Insert(n, s, TRUE),
             next_run_at' = [next_run_at EXCEPT ![s] = @ + 1], s \in NoOverlap => ~ HasActive(s)
      PROVE  UInv'
  <2>1. n \in Rows /\ Key(n) = NoKey /\ NoKey \notin Keys
    BY NamesAssumption DEF Rows, Key
  <2>2. \A r, q \in Rows : r # q => Apart(r, q)'
    <3>1. \A q \in Rows : status[q] \in Active /\ s = schedule_id[q] => s \notin NoOverlap
      BY <1>5 DEF HasActive
    <3>2. QED
      BY <1>5, <2>1, <3>1, InsertApart
  <2>3. ASSUME NEW t \in Schedules
        PROVE  IsFiniteSet(RowsOf(t))' /\ (Cardinality(RowsOf(t)) <= next_run_at[t])'
    <3>1. CASE t # s
      BY <1>5, <2>1, <3>1, <1>2, InsertCount
    <3>2. CASE t = s
      <4>1. IsFiniteSet(RowsOf(s)) /\ Cardinality(RowsOf(s)) <= next_run_at[s]
        BY DEF UInv
      <4>2. IsFiniteSet(RowsOf(s) \cup {n})
        BY ONLY <4>1, FS_AddElement
      <4>3. Cardinality(RowsOf(s)) \in Nat
        BY ONLY <4>1, FS_CardinalityType
      <4>4. Cardinality(RowsOf(s) \cup {n}) \in Nat /\ Cardinality(RowsOf(s) \cup {n}) <= Cardinality(RowsOf(s)) + 1
        <5>1. \/ Cardinality(RowsOf(s) \cup {n}) = Cardinality(RowsOf(s))
              \/ Cardinality(RowsOf(s) \cup {n}) = Cardinality(RowsOf(s)) + 1
          BY ONLY <4>1, FS_AddElement
        <5>2. QED
          BY ONLY <5>1, <4>3
      <4>5. RowsOf(s)' \subseteq RowsOf(s) \cup {n}
        BY <1>5, <2>1, InsertCount
      <4>6. IsFiniteSet(RowsOf(s)') /\ Cardinality(RowsOf(s)') <= Cardinality(RowsOf(s) \cup {n})
        BY ONLY <4>2, <4>5, FS_Subset
      <4>7. Cardinality(RowsOf(s)') \in Nat
        BY ONLY <4>6, FS_CardinalityType
      <4>8. next_run_at'[s] = next_run_at[s] + 1
        BY <1>5 DEF IInv, TypeOK
      <4>9. Cardinality(RowsOf(s)') <= next_run_at'[s]
        BY ONLY <4>1, <4>3, <4>4, <4>6, <4>7, <4>8, <1>1, s \in Schedules
      <4>10. QED
        BY <3>2, <4>6, <4>9
    <3>3. QED
      BY <3>1, <3>2
  <2>4. QED
    BY <2>2, <2>3 DEF UInv
<1>6. QED
  BY <1>3, <1>4, <1>5, StepActivates DEF Activates

LEMMA InitUInv == Init => UInv
<1> SUFFICES ASSUME Init PROVE UInv
  OBVIOUS
<1>1. \A r \in Rows : status[r] \notin Active
  BY DEF Init, QueueInit, Active
<1>2. ASSUME NEW s \in Schedules PROVE IsFiniteSet(RowsOf(s)) /\ Cardinality(RowsOf(s)) <= next_run_at[s]
  <2>1. RowsOf(s) = {}
    BY NamesAssumption DEF Init, QueueInit, RowsOf
  <2>2. IsFiniteSet({}) /\ Cardinality({}) = 0
    BY ONLY FS_EmptySet
  <2>3. next_run_at[s] = 0
    BY DEF Init
  <2>4. QED
    BY <2>1, <2>2, <2>3
<1>3. QED
  BY <1>1, <1>2 DEF UInv, Apart

LEMMA AtMostOne ==
  ASSUME NEW S, \A x, y \in S : x = y
  PROVE  Cardinality(S) <= 1
<1>1. CASE S = {}
  <2>1. Cardinality(S) = 0
    BY ONLY <1>1, FS_EmptySet
  <2>2. QED
    BY <2>1
<1>2. CASE \E x \in S : TRUE
  <2>1. PICK x \in S : TRUE
    BY <1>2
  <2>2. S = {x}
    BY <2>1
  <2>3. Cardinality(S) = 1
    BY ONLY <2>2, FS_Singleton
  <2>4. QED
    BY <2>3
<1>3. QED
  BY <1>1, <1>2

\* In every reachable state two active rows share neither a key nor a no_overlap schedule.
THEOREM UniqueInvariance == Spec => []UInv
  BY InitUInv, StepUInv, Invariance, PTL DEF Spec

\* However many enqueue calls race past the lookup, one active row holds a key.
THEOREM KeyTheorem == Spec => []OneActivePerKey
<1>1. ASSUME UInv, NEW k \in Keys PROVE Cardinality(ActiveDuplicates(k)) <= 1
  <2>1. \A x, y \in ActiveDuplicates(k) : x = y
    BY <1>1 DEF UInv, Apart, ActiveDuplicates
  <2>2. QED
    BY <2>1, AtMostOne
<1>2. UInv => OneActivePerKey
  BY <1>1 DEF OneActivePerKey
<1>3. QED
  BY <1>2, UniqueInvariance, PTL

\* A no_overlap schedule has one active job, and no schedule has more jobs than ticks,
\* whichever workers tick it.
THEOREM StackingTheorem == Spec => []NoStacking
<1>1. ASSUME UInv, NEW s \in NoOverlap
      PROVE  Cardinality({r \in Rows : schedule_id[r] = s /\ status[r] \in Active}) <= 1
  <2>1. \A x, y \in {r \in Rows : schedule_id[r] = s /\ status[r] \in Active} : x = y
    BY <1>1 DEF UInv, Apart
  <2>2. QED
    BY <2>1, AtMostOne
<1>2. UInv => NoStacking
  BY <1>1 DEF UInv, NoStacking, RowsOf
<1>3. QED
  BY <1>2, UniqueInvariance, PTL

-----------------------------------------------------------------------------
(* Clean shutdowns.                                                         *)

\* While no process was killed, the claimant of a running row is at it until the lease
\* lapses.
Held == kills = 0 => \A r \in Rows : status[r] = "running" /\ ~ lapsed[r]
            => \E w \in Workers : Holds(w, r) /\ claimed_by[r] = WorkerId(w)

LEMMA StepHeld == IInv /\ Held /\ [Next]_vars => Held'
<1> SUFFICES ASSUME IInv, Held, [Next]_vars, kills' = 0,
                    NEW r \in Rows, status'[r] = "running", ~ lapsed'[r]
             PROVE  (\E w \in Workers : Holds(w, r) /\ claimed_by[r] = WorkerId(w))'
  BY DEF Held
<1> USE DEF rowVars, envVars, boundVars, Holds, job, WorkerId, Move
<1>a. /\ status \in [Rows -> Status] /\ claimed_by \in [Rows -> Workers \cup {NoWorker}]
      /\ lapsed \in [Rows -> BOOLEAN] /\ pc \in [Workers -> Pc] /\ local \in [Workers -> Local]
      /\ kills \in Nat
  BY DEF IInv, TypeOK, QueueTypeOK
\* The claimant goes on holding the row as long as the step does not move it out.
<1>b. ASSUME kills' = kills, status[r] = "running", ~ lapsed[r], claimed_by'[r] = claimed_by[r],
             \A w \in Workers : Holds(w, r) /\ claimed_by[r] = w => Holds(w, r)'
      PROVE  (\E w \in Workers : Holds(w, r) /\ claimed_by[r] = WorkerId(w))'
  <2>1. PICK w \in Workers : Holds(w, r) /\ claimed_by[r] = w
    BY <1>b DEF Held
  <2>2. Holds(w, r)' /\ claimed_by'[r] = w
    BY <1>b, <2>1
  <2>3. QED
    BY <2>2
<1>c. ASSUME UNCHANGED <<kills, rowVars>>, \A w \in Workers : Holds(w, r) => Holds(w, r)'
      PROVE  (\E w \in Workers : Holds(w, r) /\ claimed_by[r] = WorkerId(w))'
  BY <1>b, <1>c
<1>d. ASSUME NEW w \in Workers, NEW q \in Rows, Claimed(w, q), pc[w] \notin Holding
      PROVE  (\E v \in Workers : Holds(v, r) /\ claimed_by[r] = WorkerId(v))'
  <2>1. ClaimRow(w, q) /\ pc' = [pc EXCEPT ![w] = "run"] /\ kills' = kills
    BY <1>d DEF Claimed
  <2>2. local'[w].job = q /\ \A v \in Workers : v # w => local'[v] = local[v]
    BY <1>a, <1>d DEF Claimed, Local
  <2>3. CASE q = r
    BY <1>a, <2>1, <2>2, <2>3 DEF ClaimRow, Holding
  <2>4. CASE q # r
    <3>1. status[r] = "running" /\ ~ lapsed[r] /\ claimed_by'[r] = claimed_by[r]
      BY <1>a, <2>1, <2>4 DEF ClaimRow
    <3>2. \A v \in Workers : Holds(v, r) => Holds(v, r)'
      BY <1>a, <1>d, <2>1, <2>2
    <3>3. QED
      BY <1>b, <2>1, <3>1, <3>2
  <2>5. QED
    BY <2>3, <2>4
<1>e. ASSUME NEW w \in Workers, NEW st, st # "running", SettleRow(w, job(w), st), BackToDrain(w), job(w) \in Rows
      PROVE  (\E v \in Workers : Holds(v, r) /\ claimed_by[r] = WorkerId(v))'
  <2>1. kills' = kills
    BY <1>e DEF BackToDrain
  <2>2. \A v \in Workers : v # w /\ Holds(v, r) => Holds(v, r)'
    BY <1>a, <1>e DEF BackToDrain
  <2>3. status[r] = "running" /\ ~ lapsed[r] /\ claimed_by'[r] = claimed_by[r]
        /\ ~ (job(w) = r /\ claimed_by[r] = w)
    <3>1. CASE Owns(w, job(w))
      BY <1>a, <1>e, <3>1 DEF SettleRow, Owns
    <3>2. CASE ~ Owns(w, job(w))
      BY <1>a, <1>e, <3>2 DEF SettleRow, Owns
    <3>3. QED
      BY <3>1, <3>2
  <2>4. QED
    BY <1>b, <2>1, <2>2, <2>3
<1>1. ASSUME NEW c \in Calls, EnqueueStep(c) PROVE (\E w \in Workers : Holds(w, r) /\ claimed_by[r] = WorkerId(w))'
  <2>1. UNCHANGED <<kills, pc, local>>
    BY <1>1 DEF EnqueueStep
  <2>2. CASE UNCHANGED rowVars
    BY <1>c, <2>1, <2>2
  <2>3. ASSUME NEW soon \in BOOLEAN, Insert(c, NoSchedule, soon)
        PROVE (\E w \in Workers : Holds(w, r) /\ claimed_by[r] = WorkerId(w))'
    <3>1. status[r] = "running" /\ UNCHANGED <<claimed_by, lapsed>>
      BY <1>a, <2>3 DEF Insert
    <3>2. QED
      BY <1>b, <2>1, <3>1
  <2>4. QED
    BY <1>1, <2>2, <2>3 DEF EnqueueStep, Enqueue, EnqueueLookup, EnqueueInsert, EnqueueRelookup
<1>2. ASSUME NEW w \in Workers, WorkerStep(w) PROVE (\E v \in Workers : Holds(v, r) /\ claimed_by[r] = WorkerId(v))'
  <2>1. CASE Reclaim(w)
    <3>1. status[r] = "running" /\ ~ lapsed[r] /\ claimed_by'[r] = claimed_by[r] /\ kills' = kills
      BY <1>a, <2>1 DEF Reclaim, ReclaimExpired, Expired
    <3>2. \A v \in Workers : Holds(v, r) => Holds(v, r)'
      BY <1>a, <2>1 DEF Reclaim, Holding
    <3>3. QED
      BY <1>b, <3>1, <3>2
  <2>2. ASSUME NEW s \in Schedules, NEW seen \in 0 .. MaxTicks, TickSchedule(w, s, seen)
        PROVE  (\E v \in Workers : Holds(v, r) /\ claimed_by[r] = WorkerId(v))'
    <3>1. kills' = kills /\ \A v \in Workers : Holds(v, r) => Holds(v, r)'
      BY <1>a, <2>2 DEF TickSchedule, Holding
    <3>2. CASE UNCHANGED rowVars
      BY <1>c, <3>1, <3>2
    <3>3. ASSUME NEW q \in TickRows, Insert(q, s, TRUE)
          PROVE  (\E v \in Workers : Holds(v, r) /\ claimed_by[r] = WorkerId(v))'
      <4>1. status[r] = "running" /\ UNCHANGED <<claimed_by, lapsed>>
        BY <1>a, <3>3 DEF Insert
      <4>2. QED
        BY <1>b, <3>1, <4>1
    <3>4. QED
      BY <2>2, <3>2, <3>3 DEF TickSchedule, Materialize
  <2>3. ASSUME NEW q \in Rows, ClaimNext(w, q)
        PROVE  (\E v \in Workers : Holds(v, r) /\ claimed_by[r] = WorkerId(v))'
    BY <1>d, <2>3 DEF ClaimNext, Holding
  <2>4. CASE ClaimCas(w)
    <3>1. job(w) \in Rows /\ pc[w] \notin Holding /\ Claimed(w, job(w))
      BY <2>4 DEF ClaimCas, IInv, HasJob, Holding
    <3>2. QED
      BY <1>d, <3>1
  <2>5. CASE MarkSucceeded(w)
    <3>1. job(w) \in Rows
      BY <2>5 DEF MarkSucceeded, IInv, HasJob, Holding
    <3>2. QED
      BY <1>e, <2>5, <3>1 DEF MarkSucceeded
  <2>6. CASE MarkFailed(w)
    <3>1. job(w) \in Rows /\ local[w].verdict # "running"
      BY <2>6 DEF MarkFailed, IInv, HasJob, VerdictHolds, Holding
    <3>2. QED
      BY <1>e, <2>6, <3>1 DEF MarkFailed
  <2>7. ASSUME \/ Boot(w) \/ TickDone(w) \/ Drained(w) \/ ClaimMiss(w)
               \/ HandlerCommits(w) \/ HandlerFails(w)
        PROVE  (\E v \in Workers : Holds(v, r) /\ claimed_by[r] = WorkerId(v))'
    <3>1. UNCHANGED <<kills, rowVars>>
      BY <2>7 DEF Boot, TickDone, Drained, ClaimMiss, HandlerCommits, HandlerFails
    <3>2. \A v \in Workers : Holds(v, r) => Holds(v, r)'
      BY <1>a, <2>7 DEF Boot, TickDone, Drained, ClaimMiss, HandlerCommits, HandlerFails, PassEnds,
                        Forget, Holding, AfterRaise, Pc
    <3>3. QED
      BY <1>c, <3>1, <3>2
  <2>8. ASSUME TickSnapshot(w) \/ MarkFailedRead(w) \/ \E q \in Rows : SelectCandidate(w, q)
        PROVE  (\E v \in Workers : Holds(v, r) /\ claimed_by[r] = WorkerId(v))'
    <3>1. UNCHANGED <<kills, rowVars>>
      BY <2>8 DEF TickSnapshot, MarkFailedRead, SelectCandidate
    <3>2. \A v \in Workers : v # w /\ Holds(v, r) => Holds(v, r)'
      BY <1>a, <2>8 DEF TickSnapshot, MarkFailedRead, SelectCandidate, Holding
    <3>3. Holds(w, r) => Holds(w, r)'
      <4>1. CASE MarkFailedRead(w)
        <5>1. local'[w].job = local[w].job
          BY <1>a, <4>1, LocalVerdict DEF MarkFailedRead, Local
        <5>2. QED
          BY <1>a, <4>1, <5>1 DEF MarkFailedRead, Holding
      <4>2. CASE ~ MarkFailedRead(w)
        BY <2>8, <4>2 DEF TickSnapshot, SelectCandidate, Holding
      <4>3. QED
        BY <4>1, <4>2
    <3>4. QED
      BY <1>c, <3>1, <3>2, <3>3
  <2>9. QED
    BY <1>2, <2>1, <2>2, <2>3, <2>4, <2>5, <2>6, <2>7, <2>8 DEF WorkerStep
<1>3. ASSUME NEW w \in Workers, Interrupted(w) PROVE FALSE
  BY <1>a, <1>3 DEF Interrupted
<1>4. ASSUME NEW w \in Workers, Shutdown(w)
      PROVE  (\E v \in Workers : Holds(v, r) /\ claimed_by[r] = WorkerId(v))'
  <2>1. UNCHANGED <<kills, rowVars>>
    BY <1>4 DEF Shutdown
  <2>2. \A v \in Workers : Holds(v, r) => Holds(v, r)'
    BY <1>a, <1>4 DEF Shutdown, StopCleanly, Forget, Holding
  <2>3. QED
    BY <1>c, <2>1, <2>2
<1>5. ASSUME NEW q \in Rows, TimeStep(q)
      PROVE  (\E v \in Workers : Holds(v, r) /\ claimed_by[r] = WorkerId(v))'
  <2>1. UNCHANGED <<status, claimed_by, kills, pc, local>> /\ ~ lapsed[r]
    BY <1>a, <1>5 DEF TimeStep, BecomesDue, LeaseLapses
  <2>2. QED
    BY <1>b, <2>1
<1>6. CASE (\E s \in Schedules : ScheduleComesDue(s)) \/ UNCHANGED vars
  <2>1. UNCHANGED <<kills, rowVars, pc, local>>
    BY <1>6 DEF ScheduleComesDue, vars
  <2>2. QED
    BY <1>c, <2>1
<1>7. QED
  BY <1>1, <1>2, <1>3, <1>4, <1>5, <1>6 DEF Next

LEMMA InitHeld == Init => Held
  BY DEF Init, QueueInit, Held

\* Unless a process was killed, a graceful shutdown leaves no running row behind.
THEOREM ShutdownTheorem == Spec => []ShutdownIsClean
<1>1. IInv /\ Held => ShutdownIsClean
  BY DEF IInv, Held, ShutdownIsClean, ClaimLineage, Holds, WorkerId
<1>2. QED
  BY <1>1, InitHeld, StepHeld, Invariance, PTL DEF Spec
=============================================================================
