---------------------------- MODULE JobLifecycle ----------------------------
(***************************************************************************)
(* What the job table promises of each row, whoever claims, settles or     *)
(* reclaims it: the life cycle of JobStatus with the attempt accounting of *)
(* BackgroundJob's docstring.  One step may move several rows at once,     *)
(* because reclaim_expired is one UPDATE over many rows.                   *)
(***************************************************************************)
EXTENDS Naturals

CONSTANTS Rows, MaxAttempts
VARIABLES status, attempts

Init ==
    /\ status = [r \in Rows |-> "absent"]
    /\ attempts = [r \in Rows |-> 0]

Becomes(r, from, to, n) ==
    /\ status[r] = from
    /\ status'[r] = to
    /\ attempts'[r] = attempts[r] + n

Submit(r) == Becomes(r, "absent", "queued", 0)
Start(r) == attempts[r] < MaxAttempts /\ Becomes(r, "queued", "running", 1)
Succeed(r) == Becomes(r, "running", "succeeded", 0)
Retry(r) == attempts[r] < MaxAttempts /\ Becomes(r, "running", "queued", 0)
Bury(r) == Becomes(r, "running", "failed", 0)
Rests(r) == status'[r] = status[r] /\ attempts'[r] = attempts[r]

RowNext(r) == Submit(r) \/ Start(r) \/ Succeed(r) \/ Retry(r) \/ Bury(r) \/ Rests(r)

Next == \A r \in Rows : RowNext(r)

Spec == Init /\ [][Next]_<<status, attempts>>
=============================================================================
