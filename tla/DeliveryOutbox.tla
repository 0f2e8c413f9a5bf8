--------------------------- MODULE DeliveryOutbox ---------------------------
(***************************************************************************)
(* The notification outbox of asas-notifications: the notification_delivery*)
(* rows and the passes of dispatch_pending that send them, sync or async   *)
(* (both take the same steps).  Passes overlap freely: the after-commit    *)
(* hook, the periodic job and other app instances.  Every transaction of a *)
(* pass is a step, the adapter's send between two of them another one.     *)
(*                                                                         *)
(* stale[r] abstracts claimed_at < now - STALE_CLAIM_SECONDS.              *)
(***************************************************************************)
EXTENDS Naturals, FiniteSets

CONSTANTS
    Deliveries,   \* row ids, in the order of their inserts
    Passes,       \* concurrent callers of dispatch_pending
    MAX_ATTEMPTS,
    Limits,       \* the limits callers pass: rows one pass reads
    SlowSends,    \* may a live send outlast STALE_CLAIM_SECONDS?
    MaxCrashes    \* bound: processes killed, or passes cancelled, mid-row

ASSUME OutboxAssumption ==
    /\ Deliveries \subseteq Nat
    /\ MAX_ATTEMPTS \in Nat \ {0}
    /\ Limits \subseteq Nat \ {0}
    /\ SlowSends \in BOOLEAN
    /\ MaxCrashes \in Nat

VARIABLES
    status,       \* each row's status; "absent" before notify inserts it
    attempts,     \* each row's attempts
    stale,        \* is the row's claim older than STALE_CLAIM_SECONDS?
    pc,           \* where each pass is
    batch,        \* the rows a pass has still to handle: <<id, attempts read>>
    item,         \* the row a pass has claimed, with the attempts it read
    result,       \* what the adapter did with it
    crashes,
    accepted      \* history: sends of each row an adapter accepted

rowVars == <<status, attempts, stale>>
passVars == <<pc, batch, item, result>>
vars == <<rowVars, passVars, crashes, accepted>>

Terminal == {"sent", "failed", "skipped"}
Status == {"absent", "pending", "sending"} \cup Terminal
Results == {"none", "returned", "raised", "skip", "noadapter"}
NoItem == [row |-> 0, attempts |-> 0]

TypeOK ==
    /\ status \in [Deliveries -> Status]
    /\ attempts \in [Deliveries -> 0 .. MAX_ATTEMPTS]
    /\ stale \in [Deliveries -> BOOLEAN]
    /\ pc \in [Passes -> {"idle", "loop", "send", "finish"}]
    /\ batch \in [Passes -> SUBSET (Deliveries \X (0 .. MAX_ATTEMPTS - 1))]
    /\ item \in [Passes -> [row : Deliveries \cup {0}, attempts : 0 .. MAX_ATTEMPTS - 1]]
    /\ result \in [Passes -> Results]
    /\ crashes \in 0 .. MaxCrashes
    /\ accepted \in [Deliveries -> Nat]

Init ==
    /\ status = [r \in Deliveries |-> "absent"]
    /\ attempts = [r \in Deliveries |-> 0]
    /\ stale = [r \in Deliveries |-> FALSE]
    /\ pc = [p \in Passes |-> "idle"]
    /\ batch = [p \in Passes |-> {}]
    /\ item = [p \in Passes |-> NoItem]
    /\ result = [p \in Passes |-> "none"]
    /\ crashes = 0
    /\ accepted = [r \in Deliveries |-> 0]

-----------------------------------------------------------------------------
(* The producer and the clock.                                              *)

\* notify's transaction commits its row as pending; transactions need not commit
\* in the order of their inserts.
Notify(r) ==
    /\ status[r] = "absent"
    /\ status' = [status EXCEPT ![r] = "pending"]
    /\ UNCHANGED <<attempts, stale, passVars, crashes, accepted>>

\* A pass has claimed the row and is still alive.
Handles(p, r) == pc[p] \in {"send", "finish"} /\ item[p].row = r

ClaimAges(r) ==
    /\ status[r] = "sending" /\ ~ stale[r]
    /\ SlowSends \/ ~ \E p \in Passes : Handles(p, r)
    /\ stale' = [stale EXCEPT ![r] = TRUE]
    /\ UNCHANGED <<status, attempts, passVars, crashes, accepted>>

-----------------------------------------------------------------------------
(* One pass.                                                                *)

Move(p, label) == pc' = [pc EXCEPT ![p] = label]

Stale(r) == status[r] = "sending" /\ stale[r]
Pending(r) == status[r] = "pending" /\ attempts[r] < MAX_ATTEMPTS

\* Mutant: the probe forgets the claims of crashed passes.
HasFreshPending == \E r \in Deliveries : Pending(r)
\* The probe by which the host decides to run a pass.
has_pending == \E r \in Deliveries : Pending(r) \/ Stale(r)

Lowest(S, limit) == {r \in S : Cardinality({q \in S : q < r}) < limit}

\* The claims an opening pass takes back.
Reclaimed(r) == Stale(r)

OpenPass(p) ==
    /\ pc[p] = "idle" /\ has_pending
    /\ status' = [r \in Deliveries |-> IF Reclaimed(r) THEN "pending" ELSE status[r]]
    /\ stale' = [r \in Deliveries |-> stale[r] /\ ~ Reclaimed(r)]
    /\ LET due == {r \in Deliveries : status'[r] = "pending" /\ attempts[r] < MAX_ATTEMPTS}
       IN  \E limit \in Limits :
               batch' = [batch EXCEPT ![p] = {<<r, attempts[r]>> : r \in Lowest(due, limit)}]
    /\ Move(p, "loop")
    /\ UNCHANGED <<attempts, item, result, crashes, accepted>>

\* Mutant: the claim does not test the status.
CanClaimAny(r) == TRUE
\* The rows-affected CAS of _claim.
CanClaim(r) == status[r] = "pending"

\* The pass takes its next row, in id order; a lost CAS skips it.
Claim(p) ==
    /\ pc[p] = "loop"
    /\ \E r \in Deliveries, n \in 0 .. MAX_ATTEMPTS - 1 :
        /\ <<r, n>> \in batch[p]
        /\ \A later \in batch[p] : r <= later[1]
        /\ batch' = [batch EXCEPT ![p] = @ \ {<<r, n>>}]
        /\ IF CanClaim(r)
           THEN /\ status' = [status EXCEPT ![r] = "sending"]
                /\ stale' = [stale EXCEPT ![r] = FALSE]
                /\ item' = [item EXCEPT ![p] = [row |-> r, attempts |-> n]]
                /\ Move(p, "send")
           ELSE UNCHANGED <<status, stale, item, pc>>
    /\ UNCHANGED <<attempts, result, crashes, accepted>>

\* _deliver: the adapter returns, raises, skips, or there is none.
Deliver(p) ==
    /\ pc[p] = "send"
    /\ \E how \in Results \ {"none"} :
        /\ result' = [result EXCEPT ![p] = how]
        /\ accepted' = [accepted EXCEPT ![item[p].row] = IF how = "returned" THEN @ + 1 ELSE @]
    /\ Move(p, "finish")
    /\ UNCHANGED <<rowVars, batch, item, crashes>>

\* Mutant: a failure is final only one attempt after the cap.
OutcomeLate(how, n) ==
    CASE how = "returned" -> "sent"
      [] how = "raised" -> IF n > MAX_ATTEMPTS THEN "failed" ELSE "pending"
      [] OTHER -> "skipped"
\* The status written for the n-th attempt (_outcome, _no_adapter).
Outcome(how, n) ==
    CASE how = "returned" -> "sent"
      [] how = "raised" -> IF n >= MAX_ATTEMPTS THEN "failed" ELSE "pending"
      [] OTHER -> "skipped"

\* The attempts written: counted from what the pass read, not from the row.
Attempts(how, n, old) == IF how \in {"returned", "raised"} THEN n ELSE old

\* _finish updates the row by its id alone.
Finish(p) ==
    /\ pc[p] = "finish"
    /\ LET r == item[p].row
           n == item[p].attempts + 1
       IN  /\ status' = [status EXCEPT ![r] = Outcome(result[p], n)]
           /\ attempts' = [attempts EXCEPT ![r] = Attempts(result[p], n, @)]
           /\ stale' = [stale EXCEPT ![r] = FALSE]
    /\ Move(p, "loop")
    /\ item' = [item EXCEPT ![p] = NoItem]
    /\ result' = [result EXCEPT ![p] = "none"]
    /\ UNCHANGED <<batch, crashes, accepted>>

ClosePass(p) ==
    /\ pc[p] = "loop" /\ batch[p] = {}
    /\ Move(p, "idle")
    /\ UNCHANGED <<rowVars, batch, item, result, crashes, accepted>>

\* The process dies, or the pass is cancelled: a claimed row stays "sending".
Crash(p) ==
    /\ pc[p] # "idle" /\ crashes < MaxCrashes
    /\ crashes' = crashes + 1
    /\ Move(p, "idle")
    /\ batch' = [batch EXCEPT ![p] = {}]
    /\ item' = [item EXCEPT ![p] = NoItem]
    /\ result' = [result EXCEPT ![p] = "none"]
    /\ UNCHANGED <<rowVars, accepted>>

PassStep(p) == OpenPass(p) \/ Claim(p) \/ Deliver(p) \/ Finish(p) \/ ClosePass(p)

Next ==
    \/ \E r \in Deliveries : Notify(r) \/ ClaimAges(r)
    \/ \E p \in Passes : PassStep(p) \/ Crash(p)

Spec == Init /\ [][Next]_vars

\* The host keeps running passes while the probe reports work, adapters return,
\* and time passes.
FairSpec ==
    /\ Spec
    /\ \A p \in Passes : WF_vars(PassStep(p))
    /\ \A r \in Deliveries : WF_vars(ClaimAges(r))

-----------------------------------------------------------------------------
(* What the outbox promises.                                                *)

\* A row is never sent by two passes at once: the claim committed before the
\* send is exclusive as long as no live send outlasts its claim.
OneSender ==
    \A r \in Deliveries : Cardinality({p \in Passes : Handles(p, r)}) <= 1

\* Every send of a row beyond the first accepted one is due to a crash between
\* a send and its mark, however many passes overlap (dispatch_pending).
DuplicatesOnlyByCrash == \A r \in Deliveries : accepted[r] <= 1 + crashes

\* A pending row is always one a pass picks up: no interleaving of passes parks
\* a row as pending with its attempts used up, where no query finds it.
PendingIsRetryable == \A r \in Deliveries : status[r] = "pending" => attempts[r] < MAX_ATTEMPTS

\* Sent, failed and skipped rows stay so.
OutcomeIsFinal ==
    [][\A r \in Deliveries : status[r] \in Terminal => status'[r] = status[r]]_status

\* Every row comes to rest, also one whose claimant died, and also a row behind
\* others that keep failing and fill the batch limit.
EveryRowSettles == \A r \in Deliveries : status[r] = "pending" ~> status[r] \in Terminal
=============================================================================
