----------------------- MODULE DeliveryOutbox_proofs -----------------------
(***************************************************************************)
(* Safety of the outbox for every number of rows and passes.  Types and    *)
(* PendingIsRetryable hold whatever the timing; exclusive sending, and     *)
(* what follows from it, needs that no live send outlasts its claim.       *)
(***************************************************************************)
EXTENDS DeliveryOutbox, FiniteSetTheorems, TLAPS

\* What a pass holds between its transactions.
ItemHeld == \A p \in Passes :
    /\ pc[p] \in {"send", "finish"} => item[p].row \in Deliveries
    /\ pc[p] = "finish" => result[p] \in Results \ {"none"}

\* Only a finished row may have used up its attempts.
AttemptLeft == \A r \in Deliveries : status[r] \notin Terminal => attempts[r] < MAX_ATTEMPTS

TInv == TypeOK /\ ItemHeld /\ AttemptLeft

LEMMA InitTInv == Init => TInv
  BY OutboxAssumption DEF Init, TInv, TypeOK, ItemHeld, AttemptLeft, Status, Terminal,
     Results, NoItem

LEMMA StepTInv == TInv /\ [Next]_vars => TInv'
<1> SUFFICES ASSUME TInv, [Next]_vars PROVE TInv'
  OBVIOUS
<1> USE OutboxAssumption
<1> USE DEF TInv, TypeOK, ItemHeld, AttemptLeft, Status, Terminal, Results, NoItem,
            rowVars, passVars, Move
<1>1. ASSUME NEW r \in Deliveries, Notify(r) \/ ClaimAges(r) PROVE TInv'
  <2>1. CASE Notify(r)
    <3>1. attempts[r] \in 0 .. MAX_ATTEMPTS
      OBVIOUS
    <3>2. QED
      BY <2>1, <3>1 DEF Notify
  <2>2. CASE ClaimAges(r)
    BY <2>2 DEF ClaimAges
  <2>3. QED
    BY <1>1, <2>1, <2>2
<1>2. ASSUME NEW p \in Passes, OpenPass(p) PROVE TInv'
  <2> USE <1>2 DEF OpenPass, Reclaimed, Stale, Lowest
  <2>1. status' \in [Deliveries -> Status] /\ stale' \in [Deliveries -> BOOLEAN]
    OBVIOUS
  <2>2. AttemptLeft'
    OBVIOUS
  <2> DEFINE due == {r \in Deliveries : status'[r] = "pending" /\ attempts[r] < MAX_ATTEMPTS}
             Taken(limit) == {<<r, attempts[r]>> : r \in Lowest(due, limit)}
  <2>0. PICK limit \in Limits : batch' = [batch EXCEPT ![p] = Taken(limit)]
    OBVIOUS
  <2> DEFINE rows == Taken(limit)
  <2>3. \A r \in Lowest(due, limit) : r \in Deliveries /\ attempts[r] \in 0 .. MAX_ATTEMPTS - 1
    OBVIOUS
  <2>4. rows \in SUBSET (Deliveries \X (0 .. MAX_ATTEMPTS - 1))
    <3>1. ASSUME NEW row \in rows PROVE row \in Deliveries \X (0 .. MAX_ATTEMPTS - 1)
      <4>1. PICK r \in Lowest(due, limit) : row = <<r, attempts[r]>>
        BY ONLY <3>1
      <4>2. QED
        BY ONLY <2>3, <4>1
    <3>2. QED
      BY ONLY <3>1
  <2>5. batch' = [batch EXCEPT ![p] = rows]
    BY <2>0
  <2>6. batch' \in [Passes -> SUBSET (Deliveries \X (0 .. MAX_ATTEMPTS - 1))]
    BY <2>4, <2>5
  <2> HIDE DEF due, rows
  <2>7. TypeOK'
    BY <2>1, <2>6
  <2>8. ItemHeld'
    OBVIOUS
  <2>9. QED
    BY <2>2, <2>7, <2>8
<1>3. ASSUME NEW p \in Passes, Claim(p) PROVE TInv'
  <2>1. PICK r \in Deliveries, n \in 0 .. MAX_ATTEMPTS - 1 :
          /\ batch' = [batch EXCEPT ![p] = @ \ {<<r, n>>}]
          /\ IF CanClaim(r)
             THEN /\ status' = [status EXCEPT ![r] = "sending"]
                  /\ stale' = [stale EXCEPT ![r] = FALSE]
                  /\ item' = [item EXCEPT ![p] = [row |-> r, attempts |-> n]]
                  /\ Move(p, "send")
             ELSE UNCHANGED <<status, stale, item, pc>>
    BY <1>3 DEF Claim
  <2>2. UNCHANGED <<attempts, result, crashes, accepted>>
    BY <1>3 DEF Claim
  <2>3. batch' \in [Passes -> SUBSET (Deliveries \X (0 .. MAX_ATTEMPTS - 1))]
    BY <2>1
  <2>4. CASE CanClaim(r)
    <3>1. [row |-> r, attempts |-> n]
            \in [row : Deliveries \cup {0}, attempts : 0 .. MAX_ATTEMPTS - 1]
      OBVIOUS
    <3>2. /\ status' \in [Deliveries -> Status] /\ stale' \in [Deliveries -> BOOLEAN]
          /\ pc' \in [Passes -> {"idle", "loop", "send", "finish"}]
      BY <2>1, <2>4
    <3>6. item' \in [Passes -> [row : Deliveries \cup {0}, attempts : 0 .. MAX_ATTEMPTS - 1]]
      BY ONLY TypeOK, <2>1, <2>4, <3>1 DEF TypeOK
    <3>7. TypeOK'
      BY <2>2, <2>3, <3>2, <3>6
    <3>3. ItemHeld'
      BY <2>1, <2>2, <2>4, <3>1
    <3>4. AttemptLeft'
      BY <2>1, <2>2, <2>4 DEF CanClaim
    <3>5. QED
      BY <3>7, <3>3, <3>4
  <2>5. CASE ~ CanClaim(r)
    BY <2>1, <2>2, <2>3, <2>5
  <2>6. QED
    BY <2>4, <2>5
<1>4. ASSUME NEW p \in Passes, Deliver(p) PROVE TInv'
  <2>1. PICK how \in Results \ {"none"} :
          /\ result' = [result EXCEPT ![p] = how]
          /\ accepted' = [accepted EXCEPT ![item[p].row] = IF how = "returned" THEN @ + 1 ELSE @]
    BY <1>4 DEF Deliver
  <2>2. /\ pc[p] = "send" /\ pc' = [pc EXCEPT ![p] = "finish"]
        /\ UNCHANGED <<rowVars, batch, item, crashes>>
    BY <1>4 DEF Deliver
  <2> DEFINE r == item[p].row
  <2>10. r \in Deliveries /\ accepted[r] + 1 \in Nat
    <3>1. r \in Deliveries
      BY <2>2
    <3>2. QED
      BY ONLY TypeOK, <3>1 DEF TypeOK
  <2>3. accepted' \in [Deliveries -> Nat]
    <3>1. accepted \in [Deliveries -> Nat]
      OBVIOUS
    <3>2. (IF how = "returned" THEN accepted[r] + 1 ELSE accepted[r]) \in Nat
      BY ONLY <2>10, <3>1
    <3>3. accepted' = [accepted EXCEPT ![r] = IF how = "returned" THEN accepted[r] + 1 ELSE accepted[r]]
      BY ONLY <2>1
    <3>4. QED
      BY ONLY <2>10, <3>1, <3>2, <3>3
  <2>4. TypeOK'
    BY <2>1, <2>2, <2>3
  <2>5. ItemHeld' /\ AttemptLeft'
    BY <2>1, <2>2
  <2>6. QED
    BY <2>4, <2>5
<1>5. ASSUME NEW p \in Passes, Finish(p) PROVE TInv'
  BY <1>5 DEF Finish, Outcome, Attempts
<1>6. ASSUME NEW p \in Passes, ClosePass(p) PROVE TInv'
  BY <1>6 DEF ClosePass
<1>7. ASSUME NEW p \in Passes, Crash(p) PROVE TInv'
  BY <1>7 DEF Crash
<1>8. CASE UNCHANGED vars
  BY <1>8 DEF vars
<1>9. QED
  BY <1>1, <1>2, <1>3, <1>4, <1>5, <1>6, <1>7, <1>8 DEF Next, PassStep

LEMMA TypesHold == Spec => []TInv
  BY InitTInv, StepTInv, PTL DEF Spec

-----------------------------------------------------------------------------
(* Exclusive sending, when no live send outlasts its claim.                 *)

Exclusive ==
    /\ \A p \in Passes : pc[p] \in {"send", "finish"} =>
          status[item[p].row] = "sending" /\ ~ stale[item[p].row]
    /\ \A p, q \in Passes : \A r \in Deliveries : Handles(p, r) /\ Handles(q, r) => p = q

\* A row's sends are paid for by crashes, but for the one that marks it sent.
Paid ==
    \A r \in Deliveries :
        /\ accepted[r] <= 1 + crashes
        /\ accepted[r] = 1 + crashes =>
              \/ status[r] = "sent"
              \/ \E p \in Passes : pc[p] = "finish" /\ item[p].row = r /\ result[p] = "returned"

\* What is about to be marked sent was accepted.
MarkIsTrue ==
    \A p \in Passes : pc[p] = "finish" /\ result[p] = "returned" => accepted[item[p].row] > 0

\* A row is marked sent only after an adapter accepted it.
SentWasAccepted == \A r \in Deliveries : status[r] = "sent" => accepted[r] > 0

XInv == Exclusive /\ Paid /\ MarkIsTrue /\ SentWasAccepted

LEMMA InitXInv == Init => XInv
  BY OutboxAssumption DEF Init, XInv, Exclusive, Paid, MarkIsTrue, SentWasAccepted, Handles

LEMMA StepXInv ==
  ASSUME ~ SlowSends PROVE TInv /\ XInv /\ [Next]_vars => XInv'
<1> SUFFICES ASSUME TInv, XInv, [Next]_vars PROVE XInv'
  OBVIOUS
<1> USE OutboxAssumption
<1> USE DEF TInv, TypeOK, ItemHeld, XInv, Exclusive, Paid, MarkIsTrue, SentWasAccepted,
            Handles, Status, Terminal, Results, NoItem, rowVars, passVars, Move
<1>1. ASSUME NEW r \in Deliveries, Notify(r) PROVE XInv'
  BY <1>1 DEF Notify
<1>2. ASSUME NEW r \in Deliveries, ClaimAges(r) PROVE XInv'
  BY <1>2 DEF ClaimAges
<1>3. ASSUME NEW p \in Passes, OpenPass(p) PROVE XInv'
  <2>1. pc' = [pc EXCEPT ![p] = "loop"] /\ pc[p] = "idle"
        /\ UNCHANGED <<attempts, item, result, crashes, accepted>>
    BY <1>3 DEF OpenPass
  <2>2. \A r \in Deliveries : ~ (status[r] = "sending" /\ stale[r]) =>
            status'[r] = status[r] /\ stale'[r] = stale[r]
    BY <1>3 DEF OpenPass, Reclaimed, Stale
  <2>3. \A r \in Deliveries : status'[r] = "sent" <=> status[r] = "sent"
    BY <1>3 DEF OpenPass, Reclaimed, Stale
  <2>4. Exclusive'
    <3>1. \A q \in Passes : pc'[q] \in {"send", "finish"} =>
              q # p /\ pc[q] \in {"send", "finish"} /\ item'[q] = item[q]
      BY <2>1
    <3>2. \A q \in Passes : pc'[q] \in {"send", "finish"} =>
              status'[item'[q].row] = "sending" /\ ~ stale'[item'[q].row]
      BY ONLY <2>2, <3>1, TInv, Exclusive DEF TInv, ItemHeld, Exclusive
    <3>3. QED
      BY ONLY <3>1, <3>2, Exclusive DEF Exclusive, Handles
  <2>5. QED
    BY <2>1, <2>3, <2>4
<1>4. ASSUME NEW p \in Passes, Claim(p) PROVE XInv'
  <2>1. PICK r \in Deliveries, n \in 0 .. MAX_ATTEMPTS - 1 :
          IF CanClaim(r)
          THEN /\ status' = [status EXCEPT ![r] = "sending"]
               /\ stale' = [stale EXCEPT ![r] = FALSE]
               /\ item' = [item EXCEPT ![p] = [row |-> r, attempts |-> n]]
               /\ Move(p, "send")
          ELSE UNCHANGED <<status, stale, item, pc>>
    BY <1>4 DEF Claim
  <2>2. pc[p] = "loop" /\ UNCHANGED <<attempts, result, crashes, accepted>>
    BY <1>4 DEF Claim
  <2>3. CASE CanClaim(r)
    <3>1. \A q \in Passes : ~ Handles(q, r)
      BY <2>3 DEF CanClaim
    <3>2. \A q \in Passes : pc'[q] \in {"send", "finish"} =>
              IF q = p THEN item'[q].row = r
              ELSE pc'[q] = pc[q] /\ item'[q] = item[q] /\ item[q].row # r
                   /\ item[q].row \in Deliveries
      BY <2>1, <2>2, <2>3, <3>1
    <3>3. \A q \in Passes : pc'[q] \in {"send", "finish"} =>
              status'[item'[q].row] = "sending" /\ ~ stale'[item'[q].row]
      BY ONLY <2>1, <2>3, <3>2, TypeOK, Exclusive DEF TypeOK, Exclusive
    <3>4. Exclusive'
      BY ONLY <3>2, <3>3, Exclusive DEF Exclusive, Handles
    <3>5. Paid'
      <4>1. \A q \in Passes : pc[q] = "finish" => pc'[q] = "finish" /\ item'[q] = item[q]
        BY <2>1, <2>2, <2>3
      <4>2. \A d \in Deliveries : status[d] = "sent" => status'[d] = "sent"
        BY <2>1, <2>3 DEF CanClaim
      <4>3. QED
        BY ONLY <2>2, <4>1, <4>2, Paid DEF Paid
    <3>6. MarkIsTrue' /\ SentWasAccepted'
      BY <2>1, <2>2, <2>3, <3>2
    <3>7. QED
      BY <3>4, <3>5, <3>6
  <2>4. CASE ~ CanClaim(r)
    BY <2>1, <2>2, <2>4
  <2>5. QED
    BY <2>3, <2>4
<1>5. ASSUME NEW p \in Passes, Deliver(p) PROVE XInv'
  <2>1. PICK how \in Results \ {"none"} :
          /\ result' = [result EXCEPT ![p] = how]
          /\ accepted' = [accepted EXCEPT ![item[p].row] = IF how = "returned" THEN @ + 1 ELSE @]
    BY <1>5 DEF Deliver
  <2>2. /\ pc[p] = "send" /\ pc' = [pc EXCEPT ![p] = "finish"]
        /\ UNCHANGED <<rowVars, batch, item, crashes>>
    BY <1>5 DEF Deliver
  <2>3. item[p].row \in Deliveries /\ accepted[item[p].row] <= crashes
    <3> DEFINE r == item[p].row
    <3>1. r \in Deliveries /\ status[r] = "sending"
      BY <2>2
    <3>6. r \in Deliveries /\ item[p].row = r /\ pc[p] = "send"
      BY <2>2
    <3> HIDE DEF r
    <3>2. ~ \E q \in Passes : pc[q] = "finish" /\ item[q].row = r
      BY ONLY <3>6, Exclusive DEF Exclusive, Handles
    <3>3. accepted[r] # 1 + crashes
      BY ONLY <3>1, <3>2, Paid DEF Paid
    <3>4. accepted[r] \in Nat /\ crashes \in Nat /\ accepted[r] <= 1 + crashes
      BY ONLY <3>1, TypeOK, Paid, OutboxAssumption DEF TypeOK, Paid
    <3>5. QED
      BY ONLY <3>6, <3>3, <3>4
  <2>4. Exclusive'
    BY <2>2
  <2>5. Paid'
    BY <2>1, <2>2, <2>3
  <2>6. \A r \in Deliveries : accepted[r] > 0 => accepted'[r] > 0
    BY ONLY TypeOK, <2>1 DEF TypeOK
  <2>7. SentWasAccepted'
    BY <2>2, <2>6
  <2>8. MarkIsTrue'
    <3>1. ASSUME NEW q \in Passes, pc'[q] = "finish", result'[q] = "returned"
          PROVE  accepted'[item'[q].row] > 0
      <4>1. CASE q = p
        <5>1. how = "returned"
          BY <2>1, <3>1, <4>1
        <5>2. accepted[item[p].row] \in Nat /\ item'[q].row = item[p].row
          BY <2>2, <2>3, <4>1
        <5>3. accepted'[item[p].row] = accepted[item[p].row] + 1
          BY ONLY <2>1, <2>3, <5>1, TypeOK DEF TypeOK
        <5>4. QED
          BY ONLY <5>2, <5>3
      <4>2. CASE q # p
        <5>1. pc[q] = "finish" /\ result[q] = "returned" /\ item'[q] = item[q]
          BY <2>1, <2>2, <3>1, <4>2
        <5>2. accepted[item[q].row] > 0 /\ item[q].row \in Deliveries
          BY <5>1
        <5>3. QED
          BY ONLY <2>6, <5>1, <5>2
      <4>3. QED
        BY <4>1, <4>2
    <3>2. QED
      BY <3>1
  <2>9. QED
    BY <2>4, <2>5, <2>7, <2>8
<1>6. ASSUME NEW p \in Passes, Finish(p) PROVE XInv'
  <2> DEFINE r == item[p].row
             st == Outcome(result[p], item[p].attempts + 1)
  <2>1. /\ pc[p] = "finish" /\ pc' = [pc EXCEPT ![p] = "loop"]
        /\ status' = [status EXCEPT ![r] = st]
        /\ stale' = [stale EXCEPT ![r] = FALSE]
        /\ item' = [item EXCEPT ![p] = NoItem]
        /\ result' = [result EXCEPT ![p] = "none"]
        /\ UNCHANGED <<crashes, accepted>>
    BY <1>6 DEF Finish
  <2>2. st = "sent" <=> result[p] = "returned"
    BY <2>1 DEF Outcome
  <2>3. r \in Deliveries
    BY <2>1
  <2> HIDE DEF st
  <2>4. Exclusive'
    <3>1. \A q \in Passes : pc'[q] \in {"send", "finish"} =>
              /\ q # p /\ pc[q] \in {"send", "finish"} /\ item'[q] = item[q]
              /\ item[q].row # r /\ item[q].row \in Deliveries
      <4>1. ASSUME NEW q \in Passes, pc'[q] \in {"send", "finish"}
            PROVE  /\ q # p /\ pc[q] \in {"send", "finish"} /\ item'[q] = item[q]
                   /\ item[q].row # r /\ item[q].row \in Deliveries
        <5>1. q # p
          BY <2>1, <4>1
        <5>2. pc[q] \in {"send", "finish"} /\ item'[q] = item[q]
          BY <2>1, <4>1, <5>1
        <5>3. item[q].row \in Deliveries
          BY <5>2
        <5>4. item[q].row # r
          BY <2>1, <2>3, <5>1, <5>2
        <5>5. QED
          BY ONLY <5>1, <5>2, <5>3, <5>4
      <4>2. QED
        BY ONLY <4>1
    <3>2. \A q \in Passes : pc'[q] \in {"send", "finish"} =>
              status'[item'[q].row] = "sending" /\ ~ stale'[item'[q].row]
      BY ONLY <2>1, <2>3, <3>1, TypeOK, Exclusive DEF TypeOK, Exclusive
    <3>3. QED
      BY ONLY <3>1, <3>2, Exclusive DEF Exclusive, Handles
  <2>5. Paid'
    BY <2>1, <2>2, <2>3
  <2>6. MarkIsTrue' /\ SentWasAccepted'
    BY <2>1, <2>2, <2>3
  <2>7. QED
    BY <2>4, <2>5, <2>6
<1>7. ASSUME NEW p \in Passes, ClosePass(p) PROVE XInv'
  BY <1>7 DEF ClosePass
<1>8. ASSUME NEW p \in Passes, Crash(p) PROVE XInv'
  BY <1>8 DEF Crash
<1>9. CASE UNCHANGED vars
  BY <1>9 DEF vars
<1>10. QED
  BY <1>1, <1>2, <1>3, <1>4, <1>5, <1>6, <1>7, <1>8, <1>9 DEF Next, PassStep

LEMMA ExclusiveHolds ==
  ASSUME ~ SlowSends PROVE Spec => [](TInv /\ XInv)
<1>1. TInv /\ XInv /\ [Next]_vars => TInv' /\ XInv'
  BY StepTInv, StepXInv
<1>2. QED
  BY InitTInv, InitXInv, <1>1, PTL DEF Spec

-----------------------------------------------------------------------------
(* The results.                                                             *)

\* Whatever the interleaving and the timing of the passes, a pending row has an
\* attempt left, so the query of the next pass finds it.
THEOREM RetryableTheorem == Spec => []PendingIsRetryable
<1>1. TInv => PendingIsRetryable
  BY DEF TInv, AttemptLeft, PendingIsRetryable, Terminal
<1>2. QED
  BY <1>1, TypesHold, PTL

\* No row is sent by two passes at once, when no live send outlasts its claim.
THEOREM OneSenderTheorem ==
  ASSUME ~ SlowSends PROVE Spec => []OneSender
<1>1. TInv /\ XInv => OneSender
  <2> SUFFICES ASSUME XInv, NEW r \in Deliveries
               PROVE  Cardinality({p \in Passes : Handles(p, r)}) <= 1
    BY DEF OneSender
  <2> DEFINE S == {p \in Passes : Handles(p, r)}
  <2>1. \A p, q \in S : p = q
    BY DEF XInv, Exclusive
  <2>2. CASE S = {}
    BY <2>2, FS_EmptySet
  <2>3. CASE S # {}
    <3>1. PICK p \in S : TRUE
      BY <2>3
    <3>2. S = {p}
      BY <2>1, <3>1
    <3>3. Cardinality({p}) = 1
      BY ONLY FS_Singleton
    <3>4. Cardinality(S) = 1
      BY ONLY <3>2, <3>3
    <3>5. QED
      BY ONLY <3>4
  <2>4. QED
    BY <2>2, <2>3
<1>2. QED
  BY <1>1, ExclusiveHolds, PTL

\* Under the same condition, sends of a row beyond the first accepted one are
\* all due to crashes between a send and its mark.
THEOREM DuplicatesTheorem ==
  ASSUME ~ SlowSends PROVE Spec => []DuplicatesOnlyByCrash
<1>1. XInv => DuplicatesOnlyByCrash
  BY DEF XInv, Paid, DuplicatesOnlyByCrash
<1>2. QED
  BY <1>1, ExclusiveHolds, PTL

\* ... and a finished row is never touched again.
THEOREM FinalTheorem ==
  ASSUME ~ SlowSends PROVE Spec => OutcomeIsFinal
<1>1. ASSUME TInv, XInv, [Next]_vars, NEW r \in Deliveries, status[r] \in Terminal
      PROVE  status'[r] = status[r]
  <2>1. ASSUME NEW q \in Deliveries, Notify(q) PROVE status'[r] = status[r]
    BY <1>1, <2>1 DEF Notify, TInv, TypeOK, Terminal
  <2>2. ASSUME NEW p \in Passes, OpenPass(p) PROVE status'[r] = status[r]
    BY <1>1, <2>2 DEF OpenPass, Reclaimed, Stale, Terminal
  <2>3. ASSUME NEW p \in Passes, Claim(p) PROVE status'[r] = status[r]
    BY <1>1, <2>3 DEF Claim, CanClaim, TInv, TypeOK, Terminal
  <2>4. ASSUME NEW p \in Passes, Finish(p) PROVE status'[r] = status[r]
    <3>1. status[item[p].row] = "sending"
      BY <1>1, <2>4 DEF Finish, XInv, Exclusive
    <3>2. r # item[p].row
      BY <1>1, <3>1 DEF Terminal
    <3>3. QED
      BY <1>1, <2>4, <3>2 DEF Finish, TInv, TypeOK
  <2>5. QED
    BY <1>1, <2>1, <2>2, <2>3, <2>4
       DEF Next, PassStep, ClaimAges, Deliver, ClosePass, Crash, vars, rowVars
<1>2. TInv /\ XInv /\ [Next]_vars =>
        [\A r \in Deliveries : status[r] \in Terminal => status'[r] = status[r]]_status
  BY <1>1
<1>3. QED
  BY <1>2, ExclusiveHolds, PTL DEF Spec, OutcomeIsFinal
=============================================================================
