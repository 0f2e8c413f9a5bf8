------------------------ MODULE OracleBreaker_proofs ------------------------
(***************************************************************************)
(* Types, the claimed probes, and, as long as every request ends in a      *)
(* verdict, the single probe of a half-open breaker, for every number of   *)
(* callers and resources and every threshold.                              *)
(***************************************************************************)
EXTENDS OracleBreaker, FiniteSetTheorems, TLAPS

\* Breakers that are off never open.
OffIsClosed == \A n \in Names : breaker[n].opened # "closed" => Failures > 0

TInv == BreakerTypeOK /\ OffIsClosed /\ ProbeInFlight

LEMMA ClaimType ==
  ASSUME NEW b \in Breaker, Allows(b), b.probing => b.opened = "half_open"
  PROVE  /\ ClaimProbe(b) \in Breaker
         /\ ClaimProbe(b).opened = b.opened
         /\ ClaimProbe(b).probing => b.opened = "half_open"
  BY DEF Breaker, Allows, ClaimProbe

LEMMA RecordType ==
  ASSUME NEW b \in Breaker, NEW fault \in BOOLEAN, b.opened # "closed" => Failures > 0
  PROVE  /\ Record(b, fault) \in Breaker
         /\ Record(b, fault).probing = FALSE
         /\ Record(b, fault).opened # "closed" => Failures > 0
  BY BreakerAssumption DEF Breaker, Record, Trips, Faults

LEMMA ReleaseType ==
  ASSUME NEW b \in Breaker
  PROVE  /\ ReleaseProbe(b) \in Breaker
         /\ ReleaseProbe(b).probing = FALSE
         /\ ReleaseProbe(b).opened = b.opened
  BY DEF Breaker, ReleaseProbe

LEMMA InitTInv == BreakerInit => TInv
<1> SUFFICES ASSUME BreakerInit PROVE TInv
  OBVIOUS
<1> USE BreakerAssumption DEF BreakerInit
<1>1. [consecutive |-> 0, opened |-> "closed", probing |-> FALSE] \in Breaker
  BY DEF Breaker
<1>2. BreakerTypeOK
  BY <1>1 DEF BreakerTypeOK
<1>3. OffIsClosed /\ ProbeInFlight
  BY DEF OffIsClosed, ProbeInFlight, Names
<1>4. QED
  BY <1>2, <1>3 DEF TInv

\* A verdict: the breakers that hear it have no probe afterwards.
LEMMA HearTInv ==
  ASSUME TInv, NEW c \in Callers, NEW N \in SUBSET Names, ResourceOf[c] \in N,
         NEW fault \in BOOLEAN, Hear(N, fault), up' \in BOOLEAN, released' \in BOOLEAN,
         request' \in [Callers -> {"idle", "sent", "resent"}],
         \A d \in Callers : d # c => request'[d] = request[d]
  PROVE  TInv'
<1> USE BreakerAssumption DEF TInv
<1>1. \A n \in Names : breaker'[n] = IF n \in N THEN Record(breaker[n], fault) ELSE breaker[n]
  BY DEF Hear
<1>2. \A n \in Names : breaker[n] \in Breaker /\ (breaker[n].opened # "closed" => Failures > 0)
  BY DEF BreakerTypeOK, OffIsClosed
<1>3. \A n \in Names : breaker'[n] \in Breaker
  <2> TAKE n \in Names
  <2>1. breaker[n] \in Breaker /\ (breaker[n].opened # "closed" => Failures > 0)
    BY <1>2
  <2>2. Record(breaker[n], fault) \in Breaker
    BY ONLY <2>1, RecordType, fault \in BOOLEAN, Zenon
  <2>3. QED
    BY ONLY <1>1, <2>1, <2>2
<1>9. \A n \in N : breaker'[n].probing = FALSE /\ (breaker'[n].opened # "closed" => Failures > 0)
  <2> TAKE n \in N
  <2>1. breaker[n] \in Breaker /\ (breaker[n].opened # "closed" => Failures > 0)
    BY <1>2
  <2>2. breaker'[n] = Record(breaker[n], fault)
    BY <1>1
  <2> HIDE DEF TInv
  <2>3. QED
    BY ONLY <2>1, <2>2, RecordType, Zenon
<1>4. \A n \in Names : breaker'[n].opened # "closed" => Failures > 0
  BY <1>1, <1>2, <1>9
<1>5. \A n \in Names : breaker'[n].probing => n \notin N /\ breaker'[n] = breaker[n]
  BY <1>1, <1>9
<1>6. breaker' = [n \in Names |-> breaker'[n]] /\ claimed' \in [Callers -> SUBSET Names]
  BY DEF Hear, BreakerTypeOK
<1>7. BreakerTypeOK'
  BY <1>3, <1>5, <1>6 DEF BreakerTypeOK
<1>8. ProbeInFlight'
  BY <1>5 DEF ProbeInFlight, InFlight, Names
<1>10. QED
  BY <1>4, <1>7, <1>8 DEF OffIsClosed

LEMMA StepTInv == TInv /\ [BreakerNext]_breakerVars => TInv'
<1> SUFFICES ASSUME TInv, [BreakerNext]_breakerVars PROVE TInv'
  OBVIOUS
<1> USE BreakerAssumption DEF TInv
<1>0. \A c \in Callers : Heard(c) \in SUBSET Names /\ ResourceOf[c] \in Heard(c)
                          /\ ResourceOf[c] \in Resources
  BY DEF Heard, Names
<1>1. ASSUME NEW n \in Names, CooldownEnds(n) PROVE TInv'
  <2>1. breaker' = [breaker EXCEPT ![n] = [breaker[n] EXCEPT !.opened = "half_open"]]
        /\ breaker[n].opened = "open" /\ breaker[n] \in Breaker
        /\ UNCHANGED <<request, up, claimed, released>>
    BY <1>1 DEF CooldownEnds, BreakerTypeOK
  <2>2. [breaker[n] EXCEPT !.opened = "half_open"] \in Breaker
    BY <2>1 DEF Breaker
  <2>3. BreakerTypeOK'
    BY <2>1, <2>2 DEF BreakerTypeOK, Breaker
  <2>4. OffIsClosed' /\ ProbeInFlight'
    BY <2>1 DEF OffIsClosed, ProbeInFlight, InFlight, BreakerTypeOK, Breaker, Names
  <2>5. QED
    BY <2>3, <2>4
<1>2. ASSUME NEW c \in Callers, SendUnguarded(c) PROVE TInv'
  BY <1>2 DEF SendUnguarded, Sent, BreakerTypeOK, OffIsClosed, ProbeInFlight, InFlight
<1>3. ASSUME NEW c \in Callers, SendGuarded(c) PROVE TInv'
  <2>1. \A n \in Names : breaker'[n] = IF n \in Heard(c) THEN ClaimProbe(breaker[n]) ELSE breaker[n]
    BY <1>3 DEF SendGuarded
  <2>2. \A n \in Heard(c) : Allows(breaker[n])
    BY <1>3 DEF SendGuarded
  <2>3. \A n \in Names : breaker[n] \in Breaker /\ (breaker[n].probing => breaker[n].opened = "half_open")
    BY DEF BreakerTypeOK
  <2>4. \A n \in Names : breaker'[n] \in Breaker /\ breaker'[n].opened = breaker[n].opened
                          /\ (breaker'[n].probing => breaker'[n].opened = "half_open")
    BY <1>0, <2>1, <2>2, <2>3, ClaimType
  <2>5. /\ breaker' = [n \in Names |-> breaker'[n]] /\ UNCHANGED <<up, released>>
        /\ request' = [request EXCEPT ![c] = "sent"]
        /\ claimed' \in [Callers -> SUBSET Names]
    BY <1>0, <1>3 DEF SendGuarded, Sent, BreakerTypeOK
  <2>6. BreakerTypeOK'
    BY <2>4, <2>5 DEF BreakerTypeOK
  <2>7. \A n \in Resources : n = ResourceOf[c] \/ breaker'[n] = breaker[n]
    BY <2>1 DEF Heard, Names
  <2>8. ProbeInFlight'
    BY <2>5, <2>7 DEF ProbeInFlight, InFlight, BreakerTypeOK
  <2>9. QED
    BY <2>4, <2>6, <2>8 DEF OffIsClosed
<1>4. ASSUME NEW c \in Callers, Refused(c) PROVE TInv'
  <2>1. breaker' = [breaker EXCEPT ![HOST] = ClaimProbe(breaker[HOST])] /\ Allows(breaker[HOST])
        /\ UNCHANGED <<request, up, claimed, released>>
    BY <1>4 DEF Refused
  <2>2. breaker[HOST] \in Breaker
    BY DEF BreakerTypeOK, Names
  <2>3. \A n \in Names : n # HOST => breaker'[n] = breaker[n]
    BY <2>1 DEF BreakerTypeOK
  <2>4. breaker'[HOST] \in Breaker /\ breaker'[HOST].opened = breaker[HOST].opened
        /\ (breaker'[HOST].probing => breaker'[HOST].opened = "half_open")
    BY <2>1, <2>2, ClaimType DEF BreakerTypeOK, Names
  <2>5. BreakerTypeOK'
    BY <2>1, <2>3, <2>4 DEF BreakerTypeOK
  <2>6. OffIsClosed' /\ ProbeInFlight'
    BY <2>1, <2>3, <2>4 DEF OffIsClosed, ProbeInFlight, InFlight, Names
  <2>7. QED
    BY <2>5, <2>6
<1>5. ASSUME NEW c \in Callers, Responded(c) \/ Unauthorized(c) \/ Outage(c) \/ NoResponse(c)
      PROVE  TInv'
  <2>1. request' \in [Callers -> {"idle", "sent", "resent"}] /\ up' \in BOOLEAN /\ released' \in BOOLEAN
        /\ \A d \in Callers : d # c => request'[d] = request[d]
    BY <1>5 DEF Responded, Unauthorized, Outage, NoResponse, Done, BreakerTypeOK
  <2>2. \E N \in SUBSET Names, fault \in BOOLEAN : ResourceOf[c] \in N /\ Hear(N, fault)
    <3>1. {ResourceOf[c]} \in SUBSET Names
      BY <1>0 DEF Heard
    <3>2. QED
      BY <1>0, <1>5, <3>1 DEF Responded, Unauthorized, Outage, NoResponse
  <2>3. QED
    BY <2>1, <2>2, HearTInv
<1>6. ASSUME NEW c \in Callers, NoVerdict(c) PROVE TInv'
  <2>1. \A n \in Names : breaker'[n] = IF n \in Heard(c) THEN ReleaseProbe(breaker[n]) ELSE breaker[n]
    BY <1>6 DEF NoVerdict
  <2>2. \A n \in Names : breaker'[n] \in Breaker /\ breaker'[n].opened = breaker[n].opened
                          /\ (breaker'[n].probing => n \notin Heard(c) /\ breaker'[n] = breaker[n])
    BY <2>1, ReleaseType DEF BreakerTypeOK
  <2>3. breaker' = [n \in Names |-> breaker'[n]] /\ UNCHANGED <<up, claimed>>
        /\ released' = TRUE /\ request' = [request EXCEPT ![c] = "idle"]
    BY <1>6 DEF NoVerdict, Done
  <2>4. BreakerTypeOK'
    BY <2>2, <2>3 DEF BreakerTypeOK
  <2>5. ProbeInFlight'
    BY <1>0, <2>2, <2>3 DEF ProbeInFlight, InFlight, Names, BreakerTypeOK
  <2>6. QED
    BY <2>2, <2>4, <2>5 DEF OffIsClosed
<1>7. CASE Recover \/ UNCHANGED breakerVars
  BY <1>7 DEF Recover, breakerVars, BreakerTypeOK, OffIsClosed, ProbeInFlight, InFlight
<1>8. QED
  BY <1>1, <1>2, <1>3, <1>4, <1>5, <1>6, <1>7 DEF BreakerNext, RequestEnds

LEMMA TypesHold == BreakerSpec => []TInv
  BY InitTInv, StepTInv, PTL DEF BreakerSpec

\* The types of the breakers' state, and: only a half-open breaker has a probe.
THEOREM TypeCorrect == BreakerSpec => []BreakerTypeOK
<1>1. TInv => BreakerTypeOK
  BY DEF TInv
<1>2. QED
  BY <1>1, TypesHold, PTL

\* A resource's claimed probe is in flight, also when requests are cancelled.
THEOREM ProbeTheorem == BreakerSpec => []ProbeInFlight
<1>1. TInv => ProbeInFlight
  BY DEF TInv
<1>2. QED
  BY <1>1, TypesHold, PTL

-----------------------------------------------------------------------------
(* One probe at a time: a request in flight that was let out as a probe     *)
(* still holds the claim, and no two requests hold one.                     *)

Holds(c, n) == InFlight(c) /\ n \in claimed[c]

ProbesHeld ==
    ~ released =>
        /\ \A c \in Callers, n \in Names : Holds(c, n) => breaker[n].probing
        /\ \A c, d \in Callers, n \in Names : Holds(c, n) /\ Holds(d, n) => c = d

\* A verdict voids every claim on the breakers that hear it.
LEMMA HearHeld ==
  ASSUME TInv, ProbesHeld, released' = released, NEW c \in Callers, NEW N \in SUBSET Names, NEW fault \in BOOLEAN,
         Hear(N, fault), \A d \in Callers : d # c => request'[d] = request[d], InFlight(c)
  PROVE  ProbesHeld'
<1>1. \A d \in Callers : InFlight(d)' => InFlight(d)
  BY DEF InFlight
<1>2. \A d \in Callers : claimed'[d] = claimed[d] \ {n \in N : ~ fault \/ Trips(breaker[n])}
  BY DEF Hear
<1>3. \A d \in Callers, n \in Names : Holds(d, n)' => Holds(d, n)
  BY <1>1, <1>2 DEF Holds
<1>4. \A n \in Names : breaker[n].probing => Trips(breaker[n])
  BY DEF TInv, BreakerTypeOK, OffIsClosed, Trips
<1>5. ~ released => \A d \in Callers, n \in Names : Holds(d, n)' => n \notin N
  BY <1>2, <1>3, <1>4 DEF Holds, ProbesHeld
<1>6. \A n \in Names : n \notin N => breaker'[n] = breaker[n]
  BY DEF Hear
<1>7. ~ released => \A d \in Callers, n \in Names : Holds(d, n)' => breaker'[n].probing
  BY <1>3, <1>5, <1>6 DEF ProbesHeld
<1>8. QED
  BY <1>3, <1>7 DEF ProbesHeld

LEMMA StepHeld ==
  ASSUME TInv, ProbesHeld, [BreakerNext]_breakerVars
  PROVE  ProbesHeld'
<1> USE BreakerAssumption
<1>0. \A c \in Callers : Heard(c) \in SUBSET Names /\ {ResourceOf[c]} \in SUBSET Names
  BY DEF Heard, Names
<1>1. ASSUME NEW n \in Names, CooldownEnds(n) PROVE ProbesHeld'
  <2>1. \A k \in Names : breaker'[k].probing = breaker[k].probing
    BY <1>1 DEF CooldownEnds, TInv, BreakerTypeOK, Breaker
  <2>2. QED
    BY <1>1, <2>1 DEF CooldownEnds, ProbesHeld, Holds, InFlight
<1>2. ASSUME NEW c \in Callers, SendUnguarded(c) PROVE ProbesHeld'
  <2>1. \A d \in Callers, n \in Names : Holds(d, n)' => Holds(d, n)
    BY <1>2 DEF SendUnguarded, Sent, Holds, InFlight, TInv, BreakerTypeOK
  <2>2. QED
    BY <1>2, <2>1 DEF SendUnguarded, ProbesHeld
<1>3. ASSUME NEW c \in Callers, SendGuarded(c) PROVE ProbesHeld'
  <2>1. \A n \in Names : breaker'[n] = IF n \in Heard(c) THEN ClaimProbe(breaker[n]) ELSE breaker[n]
    BY <1>3 DEF SendGuarded
  <2>2. \A n \in Names : breaker[n].probing => breaker'[n].probing
    BY <2>1 DEF ClaimProbe, TInv, BreakerTypeOK, Breaker
  <2>3. \A d \in Callers, n \in Names : d # c => (Holds(d, n)' <=> Holds(d, n))
    BY <1>3 DEF SendGuarded, Sent, Holds, InFlight
  <2>4. \A n \in Names : Holds(c, n)' => n \in Heard(c) /\ breaker[n].opened # "closed"
    BY <1>3 DEF SendGuarded, Sent, Holds, TInv, BreakerTypeOK
  <2>5. \A n \in Names : Holds(c, n)' => breaker'[n].probing /\ ~ breaker[n].probing
    BY <1>3, <2>1, <2>4 DEF SendGuarded, ClaimProbe, Allows, TInv, BreakerTypeOK, Breaker
  <2>6. ~ released => \A d \in Callers, n \in Names : Holds(d, n)' => breaker'[n].probing
    BY <2>2, <2>3, <2>5 DEF ProbesHeld
  <2>7. ~ released => \A d, e \in Callers, n \in Names : Holds(d, n)' /\ Holds(e, n)' => d = e
    BY <2>3, <2>5 DEF ProbesHeld
  <2>8. QED
    BY <1>3, <2>6, <2>7 DEF SendGuarded, ProbesHeld
<1>4. ASSUME NEW c \in Callers, Refused(c) PROVE ProbesHeld'
  <2>1. \A n \in Names : breaker[n].probing => breaker'[n].probing
    BY <1>4 DEF Refused, ClaimProbe, TInv, BreakerTypeOK, Breaker
  <2>2. QED
    BY <1>4, <2>1 DEF Refused, ProbesHeld, Holds, InFlight
<1>5. ASSUME NEW c \in Callers, Responded(c) \/ Unauthorized(c) \/ Outage(c) \/ NoResponse(c)
      PROVE  ProbesHeld'
  <2>1. InFlight(c) /\ released' = released /\ \A d \in Callers : d # c => request'[d] = request[d]
    BY <1>5 DEF Responded, Unauthorized, Outage, NoResponse, Happens, Done, InFlight, TInv, BreakerTypeOK
  <2>2. \E N \in SUBSET Names, fault \in BOOLEAN : Hear(N, fault)
    BY <1>0, <1>5 DEF Responded, Unauthorized, Outage, NoResponse
  <2>3. QED
    BY <2>1, <2>2, HearHeld
<1>6. ASSUME NEW c \in Callers, NoVerdict(c) PROVE ProbesHeld'
  BY <1>6 DEF NoVerdict, ProbesHeld
<1>7. CASE Recover \/ UNCHANGED breakerVars
  BY <1>7 DEF Recover, breakerVars, ProbesHeld, Holds, InFlight
<1>8. QED
  BY <1>1, <1>2, <1>3, <1>4, <1>5, <1>6, <1>7 DEF BreakerNext, RequestEnds

LEMMA HeldIsOne == ProbesHeld => OneProbe
<1> SUFFICES ASSUME ProbesHeld, ~ released, NEW n \in Names
             PROVE  Cardinality({c \in Callers : InFlight(c) /\ n \in claimed[c]}) <= 1
  BY DEF OneProbe
<1> DEFINE S == {c \in Callers : InFlight(c) /\ n \in claimed[c]}
<1>1. \A c, d \in S : c = d
  BY DEF ProbesHeld, Holds
<1>2. CASE S = {}
  BY <1>2, FS_EmptySet
<1>3. ASSUME NEW c \in S PROVE Cardinality(S) <= 1
  <2>1. S = {c}
    BY <1>1
  <2>2. Cardinality({c}) = 1
    BY ONLY FS_Singleton
  <2>3. Cardinality(S) = 1
    BY ONLY <2>1, <2>2
  <2>4. QED
    BY ONLY <2>3
<1>4. QED
  BY <1>2, <1>3

\* A half-open breaker lets one probe out at a time, as long as no request ends
\* without a verdict (Breaker.allow).
THEOREM OneProbeTheorem == BreakerSpec => []OneProbe
<1>1. BreakerInit => ProbesHeld
  BY DEF BreakerInit, ProbesHeld, Holds, InFlight
<1>2. TInv /\ ProbesHeld /\ [BreakerNext]_breakerVars => ProbesHeld'
  BY StepHeld
<1>3. BreakerSpec => []ProbesHeld
  BY <1>1, <1>2, TypesHold, PTL DEF BreakerSpec
<1>4. QED
  BY <1>3, HeldIsOne, PTL
=============================================================================
