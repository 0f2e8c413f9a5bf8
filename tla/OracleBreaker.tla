---------------------------- MODULE OracleBreaker ----------------------------
(***************************************************************************)
(* The circuit breakers of asas-oracle: one per resource and one for the   *)
(* host, shared by the concurrent requests of one client.  Requests are    *)
(* coroutines of one loop: what a request does between two awaits is one   *)
(* step, so the check of both breakers is atomic, and so is the recording  *)
(* of an outcome.  Time is abstracted to the end of a cooldown.            *)
(***************************************************************************)
EXTENDS Naturals, FiniteSets

CONSTANTS
    Callers,    \* coroutines that make requests, one at a time each
    Resources,
    ResourceOf, \* the resource each caller reads and writes
    HOST,       \* the name of the host's breaker
    Failures,   \* BreakerPolicy.failures
    Outcomes    \* what may become of a request while the upstream is troubled

AllOutcomes == {"answer", "unauthorized", "outage", "no_response", "auth_error", "cancelled"}

ASSUME BreakerAssumption ==
    /\ ResourceOf \in [Callers -> Resources]
    /\ HOST \notin Resources
    /\ Failures \in Nat
    /\ Outcomes \subseteq AllOutcomes

Names == Resources \cup {HOST}

VARIABLES
    breaker,    \* each name's breaker
    request,    \* each caller's request: none, sent, or sent again after a 401
    up,         \* has the upstream recovered for good?
    claimed,    \* history: the probes each request in flight was let out as
    released    \* history: has a request ended without a verdict?

breakerVars == <<breaker, request, up, claimed, released>>

\* consecutive is only compared with Failures: it is counted up to there.
Breaker ==
    [consecutive : 0 .. Failures, opened : {"closed", "open", "half_open"}, probing : BOOLEAN]

BreakerTypeOK ==
    /\ breaker \in [Names -> Breaker]
    /\ request \in [Callers -> {"idle", "sent", "resent"}]
    /\ up \in BOOLEAN
    /\ claimed \in [Callers -> SUBSET Names]
    /\ released \in BOOLEAN
    /\ \A n \in Names : breaker[n].probing => breaker[n].opened = "half_open"

BreakerInit ==
    /\ breaker = [n \in Names |-> [consecutive |-> 0, opened |-> "closed", probing |-> FALSE]]
    /\ request = [c \in Callers |-> "idle"]
    /\ up = FALSE
    /\ claimed = [c \in Callers |-> {}]
    /\ released = FALSE

-----------------------------------------------------------------------------
(* One breaker.                                                             *)

\* Mutant: half-open lets everybody out.
AllowsAll(b) == b.opened # "open"
Allows(b) == b.opened = "closed" \/ (b.opened = "half_open" /\ ~ b.probing)

ClaimProbe(b) == IF b.opened = "closed" THEN b ELSE [b EXCEPT !.probing = TRUE]

ReleaseProbe(b) == [b EXCEPT !.probing = FALSE]

Faults(b) == IF b.consecutive < Failures THEN b.consecutive + 1 ELSE b.consecutive
Trips(b) == Failures > 0 /\ (b.probing \/ Faults(b) >= Failures)

\* Mutant: a fault leaves the probe claimed.
RecordKeepsProbe(b, fault) ==
    IF fault
    THEN [consecutive |-> Faults(b), probing |-> b.probing,
          opened |-> IF Trips(b) THEN "open" ELSE b.opened]
    ELSE [consecutive |-> 0, probing |-> FALSE, opened |-> "closed"]
Record(b, fault) ==
    IF fault
    THEN [consecutive |-> Faults(b), probing |-> FALSE,
          opened |-> IF Trips(b) THEN "open" ELSE b.opened]
    ELSE [consecutive |-> 0, probing |-> FALSE, opened |-> "closed"]

CooldownEnds(n) ==
    /\ breaker[n].opened = "open"
    /\ breaker' = [breaker EXCEPT ![n].opened = "half_open"]
    /\ UNCHANGED <<request, up, claimed, released>>

-----------------------------------------------------------------------------
(* A request: the guard, then the outcome.                                  *)

Heard(c) == {HOST, ResourceOf[c]}

Sent(c, probes) ==
    /\ request' = [request EXCEPT ![c] = "sent"]
    /\ claimed' = [claimed EXCEPT ![c] = probes]

\* A write, or a read with guard=False, is sent whatever the breakers say.
SendUnguarded(c) ==
    /\ request[c] = "idle"
    /\ Sent(c, {})
    /\ UNCHANGED <<breaker, up, released>>

\* The host's breaker is asked first, then the resource's.
SendGuarded(c) ==
    /\ request[c] = "idle"
    /\ \A n \in Heard(c) : Allows(breaker[n])
    /\ breaker' = [n \in Names |-> IF n \in Heard(c) THEN ClaimProbe(breaker[n]) ELSE breaker[n]]
    /\ Sent(c, {n \in Heard(c) : breaker[n].opened # "closed"})
    /\ UNCHANGED <<up, released>>

\* The resource's refuses: what the host's let out is not taken back.
Refused(c) ==
    /\ request[c] = "idle"
    /\ Allows(breaker[HOST]) /\ ~ Allows(breaker[ResourceOf[c]])
    /\ breaker' = [breaker EXCEPT ![HOST] = ClaimProbe(@)]
    /\ UNCHANGED <<request, up, claimed, released>>

\* The breakers N hear a verdict; probes of an opening that is over are void.
Hear(N, fault) ==
    /\ breaker' = [n \in Names |-> IF n \in N THEN Record(breaker[n], fault) ELSE breaker[n]]
    /\ claimed' = [c \in Callers |->
                     claimed[c] \ {n \in N : ~ fault \/ Trips(breaker[n])}]

Done(c) == request' = [request EXCEPT ![c] = "idle"]
Happens(c, how) == request[c] # "idle" /\ (IF up THEN how = "answer" ELSE how \in Outcomes)

\* Any status but those of is_outage is an answer.
Responded(c) == Happens(c, "answer") /\ Hear(Heard(c), FALSE) /\ Done(c) /\ UNCHANGED <<up, released>>

\* A 401 is an answer too; with a renewable credential the request goes once more.
Unauthorized(c) ==
    /\ Happens(c, "unauthorized")
    /\ Hear(Heard(c), FALSE)
    /\ \/ request[c] = "sent" /\ request' = [request EXCEPT ![c] = "resent"]
       \/ Done(c)
    /\ UNCHANGED <<up, released>>

\* 429, 502, 503, 504: the resource's breaker alone hears of it.
Outage(c) ==
    /\ Happens(c, "outage")
    /\ Hear({ResourceOf[c]}, TRUE)
    /\ Done(c)
    /\ UNCHANGED <<up, released>>

NoResponse(c) == Happens(c, "no_response") /\ Hear(Heard(c), TRUE) /\ Done(c) /\ UNCHANGED <<up, released>>

\* OracleAuthError from the credential, or the coroutine is cancelled: no verdict.
NoVerdict(c) ==
    /\ Happens(c, "auth_error") \/ Happens(c, "cancelled")
    /\ breaker' = [n \in Names |-> IF n \in Heard(c) THEN ReleaseProbe(breaker[n]) ELSE breaker[n]]
    /\ Done(c)
    /\ released' = TRUE
    /\ UNCHANGED <<up, claimed>>

Recover == ~ up /\ up' = TRUE /\ UNCHANGED <<breaker, request, claimed, released>>

RequestEnds(c) == Responded(c) \/ Unauthorized(c) \/ Outage(c) \/ NoResponse(c) \/ NoVerdict(c)

BreakerNext ==
    \/ \E n \in Names : CooldownEnds(n)
    \/ \E c \in Callers : SendGuarded(c) \/ SendUnguarded(c) \/ Refused(c) \/ RequestEnds(c)
    \/ Recover

BreakerSpec == BreakerInit /\ [][BreakerNext]_breakerVars

\* Cooldowns end, requests end, and the callers keep reading.
BreakerFairSpec ==
    /\ BreakerSpec
    /\ \A n \in Names : WF_breakerVars(CooldownEnds(n))
    /\ \A c \in Callers : WF_breakerVars(SendGuarded(c)) /\ WF_breakerVars(RequestEnds(c))

-----------------------------------------------------------------------------
(* What the breakers promise.                                               *)

InFlight(c) == request[c] # "idle"

\* In half-open exactly one probe goes out: no second read is let out on a
\* breaker while a probe of the same opening is in flight (Breaker.allow), unless
\* a request ended without a verdict, which gives back whatever was claimed.
OneProbe ==
    ~ released => \A n \in Names :
        Cardinality({c \in Callers : InFlight(c) /\ n \in claimed[c]}) <= 1

\* A resource's probe that is claimed is on its way: a cancelled request does
\* not leave it claimed (request, on BaseException).
ProbeInFlight ==
    \A n \in Resources : breaker[n].probing => \E c \in Callers : InFlight(c) /\ ResourceOf[c] = n

\* The host's probe is claimed and nobody is on its way to give it back.
HostStuck == breaker[HOST].probing /\ \A c \in Callers : ~ InFlight(c)

\* Once the upstream answers again every breaker that is asked closes: reads
\* come back by themselves, unless the host's probe was left claimed.
ReadsComeBackUnlessStuck ==
    \A c \in Callers : up ~> HostStuck \/ \A n \in Heard(c) : breaker[n].opened = "closed"

-----------------------------------------------------------------------------
(* What the documentation says and the code does not do.                    *)

\* upstream.py's circuit breakers: after the cooldown one probe goes out, "and
\* success closes the breaker": reads come back by themselves, with no restart.
ReadsComeBack ==
    \A c \in Callers : up ~> \A n \in Heard(c) : breaker[n].opened = "closed"
=============================================================================
