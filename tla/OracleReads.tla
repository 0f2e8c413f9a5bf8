----------------------------- MODULE OracleReads -----------------------------
(***************************************************************************)
(* The verbs of the asas-oracle client over one resource: reads through    *)
(* the cache, writes that make cached reads stale by moving a version, and *)
(* the OAuth token every request carries, fetched by one coroutine at a    *)
(* time and dropped after a 401.  The version is itself a cache entry: it  *)
(* outlives every entry stored before it was last moved, and then reads 0. *)
(* Calls are coroutines of one loop; what one does between two awaits is   *)
(* one step.  (The breakers in front of the reads are OracleBreaker.)      *)
(***************************************************************************)
EXTENDS Naturals, FiniteSets

CONSTANTS
    Gets, Puts,  \* coroutines that read; coroutines that write, once each
    MaxTokens,   \* bound: tokens fetched
    MaxRestarts  \* bound: expiries of the version

VARIABLES
    record,   \* upstream: the writes that have landed in the resource
    landed,   \* upstream: how often each write has landed
    moved,    \* the version in the resource's cache keys, 0 when it has expired
    restarts, \* how often it has expired
    cached,   \* cache entries that have not expired: a version and the body it holds, the
              \* restarts before its key was made (history), and whether the version has
              \* not moved since it was stored
    call,     \* each coroutine: where it is, its key's version and restarts, the attempt,
              \* its body, the token it was sent with, and (history) how many restarts
              \* behind the entry was that answered it
    token,    \* the token held, 0 for none; tokens are numbered as they are fetched
    fetched,  \* tokens fetched so far
    valid,    \* the tokens the upstream accepts
    holder,   \* the coroutine in the token lock, or "none"
    known,    \* history: the writes that have returned
    floor     \* history: for each read, those that had returned when it began

oracle == <<record, landed, moved, restarts, cached, call, token, fetched, valid, holder, known, floor>>

Calls == Gets \cup Puts
Resting == [at |-> "idle", version |-> 0, era |-> 0, keyed |-> FALSE, attempt |-> 1, body |-> {}, sent |-> 0,
            behind |-> 0]

Init ==
    /\ record = {} /\ landed = [w \in Puts |-> 0]
    /\ moved = 0 /\ restarts = 0 /\ cached = {}
    /\ call = [c \in Calls |-> Resting]
    /\ token = 0 /\ fetched = 0 /\ valid = {} /\ holder = "none"
    /\ known = {} /\ floor = [g \in Gets |-> {}]

InFlight(c) == call[c].at \in {"queued", "fetching", "sent", "taken"}

Upstream == <<record, landed>>
Cached == <<moved, restarts, cached>>
Token == <<token, fetched, valid, holder>>
History == <<known, floor>>

-----------------------------------------------------------------------------
(* The token.                                                               *)

\* headers, in the step that starts or resends a request: a fresh token (t) is used as it
\* is; without one, the lock or the queue for it.
Authorize(c, l, t) ==
    /\ call' = [call EXCEPT ![c] = [l EXCEPT !.at = IF t # 0 THEN "sent" ELSE IF holder = "none" THEN "fetching" ELSE "queued",
                                             !.sent = t]]
    /\ holder' = IF t = 0 /\ holder = "none" THEN c ELSE holder

\* The second look: another coroutine has fetched meanwhile.
MustFetch == token = 0
EnterLock(c) ==
    /\ call[c].at = "queued" /\ holder = "none"
    /\ IF MustFetch
       THEN call' = [call EXCEPT ![c].at = "fetching"] /\ holder' = c
       ELSE call' = [call EXCEPT ![c].at = "sent", ![c].sent = token] /\ UNCHANGED holder
    /\ UNCHANGED <<Upstream, Cached, token, fetched, valid, History>>

\* _fetch: the endpoint hands out a new token, and may keep the last ones valid.
Fetched(c) ==
    /\ call[c].at = "fetching" /\ fetched < MaxTokens
    /\ fetched' = fetched + 1 /\ token' = fetched + 1 /\ valid' = valid \cup {fetched + 1}
    /\ call' = [call EXCEPT ![c].at = "sent", ![c].sent = fetched + 1]
    /\ holder' = "none"
    /\ UNCHANGED <<Upstream, Cached, History>>
FetchFails(c) ==
    /\ call[c].at = "fetching"
    /\ call' = [call EXCEPT ![c] = [Resting EXCEPT !.at = "failed"]] /\ holder' = "none"
    /\ UNCHANGED <<Upstream, Cached, token, fetched, valid, History>>

\* The margin before the expiry is reached: the next request fetches.
Ages ==
    /\ token # 0 /\ fetched < MaxTokens
    /\ token' = 0
    /\ UNCHANGED <<Upstream, Cached, call, fetched, valid, holder, History>>
\* The upstream revokes a token before its time, one that somebody may yet send.
Revokes(t) ==
    /\ t = token \/ \E c \in Calls : call[c].sent = t
    /\ valid' = valid \ {t}
    /\ UNCHANGED <<Upstream, Cached, call, token, fetched, holder, History>>

-----------------------------------------------------------------------------
(* The cache and the verbs.                                                 *)

\* _cache_key and Cache.get, for the coroutine's next read: a hit answers at once, a miss
\* remembers its key and asks.
Answer(body, n) == [Resting EXCEPT !.at = "got", !.body = body, !.behind = n]
get(g, use_cache) ==
    /\ call[g].at \in {"idle", "got", "failed"}
    /\ floor' = [floor EXCEPT ![g] = known]
    /\ LET hits == {e \in cached : e.version = moved}
       IN  IF use_cache /\ hits # {}
           THEN (\E e \in hits : call' = [call EXCEPT ![g] = Answer(e.body, restarts - e.era)]) /\ UNCHANGED holder
           ELSE Authorize(g, [Resting EXCEPT !.version = moved, !.era = restarts, !.keyed = use_cache], token)
    /\ UNCHANGED <<Upstream, Cached, token, fetched, valid, known>>

\* Its answer arrives: a body that decodes is kept under the key the read began with; an
\* empty collection for a shorter time, like any entry, is gone when Expires says so.
get_stores(g) ==
    /\ call[g].at = "taken"
    /\ LET e == [version |-> call[g].version, era |-> call[g].era, body |-> call[g].body, fresh |-> TRUE]
       IN  /\ call' = [call EXCEPT ![g] = Answer(e.body, 0)]
           /\ cached' = IF call[g].keyed THEN {x \in cached : x.version # e.version} \cup {e} ELSE cached
    /\ UNCHANGED <<Upstream, moved, restarts, Token, History>>

\* Mutant: the version is moved once, before the write.
InvalidateNot == moved
\* _invalidate, after the write's answer: the resource is stale_on_write of itself.
Invalidated == moved + 1
\* Each move gives the version the longest lifetime there is, counted from then.
Older == {[e EXCEPT !.fresh = FALSE] : e \in cached}

\* post and patch: once before the request ...
put(w) ==
    /\ call[w].at = "idle"
    /\ Authorize(w, call[w], token)
    /\ moved' = moved + 1 /\ cached' = Older
    /\ UNCHANGED <<Upstream, restarts, token, fetched, valid, History>>

\* ... and once after an answer whose body decodes.
put_returns(w) ==
    /\ call[w].at = "taken"
    /\ call' = [call EXCEPT ![w] = [Resting EXCEPT !.at = "done"]]
    /\ moved' = Invalidated /\ cached' = Older
    /\ known' = known \cup {w}
    /\ UNCHANGED <<Upstream, restarts, Token, floor>>

Expires(e) == cached' = cached \ {e} /\ UNCHANGED <<Upstream, moved, restarts, call, Token, History>>

\* The version's lifetime (a day, or the longest entry's) ends after that of every entry
\* stored, and of every request begun, before it was last moved: from then on it reads 0
\* (get_int).
VersionExpires ==
    /\ moved # 0 /\ restarts < MaxRestarts
    /\ \A e \in cached : e.fresh
    /\ \A c \in Calls : InFlight(c) => c \in Gets /\ call[c].version = moved
    /\ moved' = 0 /\ restarts' = restarts + 1
    /\ UNCHANGED <<Upstream, cached, call, Token, History>>

-----------------------------------------------------------------------------
(* The request.                                                             *)

\* The upstream takes a request it accepts: a write lands, a read sees what has.
Taken(c) ==
    /\ call[c].at = "sent" /\ call[c].sent \in valid
    /\ call' = [call EXCEPT ![c].at = "taken", ![c].sent = 0, ![c].body = IF c \in Gets THEN record ELSE {}]
    /\ IF c \in Puts
       THEN record' = record \cup {c} /\ landed' = [landed EXCEPT ![c] = @ + 1]
       ELSE UNCHANGED Upstream
    /\ UNCHANGED <<Cached, Token, History>>

\* A 401 is answered to a token the upstream no longer accepts: the token that is held by
\* now is dropped, and the request sent once more.
Refused(c) ==
    /\ call[c].at = "sent" /\ call[c].sent \notin valid
    /\ \/ /\ call[c].attempt = 1
          /\ token' = 0 /\ Authorize(c, [call[c] EXCEPT !.attempt = 2], 0)
       \/ /\ call[c].attempt = 2
          /\ call' = [call EXCEPT ![c] = [Resting EXCEPT !.at = "failed"]]
          /\ UNCHANGED <<token, holder>>
    /\ UNCHANGED <<Upstream, Cached, fetched, valid, History>>

\* No answer comes, or one whose body does not decode, whether the upstream took it or not.
NoAnswer(c) ==
    /\ call[c].at \in {"sent", "taken"}
    /\ call' = [call EXCEPT ![c] = [Resting EXCEPT !.at = "failed"]]
    /\ UNCHANGED <<Upstream, Cached, Token, History>>

Next ==
    \/ \E g \in Gets : get(g, TRUE) \/ get(g, FALSE) \/ get_stores(g)
    \/ \E w \in Puts : put(w) \/ put_returns(w)
    \/ VersionExpires \/ \E e \in cached : Expires(e)
    \/ \E c \in Calls : \/ EnterLock(c) \/ Fetched(c) \/ FetchFails(c)
                        \/ Taken(c) \/ Refused(c) \/ NoAnswer(c)
    \/ Ages \/ \E t \in valid : Revokes(t)

Spec == Init /\ [][Next]_oracle

-----------------------------------------------------------------------------
\* A read begun after a write has returned shows that write, whatever reads overlapped
\* the write and left in the cache: but for a read answered from an entry whose key was
\* made before the version last expired, under a number the version has since come back
\* to.  (A write that raised promises nothing: what landed without a decodable answer may
\* stay hidden behind an older cached read.)
WritesAreRead ==
    \A g \in Gets : call[g].at = "got" /\ call[g].behind = 0 => floor[g] \subseteq call[g].body

\* However tokens come and go, a write lands once at most.
WriteLandsOnce == \A w \in Puts : landed[w] <= 1

\* Together: a write lands once, and is seen by whoever reads after it.
WritesAreSeen == WritesAreRead /\ WriteLandsOnce

-----------------------------------------------------------------------------
(* What the documentation says and the code does not do.                    *)

\* CachePolicy: "a write bumps it, so every cached read goes stale at once".
EveryReadGoesStale == \A g \in Gets : call[g].at = "got" => floor[g] \subseteq call[g].body
=============================================================================
