--------------------------- MODULE Platform_proofs ---------------------------
(***************************************************************************)
(* Proofs about the components of MCPlatform, for every value of its       *)
(* constants.  Each part has an inductive invariant of its component; a    *)
(* behavior of MCPlatform is a behavior of one component, so what holds of *)
(* the component's steps holds of the steps in which the part is its.      *)
(***************************************************************************)
EXTENDS MCPlatform, SequenceTheorems, FunctionTheorems, FiniteSetTheorems, WellFoundedInduction, TLAPS

-----------------------------------------------------------------------------
(* The Oracle client's verbs (OracleReads): reads do not go back behind a   *)
(* write that returned, while the version lasts, and the retry after a 401  *)
(* never applies one twice.                                                 *)

Asking == {"queued", "fetching", "sent"}
At == {"idle", "taken", "got", "done", "failed"} \cup Asking

Call == [at : At, version : Nat, era : Nat, keyed : BOOLEAN, attempt : {1, 2}, body : SUBSET Puts, sent : Nat,
         behind : Nat]

ReadsTypeInv ==
    /\ resource \subseteq Puts /\ known \subseteq Puts
    /\ landed \in [Puts -> Nat]
    /\ moved \in Nat /\ restarts \in Nat
    /\ cached \subseteq [version : Nat, era : Nat, body : SUBSET Puts, fresh : BOOLEAN]
    /\ call \in [Client!Calls -> Call]
    /\ token \in Nat /\ fetched \in Nat
    /\ floor \in [Gets -> SUBSET Puts]

\* No write has reached the upstream before its request was taken, none twice, and one that
\* is answered has.
Landing ==
    \A w \in Puts :
        /\ landed[w] <= 1
        /\ call[w].at \in {"idle"} \cup Asking => landed[w] = 0
        /\ call[w].at = "taken" => w \in resource

\* Since the version last expired, an entry under the version that is current holds every
\* write that returned.
Current(v, era, body) ==
    /\ era <= restarts
    /\ era = restarts => v <= moved /\ (v = moved => known \subseteq body)
CacheCurrent == \A e \in cached : Current(e.version, e.era, e.body)

\* A read holds what had returned when it began, from the moment the upstream took it; and
\* what it will keep under a version that is still current holds all that has returned.
Reading ==
    \A g \in Gets :
        /\ call[g].at # "idle" => floor[g] \subseteq known
        /\ call[g].at \in Asking => call[g].era <= restarts /\ (call[g].era = restarts => call[g].version <= moved)
        /\ call[g].at = "taken" => floor[g] \subseteq call[g].body /\ Current(call[g].version, call[g].era, call[g].body)
        /\ call[g].at = "got" /\ call[g].behind = 0 => floor[g] \subseteq call[g].body

ReadsIInv == ReadersApart /\ ReadsTypeInv /\ known \subseteq resource /\ Landing /\ CacheCurrent /\ Reading

-----------------------------------------------------------------------------
(* Updates of one coroutine's locals.                                       *)

LEMMA RestingCall ==
  ASSUME NEW a \in At
  PROVE  [Client!Resting EXCEPT !.at = a] \in Call /\ [Client!Resting EXCEPT !.at = a].at = a
  BY DEF Client!Resting, Call, At

LEMMA MissCall ==
  ASSUME NEW v \in Nat, NEW e \in Nat, NEW k \in BOOLEAN
  PROVE  LET n == [Client!Resting EXCEPT !.version = v, !.era = e, !.keyed = k]
         IN  n \in Call /\ n.version = v /\ n.era = e
  BY DEF Client!Resting, Call, At

\* A request that starts, or starts again, is asking under the key it has.
LEMMA AuthorizeCall ==
  ASSUME NEW c, NEW l \in Call, NEW t \in Nat, Client!Authorize(c, l, t)
  PROVE  \E n \in Call : /\ call' = [call EXCEPT ![c] = n] /\ n.at \in Asking
                         /\ n.version = l.version /\ n.era = l.era
<1>1. PICK a \in Asking : call' = [call EXCEPT ![c] = [l EXCEPT !.at = a, !.sent = t]]
  BY DEF Client!Authorize, Asking
<1> DEFINE n == [l EXCEPT !.at = a, !.sent = t]
<1>2. n \in Call /\ n.at \in Asking /\ n.version = l.version /\ n.era = l.era
  BY DEF Call, At
<1>3. call' = [call EXCEPT ![c] = n]
  BY <1>1
<1> HIDE DEF n
<1>4. QED
  BY <1>2, <1>3

\* One that goes on asking keeps its key.
LEMMA AskingCall ==
  ASSUME NEW c, call[c] \in Call, NEW a \in Asking, NEW t \in Nat,
         \/ call' = [call EXCEPT ![c] = [call[c] EXCEPT !.at = a]]
         \/ call' = [call EXCEPT ![c] = [call[c] EXCEPT !.at = a, !.sent = t]]
  PROVE  \E n \in Call : /\ call' = [call EXCEPT ![c] = n] /\ n.at \in Asking
                         /\ n.version = call[c].version /\ n.era = call[c].era
<1>1. ASSUME NEW n, call' = [call EXCEPT ![c] = n], n \in Call, n.at \in Asking,
             n.version = call[c].version, n.era = call[c].era
      PROVE  \E m \in Call : /\ call' = [call EXCEPT ![c] = m] /\ m.at \in Asking
                             /\ m.version = call[c].version /\ m.era = call[c].era
  BY <1>1
<1>2. /\ [call[c] EXCEPT !.at = a] \in Call /\ [call[c] EXCEPT !.at = a].at \in Asking
      /\ [call[c] EXCEPT !.at = a].version = call[c].version
      /\ [call[c] EXCEPT !.at = a].era = call[c].era
      /\ [call[c] EXCEPT !.at = a, !.sent = t] \in Call /\ [call[c] EXCEPT !.at = a, !.sent = t].at \in Asking
      /\ [call[c] EXCEPT !.at = a, !.sent = t].version = call[c].version
      /\ [call[c] EXCEPT !.at = a, !.sent = t].era = call[c].era
  BY DEF Call, At
<1>3. CASE call' = [call EXCEPT ![c] = [call[c] EXCEPT !.at = a]]
  BY <1>1, <1>2, <1>3
<1>4. CASE call' = [call EXCEPT ![c] = [call[c] EXCEPT !.at = a, !.sent = t]]
  BY <1>1, <1>2, <1>4
<1>5. QED
  BY <1>3, <1>4

LEMMA AgainCall ==
  ASSUME NEW l \in Call
  PROVE  LET n == [l EXCEPT !.attempt = 2] IN n \in Call /\ n.version = l.version /\ n.era = l.era
  BY DEF Call

LEMMA TakenCall ==
  ASSUME NEW c, call[c] \in Call, resource \in SUBSET Puts,
         call' = [call EXCEPT ![c] = [call[c] EXCEPT !.at = "taken", !.sent = 0, !.body = IF c \in Gets THEN resource ELSE {}]]
  PROVE  \E n \in Call : /\ call' = [call EXCEPT ![c] = n]
                         /\ n.at = "taken" /\ n.version = call[c].version /\ n.era = call[c].era
                         /\ (c \in Gets => n.body = resource)
<1> DEFINE n == [call[c] EXCEPT !.at = "taken", !.sent = 0, !.body = IF c \in Gets THEN resource ELSE {}]
<1>1. "taken" \in At
  BY DEF At
<1>2. n \in Call /\ n.at = "taken" /\ n.version = call[c].version /\ n.era = call[c].era /\ (c \in Gets => n.body = resource)
  BY <1>1 DEF Call
<1> HIDE DEF n
<1>3. call' = [call EXCEPT ![c] = n]
  BY DEF n
<1>4. QED
  BY <1>2, <1>3

LEMMA AnswerCall ==
  ASSUME NEW b \in SUBSET Puts, NEW k \in Nat
  PROVE  LET n == Client!Answer(b, k) IN n \in Call /\ n.at = "got" /\ n.body = b /\ n.behind = k
<1>1. "got" \in At
  BY DEF At
<1>2. QED
  BY <1>1 DEF Client!Answer, Client!Resting, Call

\* A move of the version leaves the entries what they are.
LEMMA OlderEntries ==
  ASSUME cached \subseteq [version : Nat, era : Nat, body : SUBSET Puts, fresh : BOOLEAN], NEW x \in Client!Older
  PROVE  /\ x \in [version : Nat, era : Nat, body : SUBSET Puts, fresh : BOOLEAN]
         /\ \E e \in cached : x.version = e.version /\ x.era = e.era /\ x.body = e.body
<1>1. PICK e \in cached : x = [e EXCEPT !.fresh = FALSE]
  BY DEF Client!Older
<1>2. e \in [version : Nat, era : Nat, body : SUBSET Puts, fresh : BOOLEAN]
  OBVIOUS
<1>3. QED
  BY <1>1, <1>2

-----------------------------------------------------------------------------
LEMMA ReadsInitIInv == ReadersApart /\ Client!Init => ReadsIInv
<1> SUFFICES ASSUME ReadersApart, Client!Init PROVE ReadsIInv
  OBVIOUS
<1>1. ReadsTypeInv
  BY DEF Client!Init, ReadsTypeInv, Call, Client!Resting, At, Asking
<1>2. Landing /\ CacheCurrent /\ Reading
  BY DEF Client!Init, Landing, CacheCurrent, Reading, Client!Resting, Asking, Client!Calls
<1>3. QED
  BY <1>1, <1>2 DEF ReadsIInv, Client!Init

\* A step that makes one coroutine ask, or ask on, keeps the invariant.
LEMMA RequestKeeps ==
  ASSUME ReadsIInv, NEW c \in Client!Calls, NEW n \in Call, call' = [call EXCEPT ![c] = n],
         UNCHANGED <<resource, landed, moved, restarts, cached, known>>, token' \in Nat, fetched' \in Nat,
         n.at \in Asking, call[c].at \in {"idle", "got", "failed"} \cup Asking,
         c \in Puts => call[c].at \in {"idle"} \cup Asking,
         c \in Gets => n.era <= restarts /\ (n.era = restarts => n.version <= moved),
         floor' \in [Gets -> SUBSET Puts], \A g \in Gets : g # c => floor'[g] = floor[g],
         c \in Gets => floor'[c] \subseteq known
  PROVE  ReadsIInv'
<1> USE DEF ReadsIInv, ReadersApart, ReadsTypeInv, Landing, CacheCurrent, Current, Reading, Asking, At, Client!Calls
<1>1. ReadsTypeInv'
  OBVIOUS
<1>2. Landing' /\ CacheCurrent'
  OBVIOUS
<1>3. Reading'
  <2> SUFFICES ASSUME NEW g \in Gets
               PROVE /\ call'[g].at # "idle" => floor'[g] \subseteq known
                     /\ call'[g].at \in Asking => call'[g].era <= restarts /\ (call'[g].era = restarts => call'[g].version <= moved)
                     /\ call'[g].at = "taken" => floor'[g] \subseteq call'[g].body /\ Current(call'[g].version, call'[g].era, call'[g].body)
                     /\ call'[g].at = "got" /\ call'[g].behind = 0 => floor'[g] \subseteq call'[g].body
    OBVIOUS
  <2>1. CASE g = c
    <3>1. call'[g] = n /\ n.at \in Asking
      BY <2>1
    <3>2. floor'[g] \subseteq known
      BY <2>1
    <3>3. QED
      BY <2>1, <3>1, <3>2
  <2>2. CASE g # c
    BY <2>2
  <2>3. QED
    BY <2>1, <2>2
<1>4. QED
  BY <1>1, <1>2, <1>3

\* A step that only ends a request, unanswered.
LEMMA FailKeeps ==
  ASSUME ReadsIInv, NEW c \in Client!Calls, call[c].at # "idle",
         call' = [call EXCEPT ![c] = [Client!Resting EXCEPT !.at = "failed"]],
         UNCHANGED <<resource, landed, moved, restarts, cached, known, floor, fetched>>, token' \in Nat
  PROVE  ReadsIInv'
<1>1. "failed" \in At
  BY DEF At
<1>2. PICK n \in Call : call' = [call EXCEPT ![c] = n] /\ n.at = "failed"
  BY <1>1, RestingCall
<1> USE DEF ReadsIInv, ReadersApart, ReadsTypeInv, Landing, CacheCurrent, Current, Reading, Asking, At, Client!Calls
<1>3. ReadsTypeInv'
  BY <1>2
<1>4. Landing' /\ CacheCurrent'
  BY <1>2
<1>5. Reading'
  BY <1>2
<1>6. QED
  BY <1>3, <1>4, <1>5

LEMMA GetKeeps == ASSUME ReadsIInv, NEW g \in Gets, NEW use_cache \in BOOLEAN, Client!get(g, use_cache) PROVE ReadsIInv'
<1> DEFINE hits == {e \in cached : e.version = moved}
<1>1. /\ UNCHANGED <<resource, landed, moved, restarts, cached, token, fetched, known>> /\ g \in Client!Calls
      /\ call[g].at \in {"idle", "got", "failed"} /\ floor' = [floor EXCEPT ![g] = known]
  BY DEF Client!get, Client!Upstream, Client!Cached, Client!Calls
<1>2. CASE use_cache /\ hits # {}
  <2>1. PICK e \in hits : call' = [call EXCEPT ![g] = Client!Answer(e.body, restarts - e.era)]
    BY <1>2, Zenon DEF Client!get
  <2>2. /\ e.body \in SUBSET Puts /\ restarts - e.era \in Nat
        /\ restarts - e.era = 0 => known \subseteq e.body
    BY DEF ReadsIInv, ReadsTypeInv, CacheCurrent, Current
  <2>3. PICK n \in Call : call' = [call EXCEPT ![g] = n] /\ n.at = "got" /\ (n.behind = 0 => known \subseteq n.body)
    <3> HIDE DEF hits
    <3> DEFINE n == Client!Answer(e.body, restarts - e.era)
    <3>1. n \in Call /\ n.at = "got" /\ n.body = e.body /\ n.behind = restarts - e.era
      BY <2>2, AnswerCall
    <3>2. call' = [call EXCEPT ![g] = n]
      BY <2>1
    <3> HIDE DEF n
    <3>3. QED
      BY <2>2, <3>1, <3>2
  <2> USE DEF ReadsIInv, ReadersApart, ReadsTypeInv, Landing, CacheCurrent, Current, Reading, Asking, At, Client!Calls
  <2> HIDE DEF hits
  <2>4. ReadsTypeInv'
    BY <1>1, <2>3
  <2>5. Landing' /\ CacheCurrent'
    BY <1>1, <2>3
  <2>6. Reading'
    BY <1>1, <2>3
  <2>7. QED
    BY <1>1, <2>4, <2>5, <2>6
<1>3. CASE ~ (use_cache /\ hits # {})
  <2> DEFINE l == [Client!Resting EXCEPT !.version = moved, !.era = restarts, !.keyed = use_cache]
  <2>1. Client!Authorize(g, l, token)
    BY <1>3 DEF Client!get
  <2>2. moved \in Nat /\ restarts \in Nat /\ token \in Nat
    BY DEF ReadsIInv, ReadsTypeInv
  <2>3. l \in Call /\ l.version = moved /\ l.era = restarts
    BY <2>2, MissCall
  <2> HIDE DEF l
  <2>4. PICK n \in Call : call' = [call EXCEPT ![g] = n] /\ n.at \in Asking /\ n.version = moved /\ n.era = restarts
    BY <2>1, <2>2, <2>3, AuthorizeCall
  <2>5. /\ g \notin Puts /\ token' \in Nat /\ fetched' \in Nat /\ n.era <= restarts /\ (n.era = restarts => n.version <= moved)
        /\ floor' \in [Gets -> SUBSET Puts] /\ (\A h \in Gets : h # g => floor'[h] = floor[h]) /\ floor'[g] \subseteq known
    BY <1>1, <2>2, <2>4 DEF ReadsIInv, ReadersApart, ReadsTypeInv
  <2>6. QED
    BY <1>1, <2>4, <2>5, RequestKeeps
<1>4. QED
  BY <1>2, <1>3

LEMMA StoresKeeps == ASSUME ReadsIInv, NEW g \in Gets, Client!get_stores(g) PROVE ReadsIInv'
<1> DEFINE e == [version |-> call[g].version, era |-> call[g].era, body |-> call[g].body, fresh |-> TRUE]
<1>1. /\ UNCHANGED <<resource, landed, moved, restarts, token, fetched, known, floor>> /\ call[g].at = "taken"
      /\ call' = [call EXCEPT ![g] = Client!Answer(e.body, 0)]
      /\ cached' \subseteq cached \cup {e}
  BY DEF Client!get_stores, Client!Upstream, Client!Token, Client!History
<1>2. call[g] \in Call
  BY DEF ReadsIInv, ReadsTypeInv, Client!Calls
<1>3. /\ e \in [version : Nat, era : Nat, body : SUBSET Puts, fresh : BOOLEAN]
      /\ e.version = call[g].version /\ e.era = call[g].era /\ e.body = call[g].body
  BY <1>2 DEF Call
<1>4. Current(e.version, e.era, e.body) /\ floor[g] \subseteq e.body
  BY <1>1, <1>3 DEF ReadsIInv, Reading
<1> HIDE DEF e
<1>5. PICK n \in Call : call' = [call EXCEPT ![g] = n] /\ n.at = "got" /\ n.body = e.body
  <2> DEFINE n == Client!Answer(e.body, 0)
  <2>1. n \in Call /\ n.at = "got" /\ n.body = e.body
    BY <1>3, AnswerCall
  <2>2. call' = [call EXCEPT ![g] = n]
    BY <1>1
  <2> HIDE DEF n
  <2>3. QED
    BY <2>1, <2>2
<1> USE DEF ReadsIInv, ReadersApart, ReadsTypeInv, Landing, CacheCurrent, Current, Reading, Asking, At, Client!Calls
<1>6. ReadsTypeInv'
  BY <1>1, <1>3, <1>5
<1>7. Landing' /\ CacheCurrent'
  BY <1>1, <1>3, <1>4, <1>5
<1>8. Reading'
  BY <1>1, <1>4, <1>5
<1>9. QED
  BY <1>1, <1>6, <1>7, <1>8

LEMMA PutKeeps == ASSUME ReadsIInv, NEW w \in Puts, Client!put(w) PROVE ReadsIInv'
<1>1. /\ UNCHANGED <<resource, landed, restarts, token, fetched, known, floor>> /\ call[w].at = "idle"
      /\ moved' = moved + 1 /\ cached' = Client!Older /\ Client!Authorize(w, call[w], token)
  BY DEF Client!put, Client!Upstream, Client!History
<1>2. call[w] \in Call /\ token \in Nat /\ moved \in Nat /\ restarts \in Nat /\ w \notin Gets
  BY DEF ReadsIInv, ReadsTypeInv, ReadersApart, Client!Calls
<1>3. PICK n \in Call : call' = [call EXCEPT ![w] = n] /\ n.at \in Asking
  BY <1>1, <1>2, AuthorizeCall
<1>4. \A x \in cached' : /\ x \in [version : Nat, era : Nat, body : SUBSET Puts, fresh : BOOLEAN]
                         /\ \E e \in cached : x.version = e.version /\ x.era = e.era /\ x.body = e.body
  BY <1>1, OlderEntries DEF ReadsIInv, ReadsTypeInv
<1>5. CacheCurrent'
  <2> SUFFICES ASSUME NEW x \in cached' PROVE Current(x.version, x.era, x.body)'
    BY DEF CacheCurrent
  <2>1. PICK e \in cached : x.version = e.version /\ x.era = e.era /\ x.body = e.body
    BY <1>4
  <2>2. e.version \in Nat /\ e.era \in Nat /\ Current(e.version, e.era, e.body)
    BY DEF ReadsIInv, ReadsTypeInv, CacheCurrent
  <2>3. QED
    BY <1>1, <1>2, <2>1, <2>2 DEF Current
<1>6. Reading'
  <2> SUFFICES ASSUME NEW g \in Gets
               PROVE /\ call'[g].at # "idle" => floor'[g] \subseteq known'
                     /\ call'[g].at \in Asking => call'[g].era <= restarts' /\ (call'[g].era = restarts' => call'[g].version <= moved')
                     /\ call'[g].at = "taken" => floor'[g] \subseteq call'[g].body /\ Current(call[g].version, call[g].era, call[g].body)'
                     /\ call'[g].at = "got" /\ call'[g].behind = 0 => floor'[g] \subseteq call'[g].body
    BY DEF Reading
  <2>1. call'[g] = call[g] /\ floor'[g] = floor[g] /\ call[g] \in Call /\ known' = known /\ restarts' = restarts
    BY <1>1, <1>2, <1>3 DEF ReadsIInv, ReadsTypeInv, Client!Calls
  <2>2. call[g].version \in Nat /\ call[g].era \in Nat
    BY <2>1 DEF Call
  <2>3. call[g].at = "taken" => Current(call[g].version, call[g].era, call[g].body)'
    BY <1>1, <1>2, <2>1, <2>2 DEF ReadsIInv, Reading, Current
  <2>4. QED
    BY <1>1, <1>2, <2>1, <2>2, <2>3 DEF ReadsIInv, Reading
<1>7. ReadsTypeInv'
  BY <1>1, <1>2, <1>3, <1>4 DEF ReadsIInv, ReadsTypeInv, Client!Calls
<1>8. Landing'
  BY <1>1, <1>2, <1>3 DEF ReadsIInv, Landing, ReadsTypeInv, Client!Calls, Asking
<1>9. QED
  BY <1>1, <1>5, <1>6, <1>7, <1>8 DEF ReadsIInv

LEMMA ReturnsKeeps == ASSUME ReadsIInv, NEW w \in Puts, Client!put_returns(w) PROVE ReadsIInv'
<1>1. /\ UNCHANGED <<resource, landed, restarts, token, fetched, floor>> /\ call[w].at = "taken"
      /\ moved' = moved + 1 /\ cached' = Client!Older /\ known' = known \cup {w}
      /\ call' = [call EXCEPT ![w] = [Client!Resting EXCEPT !.at = "done"]]
  BY DEF Client!put_returns, Client!Upstream, Client!Token, Client!Invalidated
<1>2. call[w] \in Call /\ moved \in Nat /\ restarts \in Nat /\ w \notin Gets /\ w \in resource
  BY <1>1 DEF ReadsIInv, ReadsTypeInv, ReadersApart, Client!Calls, Landing
<1>3. PICK n \in Call : call' = [call EXCEPT ![w] = n] /\ n.at = "done"
  <2>1. "done" \in At
    BY DEF At
  <2>2. QED
    BY <1>1, <2>1, RestingCall
<1>4. \A x \in cached' : /\ x \in [version : Nat, era : Nat, body : SUBSET Puts, fresh : BOOLEAN]
                         /\ \E e \in cached : x.version = e.version /\ x.era = e.era /\ x.body = e.body
  BY <1>1, OlderEntries DEF ReadsIInv, ReadsTypeInv
<1>5. CacheCurrent'
  <2> SUFFICES ASSUME NEW x \in cached' PROVE Current(x.version, x.era, x.body)'
    BY DEF CacheCurrent
  <2>1. PICK e \in cached : x.version = e.version /\ x.era = e.era /\ x.body = e.body
    BY <1>4
  <2>2. e.version \in Nat /\ e.era \in Nat /\ Current(e.version, e.era, e.body)
    BY DEF ReadsIInv, ReadsTypeInv, CacheCurrent
  <2>3. QED
    BY <1>1, <1>2, <2>1, <2>2 DEF Current
<1>6. Reading'
  <2> SUFFICES ASSUME NEW g \in Gets
               PROVE /\ call'[g].at # "idle" => floor'[g] \subseteq known'
                     /\ call'[g].at \in Asking => call'[g].era <= restarts' /\ (call'[g].era = restarts' => call'[g].version <= moved')
                     /\ call'[g].at = "taken" => floor'[g] \subseteq call'[g].body /\ Current(call[g].version, call[g].era, call[g].body)'
                     /\ call'[g].at = "got" /\ call'[g].behind = 0 => floor'[g] \subseteq call'[g].body
    BY DEF Reading
  <2>1. call'[g] = call[g] /\ floor'[g] = floor[g] /\ call[g] \in Call /\ known \subseteq known' /\ restarts' = restarts
    BY <1>1, <1>2, <1>3 DEF ReadsIInv, ReadsTypeInv, Client!Calls
  <2>2. call[g].version \in Nat /\ call[g].era \in Nat
    BY <2>1 DEF Call
  <2>3. call[g].at = "taken" => Current(call[g].version, call[g].era, call[g].body)'
    BY <1>1, <1>2, <2>1, <2>2 DEF ReadsIInv, Reading, Current
  <2>4. QED
    BY <1>1, <1>2, <2>1, <2>2, <2>3 DEF ReadsIInv, Reading
<1>7. ReadsTypeInv'
  BY <1>1, <1>2, <1>3, <1>4 DEF ReadsIInv, ReadsTypeInv, Client!Calls
<1>8. Landing' /\ known' \subseteq resource'
  BY <1>1, <1>2, <1>3 DEF ReadsIInv, Landing, ReadsTypeInv, Client!Calls, Asking
<1>9. QED
  BY <1>1, <1>5, <1>6, <1>7, <1>8 DEF ReadsIInv, ReadersApart

\* The version's expiry: whatever was kept or is being read is of before it.
LEMMA ExpiryKeeps == ASSUME ReadsIInv, Client!VersionExpires PROVE ReadsIInv'
<1>1. /\ UNCHANGED <<resource, landed, cached, call, token, fetched, known, floor>>
      /\ moved' = 0 /\ restarts' = restarts + 1 /\ restarts \in Nat
  BY DEF Client!VersionExpires, Client!Upstream, Client!Token, Client!History, ReadsIInv, ReadsTypeInv
<1>2. CacheCurrent'
  <2>1. \A e \in cached : e.era \in Nat /\ e.era <= restarts
    BY DEF ReadsIInv, ReadsTypeInv, CacheCurrent, Current
  <2>2. QED
    BY <1>1, <2>1 DEF CacheCurrent, Current
<1>3. Reading'
  <2>1. \A g \in Gets : call[g].era \in Nat
    BY DEF ReadsIInv, ReadsTypeInv, Call, Client!Calls
  <2>2. QED
    BY <1>1, <2>1 DEF ReadsIInv, Reading, Current
<1>4. QED
  BY <1>1, <1>2, <1>3 DEF ReadsIInv, ReadsTypeInv, Landing, ReadersApart

LEMMA TakenKeeps == ASSUME ReadsIInv, NEW c \in Client!Calls, Client!Taken(c) PROVE ReadsIInv'
<1> USE DEF ReadsIInv, ReadersApart, ReadsTypeInv, Landing, CacheCurrent, Current, Reading, Asking, At, Client!Calls
<1>1. UNCHANGED <<moved, restarts, cached, token, fetched, known, floor>> /\ call[c].at = "sent"
  BY DEF Client!Taken, Client!Cached, Client!Token, Client!History
<1>2. call[c] \in Call /\ resource \in SUBSET Puts /\ {} \in SUBSET Puts /\ (c \in Gets \/ c \in Puts)
  OBVIOUS
<1>3. PICK n \in Call : /\ call' = [call EXCEPT ![c] = n] /\ n.at = "taken" /\ n.version = call[c].version
                        /\ n.era = call[c].era /\ (c \in Gets => n.body = resource)
  <2>1. call' = [call EXCEPT ![c] = [call[c] EXCEPT !.at = "taken", !.sent = 0, !.body = IF c \in Gets THEN resource ELSE {}]]
    BY DEF Client!Taken
  <2>2. QED
    BY ONLY <1>2, <2>1, TakenCall
<1>4. CASE c \in Puts
  <2>1. resource' = resource \cup {c} /\ landed' = [landed EXCEPT ![c] = landed[c] + 1]
    BY <1>4 DEF Client!Taken
  <2>2. ReadsTypeInv' /\ known' \subseteq resource'
    BY <1>1, <1>2, <1>3, <1>4, <2>1
  <2>3. Landing'
    BY <1>1, <1>2, <1>3, <1>4, <2>1
  <2>4. CacheCurrent' /\ Reading'
    BY <1>1, <1>2, <1>3, <1>4, <2>1
  <2>5. QED
    BY <2>2, <2>3, <2>4
<1>5. CASE c \in Gets
  <2>1. UNCHANGED <<resource, landed>>
    BY <1>5 DEF Client!Taken, Client!Upstream
  <2>2. ReadsTypeInv' /\ known' \subseteq resource'
    BY <1>1, <1>2, <1>3, <2>1
  <2>3. Landing' /\ CacheCurrent'
    BY <1>1, <1>2, <1>3, <1>5, <2>1
  <2>4. Reading'
    BY <1>1, <1>2, <1>3, <2>1
  <2>5. QED
    BY <2>2, <2>3, <2>4
<1>6. QED
  BY <1>2, <1>4, <1>5

LEMMA RefusedKeeps == ASSUME ReadsIInv, NEW c \in Client!Calls, Client!Refused(c) PROVE ReadsIInv'
<1>1. /\ UNCHANGED <<resource, landed, moved, restarts, cached, fetched, known, floor>> /\ call[c].at = "sent"
      /\ call[c] \in Call /\ token \in Nat /\ fetched \in Nat
  BY DEF Client!Refused, Client!Upstream, Client!Cached, Client!History, ReadsIInv, ReadsTypeInv
<1>2. CASE token' = 0 /\ Client!Authorize(c, [call[c] EXCEPT !.attempt = 2], 0)
  <2> DEFINE l == [call[c] EXCEPT !.attempt = 2]
  <2>1. l \in Call /\ l.version = call[c].version /\ l.era = call[c].era
    BY <1>1, AgainCall
  <2>2. Client!Authorize(c, l, 0) /\ 0 \in Nat
    BY <1>2
  <2> HIDE DEF l
  <2>3. PICK n \in Call : /\ call' = [call EXCEPT ![c] = n] /\ n.at \in Asking
                          /\ n.version = call[c].version /\ n.era = call[c].era
    BY <2>1, <2>2, AuthorizeCall
  <2>4. /\ call[c].at \in Asking
        /\ c \in Gets => n.era <= restarts /\ (n.era = restarts => n.version <= moved)
    BY <1>1, <2>3 DEF ReadsIInv, Reading, Asking
  <2>5. token' \in Nat /\ fetched' \in Nat
    BY <1>1, <1>2
  <2>a. /\ floor' \in [Gets -> SUBSET Puts] /\ (\A g \in Gets : g # c => floor'[g] = floor[g])
        /\ c \in Gets => floor'[c] \subseteq known
    BY <1>1 DEF ReadsIInv, ReadsTypeInv, Reading
  <2>6. QED
    BY <1>1, <2>3, <2>4, <2>5, <2>a, RequestKeeps
<1>3. CASE call' = [call EXCEPT ![c] = [Client!Resting EXCEPT !.at = "failed"]] /\ UNCHANGED token
  BY <1>1, <1>3, FailKeeps
<1>4. QED
  BY <1>2, <1>3 DEF Client!Refused

\* The coroutine in the lock, or at its door, asks on.
LEMMA LockKeeps == ASSUME ReadsIInv, NEW c \in Client!Calls, Client!EnterLock(c) \/ Client!Fetched(c) PROVE ReadsIInv'
<1>1. /\ UNCHANGED <<resource, landed, moved, restarts, cached, known, floor>> /\ call[c].at \in Asking
      /\ call[c] \in Call /\ token \in Nat /\ fetched \in Nat /\ token' \in Nat /\ fetched' \in Nat
  BY DEF Client!EnterLock, Client!Fetched, Client!Upstream, Client!Cached, Client!History, ReadsIInv, ReadsTypeInv, Asking
<1>2. "fetching" \in Asking /\ "sent" \in Asking /\ fetched + 1 \in Nat
  BY <1>1 DEF Asking
<1>3. PICK a \in Asking, t \in Nat : \/ call' = [call EXCEPT ![c] = [call[c] EXCEPT !.at = a]]
                                     \/ call' = [call EXCEPT ![c] = [call[c] EXCEPT !.at = a, !.sent = t]]
  <2>1. CASE Client!EnterLock(c)
    <3>1. \/ call' = [call EXCEPT ![c] = [call[c] EXCEPT !.at = "fetching"]]
          \/ call' = [call EXCEPT ![c] = [call[c] EXCEPT !.at = "sent", !.sent = token]]
      BY <1>1, <2>1 DEF Client!EnterLock
    <3>2. QED
      BY <1>1, <1>2, <3>1, Zenon
  <2>2. CASE Client!Fetched(c)
    <3>1. call' = [call EXCEPT ![c] = [call[c] EXCEPT !.at = "sent", !.sent = fetched + 1]]
      BY <1>1, <2>2 DEF Client!Fetched
    <3>2. QED
      BY <1>2, <3>1
  <2>3. QED
    BY <2>1, <2>2
<1>4. PICK n \in Call : /\ call' = [call EXCEPT ![c] = n] /\ n.at \in Asking
                        /\ n.version = call[c].version /\ n.era = call[c].era
  BY <1>1, <1>3, AskingCall
<1>5. c \in Gets => n.era <= restarts /\ (n.era = restarts => n.version <= moved)
  BY <1>1, <1>4 DEF ReadsIInv, Reading, Asking
<1>6. /\ floor' \in [Gets -> SUBSET Puts] /\ (\A g \in Gets : g # c => floor'[g] = floor[g])
      /\ c \in Gets => floor'[c] \subseteq known
  BY <1>1 DEF ReadsIInv, ReadsTypeInv, Reading, Asking
<1>7. QED
  BY <1>1, <1>4, <1>5, <1>6, RequestKeeps

LEMMA ReadsStepIInv == ReadsIInv /\ [Client!Next]_(Client!oracle) => ReadsIInv'
<1> SUFFICES ASSUME ReadsIInv, [Client!Next]_(Client!oracle) PROVE ReadsIInv'
  OBVIOUS
<1>1. ASSUME NEW g \in Gets, Client!get(g, TRUE) \/ Client!get(g, FALSE) PROVE ReadsIInv'
  BY <1>1, GetKeeps
<1>2. ASSUME NEW g \in Gets, Client!get_stores(g) PROVE ReadsIInv'
  BY <1>2, StoresKeeps
<1>3. ASSUME NEW w \in Puts, Client!put(w) \/ Client!put_returns(w) PROVE ReadsIInv'
  BY <1>3, PutKeeps, ReturnsKeeps
<1>4. CASE Client!VersionExpires
  BY <1>4, ExpiryKeeps
<1>5. ASSUME NEW c \in Client!Calls, Client!EnterLock(c) \/ Client!Fetched(c) PROVE ReadsIInv'
  BY <1>5, LockKeeps
<1>6. ASSUME NEW c \in Client!Calls, Client!FetchFails(c) \/ Client!NoAnswer(c) PROVE ReadsIInv'
  <2>1. /\ call[c].at # "idle" /\ call' = [call EXCEPT ![c] = [Client!Resting EXCEPT !.at = "failed"]]
        /\ UNCHANGED <<resource, landed, moved, restarts, cached, known, floor, fetched>> /\ token' \in Nat
    BY <1>6 DEF Client!FetchFails, Client!NoAnswer, Client!Upstream, Client!Cached, Client!History, Client!Token,
                ReadsIInv, ReadsTypeInv
  <2>2. QED
    BY <2>1, FailKeeps
<1>7. ASSUME NEW c \in Client!Calls, Client!Taken(c) PROVE ReadsIInv'
  BY <1>7, TakenKeeps
<1>8. ASSUME NEW c \in Client!Calls, Client!Refused(c) PROVE ReadsIInv'
  BY <1>8, RefusedKeeps
<1>9. CASE (\E e \in cached : Client!Expires(e)) \/ Client!Ages \/ (\E t \in valid : Client!Revokes(t)) \/ UNCHANGED Client!oracle
  <2>1. /\ UNCHANGED <<resource, landed, moved, restarts, call, fetched, known, floor>> /\ cached' \subseteq cached
        /\ token' \in Nat
    BY <1>9 DEF Client!Expires, Client!Ages, Client!Revokes, Client!oracle, Client!Upstream, Client!Cached, Client!Token,
                Client!History, ReadsIInv, ReadsTypeInv
  <2>2. QED
    BY <2>1 DEF ReadsIInv, ReadersApart, ReadsTypeInv, Landing, CacheCurrent, Current, Reading
<1>10. QED
  BY <1>1, <1>2, <1>3, <1>4, <1>5, <1>6, <1>7, <1>8, <1>9 DEF Client!Next

-----------------------------------------------------------------------------
(* Tenant isolation (TenantIsolation), for every set of tenants and any     *)
(* number of migrations.                                                    *)

Bound == Holders \cup {Shared}
TenancyValues == Holders \cup {Unset, Empty}
Ids == Bound \cup {"new"}
Tables == [enabled : BOOLEAN, forced : BOOLEAN, policy : Isolation!Policies \cup {"none"}]
Held == [id : Ids, of : Bound, level : Nat]
Conn == [at : {"closed", "idle", "open", "loose"}, setting : TenancyValues, kept : TenancyValues, local : TenancyValues, unit : Bound]
Migrations == [at : {"off", "running"}, what : {"protect", "unprotect", "rewrite", "column"}, policy : Isolation!Policies,
               together : BOOLEAN, step : 1 .. 4, table : Tables, rows : SUBSET Ids, vowed : BOOLEAN]

TenancyTypeInv ==
    /\ role \in {"plain", "exempt", "sqlite"} /\ owner \in BOOLEAN /\ vowed \in BOOLEAN
    /\ table \in Tables /\ held \subseteq Held /\ level \in Nat
    /\ context.tenant \in Bound /\ context.tokens \in Seq(Bound)
    /\ engine \in Bound /\ conn \in Conn /\ migration \in Migrations

\* What a connection's setting is between and during units: a sweep's is the tenant it was
\* opened for, committed or not; the application's is never a tenant's outside a transaction.
PinInv ==
    conn.at # "closed" =>
        /\ engine # Shared /\ role # "sqlite" =>
              /\ conn.setting = engine /\ conn.kept = engine /\ conn.local = Unset
              /\ conn.at \in {"open", "loose"} => conn.unit = engine
        /\ engine = Shared =>
              /\ conn.setting \in {Unset, Empty} /\ conn.kept \in {Unset, Empty}
              /\ conn.local = IF conn.at = "open" THEN Isolation!Pinned(conn.unit) ELSE Unset

\* The switches as the migration has set them so far.
Protecting ==
    LET m == migration
    IN  m.at = "running" =>
        /\ m.what \in {"protect", "unprotect"} => role # "sqlite"
        /\ m.what = "protect" =>
              /\ m.step > 1 => m.table.enabled
              /\ m.step > 2 => m.table.forced
              /\ m.step > 3 => m.table.policy = m.policy
        /\ m.what = "rewrite" /\ role # "sqlite" =>
              /\ m.step \in {2, 3} => ~ m.table.forced
              /\ m.step = 4 => m.table.forced
        /\ m.what = "rewrite" /\ role = "sqlite" => m.step < 3
        /\ m.what = "column" => m.step < 4
        /\ m.vowed /\ m.what \in {"rewrite", "column"} =>
              /\ m.table.enabled /\ m.table.policy # "none"
              /\ m.table.forced \/ (m.what = "rewrite" /\ role # "sqlite" /\ m.step \in {2, 3})

\* A table vowed to be protected is.
VowKept == vowed => table.enabled /\ table.forced /\ table.policy # "none"

\* The data migration that runs has had its say.
Reworked ==
    /\ migration.at = "running"
    /\ \/ migration.what = "rewrite" /\ migration.step > (IF role = "sqlite" THEN 1 ELSE 2)
       \/ migration.what = "column" /\ migration.step > 1

\* No row is behind: those of a migration that will end are ahead, or written down by it,
\* and no unit of work adds one it has missed.
RowsInv ==
    /\ Isolation!NoRowLeftBehind
    /\ Reworked /\ ~ migration.together => \A r \in held : r.level >= level + 1
    /\ Reworked /\ migration.together => \A r \in held : r.id \in migration.rows
    /\ Isolation!Locked => ~ Isolation!InUse

TenancyIInv == TenantNames /\ TenancyTypeInv /\ PinInv /\ Protecting /\ VowKept /\ RowsInv

-----------------------------------------------------------------------------
(* The invariant is what is claimed.                                        *)

LEMMA VouchedAlways == Isolation!Vouched
<1> SUFFICES ASSUME \/ Isolation!assert_tables_protected
                    \/ \E a, b \in Holders : a # b /\ Isolation!assert_isolated(a, b)
                    \/ Isolation!assert_unpinned_sees_nothing /\ held # {},
                    NEW t \in Holders
             PROVE  Isolation!SeenIn(table, owner, t) \subseteq Isolation!OwnOrShared(t)
  BY DEF Isolation!Vouched
\* Each check fails when everybody sees every row.
<1>1. ~ (role # "plain" \/ ~ table.enabled \/ (owner /\ ~ table.forced))
  <2> SUFFICES ASSUME role # "plain" \/ ~ table.enabled \/ (owner /\ ~ table.forced) PROVE FALSE
    OBVIOUS
  <2>1. \A v : Isolation!SeenIn(table, owner, v) = held
    BY DEF Isolation!SeenIn
  <2>2. QED
    BY <2>1 DEF Isolation!assert_tables_protected, Isolation!assert_isolated, Isolation!assert_unpinned_sees_nothing, Isolation!require_enforced
<1>2. Isolation!SeenIn(table, owner, t) = Isolation!Matched(table.policy, t)
  BY <1>1 DEF Isolation!SeenIn
<1>3. QED
  BY <1>2 DEF Isolation!Matched, Isolation!OwnOrShared

LEMMA TenancyIInvImplies == TenancyIInv => Isolation!TenantsStayApart
<1> SUFFICES ASSUME TenancyIInv PROVE Isolation!TenantsStayApart
  OBVIOUS
<1>1. ASSUME role = "plain", vowed, conn.at \in {"open", "loose"}
      PROVE  /\ Isolation!Sees(conn) \subseteq Isolation!OwnOrShared(conn.unit)
             /\ conn.at = "open" /\ conn.unit # Shared => Isolation!Sees(conn) = Isolation!OwnOrShared(conn.unit)
  <2>1. Isolation!Sees(conn) = Isolation!Matched(table.policy, Isolation!Setting(conn)) /\ table.policy # "none"
    BY <1>1 DEF TenancyIInv, VowKept, Isolation!Sees, Isolation!SeenIn
  <2>2. \A r \in held : r.of \in Bound
    BY DEF TenancyIInv, TenancyTypeInv, Held
  <2>3. \/ conn.unit # Shared /\ Isolation!Setting(conn) = conn.unit
        \/ Isolation!Setting(conn) \notin Holders /\ (conn.at = "open" => conn.unit = Shared)
    BY <1>1 DEF TenancyIInv, PinInv, TenancyTypeInv, Conn, TenantNames, Isolation!Setting, Isolation!Pinned, Bound
  <2>4. QED
    BY <2>1, <2>2, <2>3 DEF Isolation!Matched, Isolation!OwnOrShared, Bound
<1>2. QED
  BY <1>1, VouchedAlways DEF Isolation!TenantsStayApart, Isolation!SeesItsOwn, TenancyIInv, RowsInv

-----------------------------------------------------------------------------
LEMMA TenancyInitIInv == TenantNames /\ Isolation!Init => TenancyIInv
<1> SUFFICES ASSUME TenantNames, Isolation!Init PROVE TenancyIInv
  OBVIOUS
<1>1. table \in Tables /\ VowKept /\ vowed \in BOOLEAN
  <2>1. CASE table = Isolation!Bare
    <3>1. ~ vowed
      BY <2>1 DEF Isolation!Init, Isolation!Bare, Isolation!Guarded, Isolation!Policies
    <3>2. vowed \in BOOLEAN
      BY DEF Isolation!Init
    <3>3. QED
      BY <2>1, <3>1, <3>2 DEF Isolation!Bare, Tables, VowKept
  <2>2. CASE table = Isolation!Guarded("none") \/ table = Isolation!Unforced
    <3>1. \A p \in Isolation!Policies : table # Isolation!Guarded(p)
      BY <2>2 DEF Isolation!Guarded, Isolation!Unforced, Isolation!Policies
    <3>2. ~ vowed /\ vowed \in BOOLEAN
      BY <3>1 DEF Isolation!Init
    <3>3. Isolation!Guarded("none") \in Tables /\ Isolation!Unforced \in Tables
      BY DEF Isolation!Guarded, Isolation!Unforced, Isolation!Policies, Tables
    <3>4. table \in Tables
      BY <2>2, <3>3
    <3>5. QED
      BY <3>2, <3>4 DEF VowKept
  <2>3. CASE \E p \in Isolation!Policies : table = Isolation!Guarded(p)
    <3>1. vowed \in BOOLEAN
      BY DEF Isolation!Init
    <3>2. QED
      BY <2>3, <3>1 DEF Isolation!Guarded, Isolation!Policies, Tables, VowKept
  <2>4. table \in Isolation!Found
    BY DEF Isolation!Init
  <2>5. QED
    BY <2>1, <2>2, <2>3, <2>4 DEF Isolation!Found
<1>2. held \subseteq Held /\ Isolation!NoRowLeftBehind
  BY DEF Isolation!Init, Isolation!Row, Held, Ids, Bound, Isolation!NoRowLeftBehind
<1>3. conn \in Conn /\ conn.at = "closed"
  BY DEF Isolation!Init, Isolation!Closed, Isolation!Fresh, Conn, TenancyValues, Bound
<1>4. migration \in Migrations /\ migration.at = "off"
  BY DEF Isolation!Init, Isolation!Idle, Isolation!Bare, Migrations, Tables, Isolation!Policies
<1>5. TenancyTypeInv
  BY <1>1, <1>2, <1>3, <1>4 DEF Isolation!Init, TenancyTypeInv, Bound
<1>6. PinInv /\ Protecting /\ RowsInv
  BY <1>2, <1>3, <1>4 DEF PinInv, Protecting, RowsInv, Reworked, Isolation!Locked
<1>7. QED
  BY <1>1, <1>5, <1>6 DEF TenancyIInv

-----------------------------------------------------------------------------
(* The programs of the migrations.                                          *)

LEMMA Programs ==
    ASSUME NEW what
    PROVE  /\ what = "rewrite" /\ role = "sqlite" => DOMAIN Isolation!Program(what) = 1 .. 1 /\ Isolation!Program(what)[1] = "update"
           /\ what = "rewrite" /\ role # "sqlite" =>
                 /\ DOMAIN Isolation!Program(what) = 1 .. 3
                 /\ Isolation!Program(what)[1] = "unforce" /\ Isolation!Program(what)[2] = "update" /\ Isolation!Program(what)[3] = "force"
           /\ what = "protect" =>
                 /\ DOMAIN Isolation!Program(what) = 1 .. 3
                 /\ Isolation!Program(what)[1] = "enable" /\ Isolation!Program(what)[2] = "force" /\ Isolation!Program(what)[3] = "policy"
           /\ what = "unprotect" =>
                 /\ DOMAIN Isolation!Program(what) = 1 .. 3
                 /\ Isolation!Program(what)[1] = "drop" /\ Isolation!Program(what)[2] = "unforce" /\ Isolation!Program(what)[3] = "disable"
           /\ what = "column" =>
                 /\ DOMAIN Isolation!Program(what) = 1 .. 2
                 /\ Isolation!Program(what)[1] = "add_column" /\ Isolation!Program(what)[2] = "drop_default"
<1>1. ASSUME what = "rewrite", role = "sqlite"
      PROVE  DOMAIN Isolation!Program(what) = 1 .. 1 /\ Isolation!Program(what)[1] = "update"
  <2>1. Isolation!Program(what) = <<"update">>
    BY <1>1 DEF Isolation!Program
  <2>2. QED
    BY <2>1
<1>2. ASSUME what = "rewrite", role # "sqlite"
      PROVE  DOMAIN Isolation!Program(what) = 1 .. 3 /\ Isolation!Program(what)[1] = "unforce" /\ Isolation!Program(what)[2] = "update" /\ Isolation!Program(what)[3] = "force"
  <2>1. Isolation!Program(what) = <<"unforce", "update", "force">>
    BY <1>2 DEF Isolation!Program
  <2>2. QED
    BY <2>1
<1>3. ASSUME what = "protect"
      PROVE  DOMAIN Isolation!Program(what) = 1 .. 3 /\ Isolation!Program(what)[1] = "enable" /\ Isolation!Program(what)[2] = "force" /\ Isolation!Program(what)[3] = "policy"
  <2>1. Isolation!Program(what) = <<"enable", "force", "policy">>
    BY <1>3 DEF Isolation!Program
  <2>2. QED
    BY <2>1
<1>4. ASSUME what = "unprotect"
      PROVE  DOMAIN Isolation!Program(what) = 1 .. 3 /\ Isolation!Program(what)[1] = "drop" /\ Isolation!Program(what)[2] = "unforce" /\ Isolation!Program(what)[3] = "disable"
  <2>1. Isolation!Program(what) = <<"drop", "unforce", "disable">>
    BY <1>4 DEF Isolation!Program
  <2>2. QED
    BY <2>1
<1>5. ASSUME what = "column"
      PROVE  DOMAIN Isolation!Program(what) = 1 .. 2 /\ Isolation!Program(what)[1] = "add_column" /\ Isolation!Program(what)[2] = "drop_default"
  <2>1. Isolation!Program(what) = <<"add_column", "drop_default">>
    BY <1>5 DEF Isolation!Program
  <2>2. DOMAIN <<"add_column", "drop_default">> = 1 .. 2
    OBVIOUS
  <2>3. <<"add_column", "drop_default">>[1] = "add_column" /\ <<"add_column", "drop_default">>[2] = "drop_default"
    OBVIOUS
  <2>4. QED
    BY ONLY <2>1, <2>2, <2>3
<1>6. QED
  BY <1>1, <1>2, <1>3, <1>4, <1>5

\* The statement a migration is at, and where its statements end.
LEMMA StatementIs ==
    ASSUME NEW what, NEW k \in DOMAIN Isolation!Program(what)
    PROVE  /\ what = "protect" => \/ k = 1 /\ Isolation!Program(what)[k] = "enable"
                                  \/ k = 2 /\ Isolation!Program(what)[k] = "force"
                                  \/ k = 3 /\ Isolation!Program(what)[k] = "policy"
           /\ what = "unprotect" => \/ k = 1 /\ Isolation!Program(what)[k] = "drop"
                                    \/ k = 2 /\ Isolation!Program(what)[k] = "unforce"
                                    \/ k = 3 /\ Isolation!Program(what)[k] = "disable"
           /\ what = "rewrite" /\ role = "sqlite" => k = 1 /\ Isolation!Program(what)[k] = "update"
           /\ what = "rewrite" /\ role # "sqlite" => \/ k = 1 /\ Isolation!Program(what)[k] = "unforce"
                                                     \/ k = 2 /\ Isolation!Program(what)[k] = "update"
                                                     \/ k = 3 /\ Isolation!Program(what)[k] = "force"
           /\ what = "column" => \/ k = 1 /\ Isolation!Program(what)[k] = "add_column"
                                 \/ k = 2 /\ Isolation!Program(what)[k] = "drop_default"
<1>1. ASSUME what = "protect"
      PROVE  (k = 1 /\ Isolation!Program(what)[k] = "enable") \/ (k = 2 /\ Isolation!Program(what)[k] = "force") \/ (k = 3 /\ Isolation!Program(what)[k] = "policy")
  <2>1. k \in 1 .. 3
    BY <1>1, Programs
  <2>2. Isolation!Program(what)[1] = "enable"
    BY <1>1, Programs
  <2>3. Isolation!Program(what)[2] = "force"
    BY <1>1, Programs
  <2>4. Isolation!Program(what)[3] = "policy"
    BY <1>1, Programs
  <2>5. k = 1 \/ k = 2 \/ k = 3
    BY <2>1
  <2>6. QED
    BY ONLY <2>2, <2>3, <2>4, <2>5
<1>2. ASSUME what = "unprotect"
      PROVE  (k = 1 /\ Isolation!Program(what)[k] = "drop") \/ (k = 2 /\ Isolation!Program(what)[k] = "unforce") \/ (k = 3 /\ Isolation!Program(what)[k] = "disable")
  <2>1. k \in 1 .. 3
    BY <1>2, Programs
  <2>2. Isolation!Program(what)[1] = "drop"
    BY <1>2, Programs
  <2>3. Isolation!Program(what)[2] = "unforce"
    BY <1>2, Programs
  <2>4. Isolation!Program(what)[3] = "disable"
    BY <1>2, Programs
  <2>5. k = 1 \/ k = 2 \/ k = 3
    BY <2>1
  <2>6. QED
    BY ONLY <2>2, <2>3, <2>4, <2>5
<1>3. ASSUME what = "rewrite", role = "sqlite"
      PROVE  (k = 1 /\ Isolation!Program(what)[k] = "update")
  <2>1. k \in 1 .. 1
    BY <1>3, Programs
  <2>2. Isolation!Program(what)[1] = "update"
    BY <1>3, Programs
  <2>3. k = 1
    BY <2>1
  <2>4. QED
    BY ONLY <2>2, <2>3
<1>4. ASSUME what = "rewrite", role # "sqlite"
      PROVE  (k = 1 /\ Isolation!Program(what)[k] = "unforce") \/ (k = 2 /\ Isolation!Program(what)[k] = "update") \/ (k = 3 /\ Isolation!Program(what)[k] = "force")
  <2>1. k \in 1 .. 3
    BY <1>4, Programs
  <2>2. Isolation!Program(what)[1] = "unforce"
    BY <1>4, Programs
  <2>3. Isolation!Program(what)[2] = "update"
    BY <1>4, Programs
  <2>4. Isolation!Program(what)[3] = "force"
    BY <1>4, Programs
  <2>5. k = 1 \/ k = 2 \/ k = 3
    BY <2>1
  <2>6. QED
    BY ONLY <2>2, <2>3, <2>4, <2>5
<1>5. ASSUME what = "column"
      PROVE  (k = 1 /\ Isolation!Program(what)[k] = "add_column") \/ (k = 2 /\ Isolation!Program(what)[k] = "drop_default")
  <2>1. k \in 1 .. 2
    BY <1>5, Programs
  <2>2. Isolation!Program(what)[1] = "add_column"
    BY <1>5, Programs
  <2>3. Isolation!Program(what)[2] = "drop_default"
    BY <1>5, Programs
  <2>4. k = 1 \/ k = 2
    BY <2>1
  <2>5. QED
    BY ONLY <2>2, <2>3, <2>4
<1>6. QED
  BY <1>1, <1>2, <1>3, <1>4, <1>5

\* What rows become: the reached ones are ahead, and the others what they were.
LEMMA BroughtRows ==
    ASSUME TenancyTypeInv, NEW X
    PROVE  /\ Isolation!Brought(X) \subseteq Held
           /\ Isolation!NoRowLeftBehind => \A r \in Isolation!Brought(X) : r.level >= level
           /\ held \subseteq X => \A r \in Isolation!Brought(X) : r.level >= level + 1
           /\ \A r \in Isolation!Brought(X) : \E q \in held : q.id = r.id
           /\ X = {} => Isolation!Brought(X) = held
<1> DEFINE Ahead(q) == [q EXCEPT !.level = level + 1]
<1>1. \A r \in Isolation!Brought(X) : \E q \in held : r = IF q \in X THEN Ahead(q) ELSE q
  BY Zenon DEF Isolation!Brought
<1>2. held \subseteq Held /\ level \in Nat
  BY DEF TenancyTypeInv
<1>3. ASSUME NEW q \in Held PROVE Ahead(q) \in Held /\ Ahead(q).level = level + 1 /\ Ahead(q).id = q.id /\ q.level \in Nat
  BY <1>2 DEF Held
<1> HIDE DEF Ahead
<1>4. X = {} => Isolation!Brought(X) = held
  BY DEF Isolation!Brought
<1>5. Isolation!Brought(X) \subseteq Held
  BY <1>1, <1>2, <1>3
<1>6. Isolation!NoRowLeftBehind => \A r \in Isolation!Brought(X) : r.level >= level
  BY <1>1, <1>2, <1>3 DEF Isolation!NoRowLeftBehind
<1>7. held \subseteq X => \A r \in Isolation!Brought(X) : r.level >= level + 1
  BY <1>1, <1>2, <1>3
<1>8. \A r \in Isolation!Brought(X) : \E q \in held : q.id = r.id
  BY <1>1, <1>2, <1>3
<1>9. QED
  BY <1>4, <1>5, <1>6, <1>7, <1>8

-----------------------------------------------------------------------------
(* Steps that leave the table, its rows and its migration alone.            *)

\* The part of the invariant that no unit of work and no binding disturbs.
LEMMA SchemaKept ==
    ASSUME TenancyIInv, Isolation!Schema, role' = role, owner' = owner, engine' = engine,
           conn' \in Conn, PinInv', Isolation!InUse' => ~ Isolation!Locked,
           context'.tenant \in Bound, context'.tokens \in Seq(Bound)
    PROVE  TenancyIInv'
<1>1. TenancyTypeInv'
  BY DEF TenancyIInv, TenancyTypeInv, Isolation!Schema
<1>2. Protecting' /\ VowKept'
  BY DEF TenancyIInv, Protecting, VowKept, Isolation!Schema
<1>3. RowsInv'
  BY DEF TenancyIInv, RowsInv, Isolation!Schema, Isolation!NoRowLeftBehind, Reworked, Isolation!Locked
<1>4. QED
  BY <1>1, <1>2, <1>3 DEF TenancyIInv, TenantNames

LEMMA ContextSteps ==
    ASSUME TenancyIInv, (\E t \in Holders : Isolation!bind_tenant(t)) \/ Isolation!clear_tenant \/ Isolation!reset
    PROVE  TenancyIInv'
<1>1. Isolation!Steps /\ Isolation!Schema /\ conn' = conn
  BY DEF Isolation!bind_tenant, Isolation!clear_tenant, Isolation!reset
<1>2. context'.tenant \in Bound /\ context'.tokens \in Seq(Bound)
  <2>1. context.tenant \in Bound /\ context.tokens \in Seq(Bound)
    BY DEF TenancyIInv, TenancyTypeInv
  <2>2. CASE \E t \in Holders : Isolation!bind_tenant(t)
    <3>1. PICK t \in Holders : Isolation!bind_tenant(t)
      BY <2>2
    <3>2. context' = [tenant |-> t, tokens |-> Append(context.tokens, context.tenant)]
      BY <3>1 DEF Isolation!bind_tenant
    <3>3. Append(context.tokens, context.tenant) \in Seq(Bound)
      BY <2>1
    <3>4. QED
      BY <3>2, <3>3 DEF Bound
  <2>3. CASE Isolation!clear_tenant
    BY <2>1, <2>3 DEF Isolation!clear_tenant, Bound
  <2>4. CASE Isolation!reset
    <3> DEFINE n == Len(context.tokens)
    <3>1. n \in Nat /\ n > 0 /\ context' = [tenant |-> context.tokens[n], tokens |-> SubSeq(context.tokens, 1, n - 1)]
      BY <2>1, <2>4 DEF Isolation!reset
    <3>2. context.tokens[n] \in Bound
      BY <2>1, <3>1, ElementOfSeq
    <3>3. SubSeq(context.tokens, 1, n - 1) \in Seq(Bound)
      BY <2>1, <3>1, <3>2, SubSeqProperties
    <3>4. QED
      BY <3>1, <3>2, <3>3
  <2>5. QED
    BY <2>2, <2>3, <2>4
<1>3. conn' \in Conn /\ PinInv'
  BY <1>1 DEF TenancyIInv, TenancyTypeInv, PinInv, Isolation!Steps, Isolation!Setting, Isolation!Pinned
<1>4. Isolation!InUse' => ~ Isolation!Locked
  BY <1>1 DEF TenancyIInv, RowsInv, Isolation!InUse
<1>5. QED
  BY <1>1, <1>2, <1>3, <1>4, SchemaKept DEF Isolation!Steps

\* The end of a unit of work leaves a connection as the pool hands it on.
LEMMA Ends ==
    ASSUME TenancyIInv, NEW commits \in BOOLEAN, conn.at \in {"open", "loose"}, conn' = Isolation!Over(commits),
           role' = role, engine' = engine
    PROVE  conn' \in Conn /\ PinInv' /\ ~ Isolation!InUse'
<1>1. conn \in Conn /\ engine \in Bound /\ TenantNames /\ PinInv
  BY DEF TenancyIInv, TenancyTypeInv
<1> DEFINE s == IF commits THEN conn.setting ELSE conn.kept
           t == IF s = Unset /\ conn.local # Unset THEN Empty ELSE s
<1>2. s \in TenancyValues /\ t \in TenancyValues
  BY <1>1 DEF Conn, TenancyValues
<1>3. conn' = [conn EXCEPT !.at = "idle", !.setting = t, !.kept = t, !.local = Unset, !.unit = Shared]
  BY DEF Isolation!Over
<1>4. conn' = [at |-> "idle", setting |-> t, kept |-> t, local |-> Unset, unit |-> Shared]
  BY <1>1, <1>3 DEF Conn
<1>5. engine # Shared /\ role # "sqlite" => t = engine
  BY <1>1 DEF PinInv, TenantNames, Bound
<1>6. engine = Shared => t \in {Unset, Empty}
  BY <1>1 DEF PinInv
<1> HIDE DEF s, t
<1>7. conn' \in Conn /\ conn'.at = "idle"
  BY <1>2, <1>4 DEF Conn, TenancyValues, Bound
<1>8. PinInv'
  BY <1>4, <1>5, <1>6 DEF PinInv
<1>9. QED
  BY <1>7, <1>8 DEF Isolation!InUse

LEMMA ConnectionSteps ==
    ASSUME TenancyIInv, Isolation!Connect \/ Isolation!Dispose \/ Isolation!BeginUnit \/ Isolation!BeginUnitLoose \/ \E commits \in BOOLEAN : Isolation!EndUnit(commits)
    PROVE  TenancyIInv'
<1>1. Isolation!Steps /\ Isolation!Schema /\ context' = context
  BY DEF Isolation!Connect, Isolation!Dispose, Isolation!BeginUnit, Isolation!BeginUnitLoose, Isolation!EndUnit
<1>2. conn \in Conn /\ engine \in Bound /\ context.tenant \in Bound /\ TenantNames /\ PinInv
  BY DEF TenancyIInv, TenancyTypeInv
<1>3. conn' \in Conn /\ PinInv' /\ (Isolation!InUse' => ~ Isolation!Locked)
  <2>1. CASE Isolation!Connect
    <3>1. CASE engine = Shared \/ role = "sqlite"
      BY <1>1, <1>2, <2>1, <3>1 DEF Isolation!Connect, Isolation!Fresh, Conn, TenancyValues, Bound, PinInv, Isolation!InUse, Isolation!Steps
    <3>2. CASE engine # Shared /\ role # "sqlite"
      BY <1>1, <1>2, <2>1, <3>2 DEF Isolation!Connect, Isolation!SetAndCommit, Isolation!Fresh, Conn, TenancyValues, Bound, PinInv, Isolation!InUse, Isolation!Steps
    <3>3. QED
      BY <3>1, <3>2
  <2>2. CASE Isolation!Dispose
    BY <2>2 DEF Isolation!Dispose, Isolation!Closed, Isolation!Fresh, Conn, TenancyValues, Bound, PinInv, Isolation!InUse
  <2>3. CASE Isolation!BeginUnit
    <3>1. conn.at = "idle" /\ ~ Isolation!Locked
      BY <2>3 DEF Isolation!BeginUnit
    <3>2. CASE engine # Shared
      <4>1. conn' = [conn EXCEPT !.at = "open", !.unit = engine]
        BY <2>3, <3>2 DEF Isolation!BeginUnit
      <4>2. QED
        BY <1>1, <1>2, <3>1, <3>2, <4>1 DEF Conn, PinInv, Isolation!Steps
    <3>3. CASE engine = Shared
      <4>1. conn' = [conn EXCEPT !.at = "open", !.unit = context.tenant, !.local = Isolation!Pinned(context.tenant)]
        BY <2>3, <3>3 DEF Isolation!BeginUnit
      <4>2. Isolation!Pinned(context.tenant) \in TenancyValues
        BY <1>2 DEF Isolation!Pinned, TenancyValues, Bound
      <4>3. role' = role /\ engine' = engine
        BY <1>1 DEF Isolation!Steps
      <4>4. QED
        BY <1>2, <3>1, <3>3, <4>1, <4>2, <4>3 DEF Conn, PinInv, Isolation!Pinned
    <3>4. QED
      BY <3>2, <3>3
  <2>4. CASE Isolation!BeginUnitLoose
    <3> DEFINE e == IF conn.setting = Unset /\ Isolation!Pinned(context.tenant) # Unset THEN Empty ELSE conn.setting
               k == IF conn.kept = Unset /\ Isolation!Pinned(context.tenant) # Unset THEN Empty ELSE conn.kept
    <3>1. conn.at = "idle" /\ ~ Isolation!Locked /\ engine = Shared
      BY <2>4 DEF Isolation!BeginUnitLoose
    <3>2. conn' = [conn EXCEPT !.at = "loose", !.unit = context.tenant, !.setting = e, !.kept = k]
      BY <2>4 DEF Isolation!BeginUnitLoose
    <3>3. e \in {Unset, Empty} /\ k \in {Unset, Empty} /\ conn.local = Unset
      BY <1>2, <3>1 DEF PinInv
    <3> HIDE DEF e, k
    <3>4. role' = role /\ engine' = engine
      BY <1>1 DEF Isolation!Steps
    <3>5. QED
      BY <1>2, <3>1, <3>2, <3>3, <3>4 DEF Conn, TenancyValues, PinInv
  <2>5. CASE \E commits \in BOOLEAN : Isolation!EndUnit(commits)
    BY <1>1, <2>5, Ends DEF Isolation!EndUnit, Isolation!Steps
  <2>6. QED
    BY <2>1, <2>2, <2>3, <2>4, <2>5
<1>4. context'.tenant \in Bound /\ context'.tokens \in Seq(Bound)
  BY <1>1 DEF TenancyIInv, TenancyTypeInv
<1>5. QED
  BY <1>1, <1>3, <1>4, SchemaKept DEF Isolation!Steps

\* A row is written in the shape that the migration under way has begun.
LEMMA WriteStep ==
    ASSUME TenancyIInv, NEW t \in Bound, Isolation!Write(t)
    PROVE  TenancyIInv'
<1>1. conn.at = "open" /\ held' = held \cup {[id |-> "new", of |-> t, level |-> Isolation!Shape]} /\ conn' = Isolation!Over(TRUE)
  BY DEF Isolation!Write
<1>2. UNCHANGED <<role, owner, engine, table, level, migration, vowed, context>>
  BY DEF Isolation!Write, Isolation!Steps
<1>3. conn' \in Conn /\ PinInv' /\ ~ Isolation!InUse'
  BY <1>1, <1>2, Ends
<1>4. level \in Nat /\ Isolation!Shape \in {level, level + 1}
  BY DEF TenancyIInv, TenancyTypeInv, Isolation!Shape
<1>5. Reworked => ~ migration.together /\ Isolation!Shape = level + 1
  <2> SUFFICES ASSUME Reworked PROVE ~ migration.together /\ Isolation!Shape = level + 1
    OBVIOUS
  <2>1. migration.at = "running" /\ migration.step \in 1 .. 4
    BY DEF Reworked, TenancyIInv, TenancyTypeInv, Migrations
  <2>2. ~ migration.together
    BY <1>1, <2>1 DEF TenancyIInv, RowsInv, Reworked, Isolation!Locked, Isolation!InUse
  <2>3. \E k \in 1 .. migration.step - 1 : Isolation!Program(migration.what)[k] \in {"update", "add_column"}
    <3>1. CASE migration.what = "rewrite" /\ role = "sqlite"
      <4>1. 1 \in 1 .. migration.step - 1
        BY <2>1, <3>1 DEF Reworked
      <4>2. Isolation!Program(migration.what)[1] = "update"
        BY <3>1, Programs
      <4>3. QED
        BY <4>1, <4>2
    <3>2. CASE migration.what = "rewrite" /\ role # "sqlite"
      <4>1. 2 \in 1 .. migration.step - 1
        BY <2>1, <3>2 DEF Reworked
      <4>2. Isolation!Program(migration.what)[2] = "update"
        BY <3>2, Programs
      <4>3. QED
        BY <4>1, <4>2
    <3>3. CASE migration.what = "column"
      <4>1. 1 \in 1 .. migration.step - 1
        BY <2>1, <3>3 DEF Reworked
      <4>2. Isolation!Program(migration.what)[1] = "add_column"
        BY <3>3, Programs
      <4>3. QED
        BY <4>1, <4>2
    <3>4. QED
      BY <3>1, <3>2, <3>3 DEF Reworked
  <2>4. QED
    BY <2>1, <2>2, <2>3 DEF Isolation!Shape
<1>6. TenancyTypeInv'
  <2>1. [id |-> "new", of |-> t, level |-> Isolation!Shape] \in Held
    BY <1>4 DEF Held, Ids
  <2>2. held' \subseteq Held
    BY <1>1, <2>1 DEF TenancyIInv, TenancyTypeInv
  <2>3. QED
    BY <1>2, <1>3, <2>2 DEF TenancyIInv, TenancyTypeInv
<1>7. Protecting' /\ VowKept'
  BY <1>2 DEF TenancyIInv, Protecting, VowKept
<1>8. Isolation!NoRowLeftBehind'
  BY <1>1, <1>2, <1>4 DEF TenancyIInv, RowsInv, Isolation!NoRowLeftBehind
<1>9. Reworked' => ~ migration.together /\ \A r \in held' : r.level >= level + 1
  BY <1>1, <1>2, <1>4, <1>5 DEF TenancyIInv, RowsInv, Reworked
<1>10. RowsInv'
  BY <1>2, <1>3, <1>8, <1>9 DEF RowsInv
<1>11. QED
  BY <1>2, <1>3, <1>6, <1>7, <1>10 DEF TenancyIInv, TenantNames

-----------------------------------------------------------------------------
(* Migrations.                                                              *)

LEMMA BeginStep ==
    ASSUME TenancyIInv, NEW what \in {"protect", "unprotect", "rewrite", "column"}, NEW p \in Isolation!Policies,
           NEW together \in BOOLEAN, Isolation!Begin(what, p, together)
    PROVE  TenancyIInv'
<1>1. /\ UNCHANGED <<role, owner, table, held, level, vowed, context, engine, conn>>
      /\ migration' = [at |-> "running", what |-> what, policy |-> p, together |-> together, step |-> 1,
                       table |-> table, rows |-> {}, vowed |-> vowed]
      /\ what \in {"protect", "unprotect"} => role # "sqlite"
  BY DEF Isolation!Begin
<1>2. migration' \in Migrations
  BY <1>1 DEF TenancyIInv, TenancyTypeInv, Migrations
<1>3. TenancyTypeInv'
  BY <1>1, <1>2 DEF TenancyIInv, TenancyTypeInv
<1>4. PinInv' /\ VowKept'
  BY <1>1 DEF TenancyIInv, PinInv, VowKept, Isolation!Pinned
<1>5. Protecting'
  BY <1>1 DEF TenancyIInv, VowKept, Protecting
<1>6. RowsInv'
  BY <1>1 DEF TenancyIInv, RowsInv, Isolation!NoRowLeftBehind, Reworked, Isolation!Locked
<1>7. QED
  BY <1>1, <1>3, <1>4, <1>5, <1>6 DEF TenancyIInv, TenantNames

\* The switches after a statement.
LEMMA Alterations ==
    ASSUME NEW t \in Tables, NEW s, NEW p \in Isolation!Policies
    PROVE  /\ Isolation!Altered(t, s, p) \in Tables
           /\ s = "enable" => Isolation!Altered(t, s, p).enabled
           /\ s \notin {"enable", "disable"} => Isolation!Altered(t, s, p).enabled = t.enabled
           /\ s = "force" => Isolation!Altered(t, s, p).forced
           /\ s = "unforce" => ~ Isolation!Altered(t, s, p).forced
           /\ s \notin {"force", "unforce"} => Isolation!Altered(t, s, p).forced = t.forced
           /\ s = "policy" => Isolation!Altered(t, s, p).policy = p
           /\ s \notin {"policy", "drop"} => Isolation!Altered(t, s, p).policy = t.policy
<1>1. CASE s = "enable"
  BY <1>1 DEF Isolation!Altered, Tables
<1>2. CASE s = "disable"
  BY <1>2 DEF Isolation!Altered, Tables
<1>3. CASE s = "force"
  BY <1>3 DEF Isolation!Altered, Tables
<1>4. CASE s = "unforce"
  BY <1>4 DEF Isolation!Altered, Tables
<1>5. CASE s = "policy"
  BY <1>5 DEF Isolation!Altered, Tables
<1>6. CASE s = "drop"
  BY <1>6 DEF Isolation!Altered, Tables
<1>7. CASE s \notin {"enable", "disable", "force", "unforce", "policy", "drop"}
  <2>1. Isolation!Altered(t, s, p) = t
    BY <1>7 DEF Isolation!Altered
  <2>2. QED
    BY <1>7, <2>1 DEF Tables
<1>8. QED
  BY <1>1, <1>2, <1>3, <1>4, <1>5, <1>6, <1>7

LEMMA StatementStep ==
    ASSUME TenancyIInv, Isolation!Statement
    PROVE  TenancyIInv'
<1> DEFINE m == migration
           s == Isolation!Program(m.what)[m.step]
           t == Isolation!Altered(m.table, s, m.policy)
           reached == Isolation!Reached(m.table, s)
           ids == m.rows \cup {r.id : r \in reached}
<1>1. /\ m.at = "running" /\ m.step \in DOMAIN Isolation!Program(m.what)
      /\ s # "update" \/ role = "sqlite" => ~ Isolation!InUse
      /\ ~ (s = "drop_default" /\ role = "sqlite")
      /\ migration' = [m EXCEPT !.step = m.step + 1, !.table = t, !.rows = ids]
      /\ m.together => UNCHANGED <<table, held, vowed>>
      /\ ~ m.together => table' = t /\ held' = Isolation!Brought(reached) /\ vowed' = FALSE
      /\ UNCHANGED <<role, owner, engine, level, context, conn>>
  BY DEF Isolation!Statement, Isolation!Steps
<1>2. m \in Migrations /\ m.what \in {"protect", "unprotect", "rewrite", "column"} /\ Protecting
  BY DEF TenancyIInv, TenancyTypeInv, Migrations
\* Which statement it is.
<1>3. /\ m.what = "protect" => \/ m.step = 1 /\ s = "enable"
                               \/ m.step = 2 /\ s = "force"
                               \/ m.step = 3 /\ s = "policy"
      /\ m.what = "unprotect" => \/ m.step = 1 /\ s = "drop"
                                 \/ m.step = 2 /\ s = "unforce"
                                 \/ m.step = 3 /\ s = "disable"
      /\ m.what = "rewrite" /\ role = "sqlite" => m.step = 1 /\ s = "update"
      /\ m.what = "rewrite" /\ role # "sqlite" => \/ m.step = 1 /\ s = "unforce"
                                                  \/ m.step = 2 /\ s = "update"
                                                  \/ m.step = 3 /\ s = "force"
      /\ m.what = "column" => \/ m.step = 1 /\ s = "add_column"
                              \/ m.step = 2 /\ s = "drop_default"
  BY <1>1, StatementIs
<1> HIDE DEF s
<1>4. m.table \in Tables /\ m.policy \in Isolation!Policies /\ m.step \in 1 .. 3 /\ m.step + 1 \in 1 .. 4
  <2>1. m.step = 1 \/ m.step = 2 \/ m.step = 3
    BY <1>2, <1>3
  <2>2. m.table \in Tables /\ m.policy \in Isolation!Policies
    BY <1>2 DEF Migrations
  <2>3. QED
    BY <2>1, <2>2
<1>5. /\ t \in Tables
      /\ s = "enable" => t.enabled
      /\ s \notin {"enable", "disable"} => t.enabled = m.table.enabled
      /\ s = "force" => t.forced
      /\ s = "unforce" => ~ t.forced
      /\ s \notin {"force", "unforce"} => t.forced = m.table.forced
      /\ s = "policy" => t.policy = m.policy
      /\ s \notin {"policy", "drop"} => t.policy = m.table.policy
  BY <1>4, Alterations
<1>6. reached \subseteq held /\ (s \notin {"update", "add_column"} => reached = {})
  BY DEF Isolation!Reached, Isolation!SeenIn, Isolation!Matched
\* A rewriting reaches every row, and so does the default of a column.
<1>7. s \in {"update", "add_column"} => reached = held
  <2>1. CASE s = "add_column"
    BY <2>1 DEF Isolation!Reached
  <2>2. CASE s = "update"
    <3>1. role # "plain" \/ ~ m.table.forced
      BY <1>1, <1>2, <1>3, <2>2 DEF Protecting
    <3>2. QED
      BY <2>2, <3>1 DEF Isolation!Reached, Isolation!SeenIn
  <2>3. QED
    BY <2>1, <2>2
<1> HIDE DEF t, reached
<1>8. ids \subseteq Ids
  <2>1. \A r \in reached : r.id \in Ids
    BY <1>6 DEF TenancyIInv, TenancyTypeInv, Held
  <2>2. m.rows \subseteq Ids
    BY <1>2 DEF Migrations
  <2>3. QED
    BY <2>1, <2>2
<1> HIDE DEF ids
<1>9. /\ migration' \in Migrations /\ migration'.at = "running" /\ migration'.what = m.what
      /\ migration'.together = m.together /\ migration'.step = m.step + 1 /\ migration'.table = t
      /\ migration'.rows = ids /\ migration'.policy = m.policy /\ migration'.vowed = m.vowed
  <2> DEFINE k == m.step + 1
  <2>1. m \in Migrations /\ k \in 1 .. 4 /\ t \in Tables /\ ids \subseteq Ids /\ m.at = "running"
    BY <1>1, <1>2, <1>4, <1>5, <1>8
  <2>2. migration' = [m EXCEPT !.step = k, !.table = t, !.rows = ids]
    BY <1>1
  <2> HIDE DEF k, m
  <2>3. /\ migration' \in Migrations /\ migration'.at = m.at /\ migration'.what = m.what
        /\ migration'.together = m.together /\ migration'.step = k /\ migration'.table = t
        /\ migration'.rows = ids /\ migration'.policy = m.policy /\ migration'.vowed = m.vowed
    BY ONLY <2>1, <2>2 DEF Migrations
  <2>4. QED
    BY ONLY <2>1, <2>3 DEF k
<1> HIDE DEF m
<1>10. Protecting'
  <2>1. \* What held before.
        /\ m.what \in {"protect", "unprotect"} => role # "sqlite"
        /\ m.what = "protect" => /\ m.step > 1 => m.table.enabled
                                 /\ m.step > 2 => m.table.forced
        /\ m.what = "rewrite" /\ role # "sqlite" => (m.step \in {2, 3} => ~ m.table.forced)
        /\ m.vowed /\ m.what \in {"rewrite", "column"} =>
              /\ m.table.enabled /\ m.table.policy # "none"
              /\ m.table.forced \/ (m.what = "rewrite" /\ role # "sqlite" /\ m.step \in {2, 3})
    BY <1>1, <1>2 DEF Protecting, m
  <2>2. \* And after.
        /\ m.what \in {"protect", "unprotect"} => role' # "sqlite"
        /\ m.what = "protect" => /\ m.step + 1 > 1 => t.enabled
                                 /\ m.step + 1 > 2 => t.forced
                                 /\ m.step + 1 > 3 => t.policy = m.policy
        /\ m.what = "rewrite" /\ role' # "sqlite" =>
              /\ m.step + 1 \in {2, 3} => ~ t.forced
              /\ m.step + 1 = 4 => t.forced
        /\ m.what = "rewrite" /\ role' = "sqlite" => m.step + 1 < 3
        /\ m.what = "column" => m.step + 1 < 4
        /\ m.vowed /\ m.what \in {"rewrite", "column"} =>
              /\ t.enabled /\ t.policy # "none"
              /\ t.forced \/ (m.what = "rewrite" /\ role' # "sqlite" /\ m.step + 1 \in {2, 3})
    <3>1. role' = role
      BY <1>1
    <3>2. CASE m.what = "protect"
      BY <1>3, <1>5, <2>1, <3>1, <3>2
    <3>3. CASE m.what = "unprotect"
      BY <2>1, <3>1, <3>3
    <3>4. CASE m.what = "rewrite" /\ role = "sqlite"
      BY <1>3, <1>5, <2>1, <3>1, <3>4
    <3>5. CASE m.what = "rewrite" /\ role # "sqlite"
      BY <1>3, <1>5, <2>1, <3>1, <3>5
    <3>6. CASE m.what = "column"
      <4>1. /\ s = "add_column" \/ s = "drop_default"
            /\ m.step = 1 \/ m.step = 2
        BY <1>3, <3>6
      <4>2. t.enabled = m.table.enabled /\ t.forced = m.table.forced /\ t.policy = m.table.policy
        BY <1>5, <4>1
      <4>3. QED
        <5>1. m.step + 1 < 4
          BY <1>4, <4>1
        <5>2. m.vowed => t.enabled /\ t.policy # "none" /\ t.forced
          BY <2>1, <3>6, <4>2
        <5>3. QED
          BY <3>6, <5>1, <5>2
    <3>7. QED
      BY <1>2, <3>2, <3>3, <3>4, <3>5, <3>6
  <2>3. QED
    BY <1>9, <2>2 DEF Protecting
<1>11. held' \subseteq Held /\ table' \in Tables /\ vowed' \in BOOLEAN /\ VowKept'
  <2>1. TenancyTypeInv /\ VowKept
    BY DEF TenancyIInv
  <2>2. CASE m.together
    <3>1. table' = table /\ held' = held /\ vowed' = vowed
      BY <1>1, <2>2
    <3>2. QED
      BY <2>1, <3>1 DEF TenancyTypeInv, VowKept
  <2>3. CASE ~ m.together
    <3>1. Isolation!Brought(reached) \subseteq Held
      BY <2>1, BroughtRows
    <3>2. QED
      BY <1>1, <1>5, <2>3, <3>1 DEF VowKept
  <2>4. QED
    BY <2>2, <2>3
<1>12. TenancyTypeInv'
  BY <1>1, <1>9, <1>11 DEF TenancyIInv, TenancyTypeInv
<1>13. PinInv'
  BY <1>1 DEF TenancyIInv, PinInv, Isolation!Pinned
\* What the migration has done is done in full.
<1>14. Reworked' => s \in {"update", "add_column"} \/ Reworked
  <2>1. SUFFICES ASSUME Reworked' PROVE s \in {"update", "add_column"} \/ Reworked
    OBVIOUS
  <2>2. role' = role /\ m = migration /\ migration.at = "running"
    BY <1>1 DEF m
  <2>3. CASE m.what = "rewrite" /\ role = "sqlite"
    BY <1>3, <2>3
  <2>4. CASE m.what = "rewrite" /\ role # "sqlite"
    <3>1. m.step + 1 > 2
      BY <1>9, <2>1, <2>2, <2>4 DEF Reworked
    <3>2. (m.step = 2 /\ s = "update") \/ m.step = 3
      BY <1>3, <2>4, <3>1
    <3>3. ASSUME m.step = 3 PROVE Reworked
      <4>1. migration.at = "running" /\ migration.what = "rewrite" /\ migration.step = 3 /\ role # "sqlite"
        BY <2>2, <2>4, <3>3
      <4>2. QED
        BY <4>1 DEF Reworked
    <3>4. QED
      BY <3>2, <3>3
  <2>5. CASE m.what = "column"
    <3>1. s = "add_column" \/ m.step = 2
      BY <1>3, <2>5
    <3>2. ASSUME m.step = 2 PROVE Reworked
      <4>1. migration.at = "running" /\ migration.what = "column" /\ migration.step = 2
        BY <2>2, <2>5, <3>2
      <4>2. QED
        BY <4>1 DEF Reworked
    <3>3. QED
      BY <3>1, <3>2
  <2>6. QED
    BY <1>9, <2>1, <2>3, <2>4, <2>5 DEF Reworked
<1>15. Reworked' /\ m.together => \A r \in held' : r.id \in ids
  <2>1. SUFFICES ASSUME Reworked', m.together PROVE \A r \in held : r.id \in ids
    BY <1>1
  <2>2. CASE s \in {"update", "add_column"}
    BY <1>7, <2>2 DEF ids
  <2>3. CASE Reworked
    BY <2>1, <2>3 DEF TenancyIInv, RowsInv, m, ids
  <2>4. QED
    BY <1>14, <2>1, <2>2, <2>3
<1>16. TenancyTypeInv /\ Isolation!NoRowLeftBehind
  BY DEF TenancyIInv, RowsInv
<1>17. Reworked' /\ ~ m.together => \A r \in held' : r.level >= level + 1
  <2>1. SUFFICES ASSUME Reworked', ~ m.together PROVE \A r \in Isolation!Brought(reached) : r.level >= level + 1
    BY <1>1
  <2>2. CASE s \in {"update", "add_column"}
    BY <1>7, <1>16, <2>2, BroughtRows
  <2>3. CASE s \notin {"update", "add_column"}
    <3>1. Isolation!Brought(reached) = held
      BY <1>6, <1>16, <2>3, BroughtRows
    <3>2. QED
      BY <1>14, <2>1, <2>3, <3>1 DEF TenancyIInv, RowsInv, m
  <2>4. QED
    BY <2>2, <2>3
<1>18. Isolation!NoRowLeftBehind'
  <2>1. \A r \in Isolation!Brought(reached) : r.level >= level
    BY <1>16, BroughtRows
  <2>2. QED
    BY <1>1, <1>16, <2>1 DEF Isolation!NoRowLeftBehind
\* A first statement waits for the units in progress, and they wait for the others.
<1>19. Isolation!Locked' => ~ Isolation!InUse'
  <2>1. Isolation!Locked' => m.together
    BY <1>9 DEF Isolation!Locked
  <2>2. m.together /\ s = "update" /\ role # "sqlite" => Isolation!Locked
    BY <1>1, <1>2, <1>3 DEF Isolation!Locked, m
  <2>3. Isolation!Locked => ~ Isolation!InUse
    BY DEF TenancyIInv, RowsInv
  <2>4. QED
    BY <1>1, <2>1, <2>2, <2>3 DEF Isolation!InUse
<1>20. RowsInv'
  BY <1>1, <1>9, <1>15, <1>17, <1>18, <1>19 DEF RowsInv
<1>21. QED
  BY <1>1, <1>10, <1>11, <1>12, <1>13, <1>20 DEF TenancyIInv, TenantNames

LEMMA FinishStep ==
    ASSUME TenancyIInv, Isolation!Finish
    PROVE  TenancyIInv'
<1> DEFINE m == migration
           X == {r \in held : r.id \in m.rows}
           data == m.what \in {"rewrite", "column"}
<1>1. /\ m.at = "running" /\ m.step \notin DOMAIN Isolation!Program(m.what) /\ table' = m.table
      /\ m.together => held' = Isolation!Brought(X)
      /\ ~ m.together => held' = held
      /\ level' = (IF data THEN level + 1 ELSE level)
      /\ vowed' = (m.what = "protect" \/ (data /\ m.vowed)) /\ migration' = Isolation!Idle
      /\ UNCHANGED <<role, owner, engine, context, conn>>
  BY DEF Isolation!Finish, Isolation!Steps
<1>2. m \in Migrations /\ Protecting /\ TenancyTypeInv /\ RowsInv
  BY DEF TenancyIInv, TenancyTypeInv
<1>3. /\ m.what = "protect" \/ (m.what = "rewrite" /\ role # "sqlite") => m.step = 4
      /\ m.what = "rewrite" /\ role = "sqlite" => m.step > 1
      /\ m.what = "column" => m.step > 2
  <2>1. m.step \in 1 .. 4
    BY <1>2 DEF Migrations
  <2>2. ASSUME m.what = "protect" \/ (m.what = "rewrite" /\ role # "sqlite") PROVE m.step = 4
    <3>1. m.step \notin 1 .. 3
      BY <1>1, <2>2, Programs
    <3>2. QED
      BY <2>1, <3>1
  <2>3. ASSUME m.what = "rewrite", role = "sqlite" PROVE m.step > 1
    <3>1. m.step \notin 1 .. 1
      BY <1>1, <2>3, Programs
    <3>2. QED
      BY <2>1, <3>1
  <2>4. ASSUME m.what = "column" PROVE m.step > 2
    <3>1. m.step \notin 1 .. 2
      BY <1>1, <2>4, Programs
    <3>2. QED
      BY <2>1, <3>1
  <2>5. QED
    BY <2>2, <2>3, <2>4
<1>4. VowKept'
  <2>1. m.policy # "none" /\ m.table \in Tables /\ m.vowed \in BOOLEAN
    BY <1>2 DEF Migrations, Isolation!Policies
  <2>2. CASE m.what = "protect"
    BY <1>1, <1>2, <1>3, <2>1, <2>2 DEF VowKept, Protecting
  <2>3. CASE data /\ m.vowed
    BY <1>1, <1>2, <1>3, <2>1, <2>3 DEF VowKept, Protecting
  <2>4. QED
    BY <1>1, <2>2, <2>3 DEF VowKept
<1>5. data => Reworked
  <2>1. CASE m.what = "rewrite" /\ role = "sqlite"
    BY <1>1, <1>3, <2>1 DEF Reworked
  <2>2. CASE m.what = "rewrite" /\ role # "sqlite"
    <3>1. m.step = 4
      BY <1>3, <2>2
    <3>2. QED
      BY <1>1, <2>2, <3>1 DEF Reworked
  <2>3. CASE m.what = "column"
    <3>1. m.step > 2 /\ m.step \in Nat
      BY <1>2, <1>3, <2>3 DEF Migrations
    <3>2. QED
      BY <1>1, <2>3, <3>1 DEF Reworked
  <2>4. QED
    BY <2>1, <2>2, <2>3
<1>6. level \in Nat /\ level' \in Nat
  BY <1>1, <1>2 DEF TenancyTypeInv
<1>7. held' \subseteq Held
  <2>1. Isolation!Brought(X) \subseteq Held /\ held \subseteq Held
    BY <1>2, BroughtRows DEF TenancyTypeInv
  <2>2. QED
    BY <1>1, <1>2, <2>1 DEF Migrations
<1>8. \A r \in held' : r.level >= level'
  <2>1. Isolation!NoRowLeftBehind /\ (Reworked /\ ~ m.together => \A r \in held : r.level >= level + 1)
        /\ (Reworked /\ m.together => held \subseteq X)
    BY <1>2 DEF RowsInv
  <2>2. m.together \in BOOLEAN
    BY <1>2 DEF Migrations
  <2>3. CASE m.together /\ data
    <3>1. \A r \in Isolation!Brought(X) : r.level >= level + 1
      BY <1>2, <1>5, <2>1, <2>3, BroughtRows
    <3>2. QED
      BY <1>1, <2>3, <3>1
  <2>4. CASE m.together /\ ~ data
    <3>1. \A r \in Isolation!Brought(X) : r.level >= level
      BY <1>2, <2>1, BroughtRows
    <3>2. QED
      BY <1>1, <2>4, <3>1
  <2>5. CASE ~ m.together
    BY <1>1, <1>5, <2>1, <2>5 DEF Isolation!NoRowLeftBehind
  <2>6. QED
    BY <2>2, <2>3, <2>4, <2>5
<1>9. migration' \in Migrations /\ migration'.at = "off"
  BY <1>1 DEF Isolation!Idle, Isolation!Bare, Migrations, Tables, Isolation!Policies
<1>10. table' \in Tables /\ vowed' \in BOOLEAN
  BY <1>1, <1>2 DEF Migrations
<1>11. TenancyTypeInv'
  BY <1>1, <1>2, <1>6, <1>7, <1>9, <1>10 DEF TenancyTypeInv
<1>12. PinInv' /\ Protecting'
  BY <1>1, <1>9 DEF TenancyIInv, PinInv, Isolation!Pinned, Protecting
<1>13. RowsInv'
  BY <1>8, <1>9 DEF RowsInv, Isolation!NoRowLeftBehind, Reworked, Isolation!Locked
<1>14. QED
  BY <1>1, <1>4, <1>11, <1>12, <1>13 DEF TenancyIInv, TenantNames

\* A migration that fails leaves the rows as they are, which none is behind.
LEMMA GivesUp ==
    ASSUME TenancyIInv, Isolation!Raises \/ Isolation!Dies
    PROVE  TenancyIInv'
<1>1. UNCHANGED <<role, owner, engine, held, level, context, conn>> /\ migration' = Isolation!Idle
  BY DEF Isolation!Raises, Isolation!Dies, Isolation!Steps
<1>2. migration' \in Migrations /\ migration'.at = "off"
  BY <1>1 DEF Isolation!Idle, Isolation!Bare, Migrations, Tables, Isolation!Policies
<1>3. table' \in Tables /\ vowed' \in BOOLEAN /\ VowKept'
  <2>1. table \in Tables /\ vowed \in BOOLEAN /\ VowKept /\ migration \in Migrations /\ Protecting
    BY DEF TenancyIInv, TenancyTypeInv
  <2>2. CASE UNCHANGED <<table, vowed>>
    BY <2>1, <2>2 DEF VowKept
  <2>3. CASE ~ UNCHANGED <<table, vowed>>
    <3>1. /\ migration.at = "running" /\ migration.what = "rewrite"
          /\ table' = [migration.table EXCEPT !.forced = TRUE] /\ vowed' = migration.vowed
      BY <2>3 DEF Isolation!Raises, Isolation!Dies
    <3>2. migration.table \in Tables /\ migration.vowed \in BOOLEAN
      BY <2>1 DEF Migrations
    <3>3. migration.vowed => migration.table.enabled /\ migration.table.policy # "none"
      BY <2>1, <3>1 DEF Protecting
    <3>4. QED
      BY <3>1, <3>2, <3>3 DEF Tables, VowKept
  <2>4. QED
    BY <2>2, <2>3
<1>4. TenancyTypeInv'
  BY <1>1, <1>2, <1>3 DEF TenancyIInv, TenancyTypeInv
<1>5. PinInv' /\ Protecting'
  BY <1>1, <1>2 DEF TenancyIInv, PinInv, Isolation!Pinned, Protecting
<1>6. RowsInv'
  BY <1>1, <1>2 DEF TenancyIInv, RowsInv, Isolation!NoRowLeftBehind, Reworked, Isolation!Locked
<1>7. QED
  BY <1>1, <1>3, <1>4, <1>5, <1>6 DEF TenancyIInv, TenantNames

-----------------------------------------------------------------------------
LEMMA TenancyStepIInv == TenancyIInv /\ [Isolation!Next]_(Isolation!tenancy) => TenancyIInv'
<1> SUFFICES ASSUME TenancyIInv, [Isolation!Next]_(Isolation!tenancy) PROVE TenancyIInv'
  OBVIOUS
<1>1. CASE (\E t \in Holders : Isolation!bind_tenant(t)) \/ Isolation!clear_tenant \/ Isolation!reset
  BY <1>1, ContextSteps
<1>2. CASE Isolation!Connect \/ Isolation!Dispose \/ Isolation!BeginUnit \/ Isolation!BeginUnitLoose \/ \E commits \in BOOLEAN : Isolation!EndUnit(commits)
  BY <1>2, ConnectionSteps
<1>3. CASE \E t \in Holders \cup {Shared} : Isolation!Write(t)
  BY <1>3, WriteStep DEF Bound
<1>4. CASE \E what \in {"protect", "unprotect", "rewrite", "column"}, p \in Isolation!Policies, together \in BOOLEAN :
               Isolation!Begin(what, p, together)
  BY <1>4, BeginStep
<1>5. CASE Isolation!Statement
  BY <1>5, StatementStep
<1>6. CASE Isolation!Finish
  BY <1>6, FinishStep
<1>7. CASE Isolation!Raises \/ Isolation!Dies
  BY <1>7, GivesUp
<1>8. CASE UNCHANGED Isolation!tenancy
  <2>1. UNCHANGED <<role, owner, table, held, level, context, engine, conn, migration, vowed>>
    BY <1>8 DEF Isolation!tenancy
  <2>2. Isolation!Schema
    BY <2>1 DEF Isolation!Schema
  <2>3. conn' \in Conn /\ context'.tenant \in Bound /\ context'.tokens \in Seq(Bound)
    BY <2>1 DEF TenancyIInv, TenancyTypeInv
  <2>4. PinInv' /\ (Isolation!InUse' => ~ Isolation!Locked)
    BY <2>1 DEF TenancyIInv, PinInv, Isolation!Pinned, RowsInv, Isolation!InUse
  <2>5. QED
    BY <2>1, <2>2, <2>3, <2>4, SchemaKept
<1>9. QED
  BY <1>1, <1>2, <1>3, <1>4, <1>5, <1>6, <1>7, <1>8 DEF Isolation!Next

-----------------------------------------------------------------------------
(* What the components' proofs need of the natural numbers: a set of them    *)
(* has a least element, and a function can be defined along them.            *)

LEMMA LeastNatural ==
    ASSUME NEW T, T \subseteq Nat, T # {}
    PROVE  \E n \in T : \A m \in T : n <= m
<1> DEFINE R == {ss \in Nat \X Nat : ss[1] < ss[2]}
<1>1. IsWellFoundedOn(R, Nat) BY NatLessThanWellFounded DEF OpToRel
<1>2. \E x \in T : \A y \in T : ~ (<<y, x>> \in R)
  <2> HIDE DEF R
  <2> QED BY <1>1, WFMin
<1>3. PICK x \in T : \A y \in T : ~ (<<y, x>> \in R) BY <1>2
<1>4. ASSUME NEW m \in T PROVE x <= m
  <2>1. <<m, x>> \notin R BY <1>3
  <2>2. x \in Nat /\ m \in Nat OBVIOUS
  <2>3. ~ (m < x) BY <2>1, <2>2
  <2> QED BY <2>2, <2>3
<1> QED BY <1>4

\* A set that holds 0 and the successor of each of its members holds every number.
LEMMA NaturalSteps ==
    ASSUME NEW T, 0 \in T, \A n \in Nat : n \in T => n + 1 \in T
    PROVE  Nat \subseteq T
<1> SUFFICES ASSUME Nat \ T # {} PROVE FALSE OBVIOUS
<1>1. PICK n \in Nat \ T : \A m \in Nat \ T : n <= m BY LeastNatural
<1>2. n # 0 OBVIOUS
<1>3. n - 1 \in Nat /\ n = (n - 1) + 1 BY <1>2
<1>4. n - 1 \in T BY <1>1, <1>3
<1> QED BY <1>3, <1>4

\* A set that maps onto another one-to-one has as many elements.
LEMMA SameCount ==
    ASSUME NEW X, NEW Y, IsFiniteSet(X), NEW f \in [X -> Y],
           \A a, b \in X : f[a] = f[b] => a = b, \A y \in Y : \E a \in X : f[a] = y
    PROVE  IsFiniteSet(Y) /\ Cardinality(Y) = Cardinality(X)
<1>1. f \in Bijection(X, Y) BY Fun_IsBij
<1>2. ExistsBijection(X, Y) BY <1>1, Fun_ExistsBij
<1> QED BY <1>2, FS_Bijection

-----------------------------------------------------------------------------
(* Lookup values (LookupValues): versions that go back are known to, and an  *)
(* org's requests touch its own rows.                                       *)

LookupContexts == Holders \cup {Shared}
Entries == [id : Nat, org : LookupContexts, code : Codes, text : Nat, status : {"active", "deprecated"},
            next : Nat, parent : Nat, aliases : SUBSET Words]
Session == [at : {"idle", "begun", "inserted", "labelled"}, org : LookupContexts, version : Nat, id : Nat]

LookupsTypeInv ==
    /\ scope \in {"platform", "org"} /\ version \in Nat /\ saves \in Nat
    /\ values \subseteq Entries
    /\ request \in [Requests -> Session]
    /\ client \in [org : LookupContexts, version : Nat, shown : {client.shown}, reading : Nat]

\* Rows are numbered from 1, each with a number of its own.
Enumerated(rows) ==
    /\ \E n \in Nat : {v.id : v \in rows} = 1..n
    /\ \A v, w \in rows : v.id = w.id => v = w

\* A version above the current one was given away by a writer that went back.
VersionsKnown ==
    /\ client.version <= version \/ client.version \in skewed
    /\ client.reading <= version \/ client.reading \in skewed

\* A request that has inserted a row may write for its context, and the row is the context's.
OwnInsert ==
    \A p \in Requests : request[p].at \in {"inserted", "labelled"} =>
        /\ request[p].org # Shared => scope = "org"
        /\ \A v \in values : v.id = request[p].id => v.org = request[p].org
        /\ \E v \in values : v.id = request[p].id

LookupsIInv == LookupsTypeInv /\ Enumerated(values) /\ VersionsKnown /\ OwnInsert /\ Values!NotModifiedIsTrue

LEMMA EnumeratedCount ==
  ASSUME NEW X, NEW n \in Nat, {v.id : v \in X} = 1..n, \A v, w \in X : v.id = w.id => v = w
  PROVE  Values!Cardinality(X) = n
<1>1. PICK f : f = [i \in 1..n |-> CHOOSE v \in X : v.id = i] OBVIOUS
<1>2. \A i \in 1..n : f[i] \in X /\ f[i].id = i
  <2> SUFFICES ASSUME NEW i \in 1..n PROVE f[i] \in X /\ f[i].id = i OBVIOUS
  <2>1. \E v \in X : v.id = i OBVIOUS
  <2> QED BY <1>1, <2>1
<1>3. f \in [1..n -> X] BY <1>1, <1>2
<1>4. \A a, b \in 1..n : f[a] = f[b] => a = b BY <1>2
<1>5. \A v \in X : \E a \in 1..n : f[a] = v
  <2> SUFFICES ASSUME NEW v \in X PROVE \E a \in 1..n : f[a] = v OBVIOUS
  <2>1. v.id \in 1..n OBVIOUS
  <2> QED BY <1>2, <2>1
<1>6. IsFiniteSet(1..n) /\ Cardinality(1..n) = n BY FS_Interval
<1>7. Cardinality(X) = n BY <1>3, <1>4, <1>5, <1>6, SameCount
<1>8. Values!Cardinality(X) = Cardinality(X)
  BY DEF Values!Cardinality, Cardinality, Values!IsFiniteSet, IsFiniteSet
<1> QED BY <1>7, <1>8

-----------------------------------------------------------------------------
(* What a context is answered depends on the rows it sees.                   *)

\* The answers, from the rows seen.
ListOf(seen) == {Values!Serialized(v, seen) : v \in Values!PreferOrg(seen)}
LabelsOf(seen) == {<<v.code, v.text>> : v \in Values!PreferOrg(seen)}
CodesOf(seen, wanted) == {<<v.code, v.text>> : v \in {w \in Values!PreferOrg(seen) : w.code \in wanted}}
ReadOf(seen, c) ==
    {Values!Serialized(w, seen) : w \in
        UNION {LET next == {u \in seen : u.id = v.next} IN IF next # {} THEN next ELSE {v} :
               v \in {u \in Values!PreferOrg(seen) : u.code = c}}}

AnswersBySight ==
    \A o, c :
        /\ Values!list_values(values, o) = ListOf(Values!Visible(values, o))
        /\ Values!label_maps(values, o) = LabelsOf(Values!Visible(values, o))
        /\ Values!resolve_codes(values, o, Codes) = CodesOf(Values!Visible(values, o), Codes)
        /\ Values!get_value_read(o, c) = ReadOf(Values!Visible(values, o), c)

LEMMA AnswersAlwaysBySight == []AnswersBySight
<1>1. AnswersBySight
  BY DEF AnswersBySight, Values!list_values, Values!label_maps, Values!resolve_codes, Values!get_value_read,
     Values!ByCode, ListOf, LabelsOf, CodesOf, ReadOf
<1> QED BY <1>1, PTL

LEMMA SameSight ==
  ASSUME NEW o, Values!Visible(values, o)' = Values!Visible(values, o)
  PROVE  /\ Values!list_values(values, o)' = Values!list_values(values, o)
         /\ Values!label_maps(values, o)' = Values!label_maps(values, o)
         /\ Values!resolve_codes(values, o, Codes)' = Values!resolve_codes(values, o, Codes)
         /\ \A c : Values!get_value_read(o, c)' = Values!get_value_read(o, c)
<1>1. AnswersBySight BY AnswersAlwaysBySight, PTL
<1>2. AnswersBySight' BY AnswersAlwaysBySight, PTL
<1>3. PICK seen : seen = Values!Visible(values, o) OBVIOUS
<1>4. seen = Values!Visible(values, o)' BY <1>3
<1>5. \A c : /\ Values!list_values(values, o) = ListOf(seen)
             /\ Values!label_maps(values, o) = LabelsOf(seen)
             /\ Values!resolve_codes(values, o, Codes) = CodesOf(seen, Codes)
             /\ Values!get_value_read(o, c) = ReadOf(seen, c)
  BY <1>1, <1>3 DEF AnswersBySight
<1>6. \A c : /\ Values!list_values(values, o)' = ListOf(seen)
             /\ Values!label_maps(values, o)' = LabelsOf(seen)
             /\ Values!resolve_codes(values, o, Codes)' = CodesOf(seen, Codes)
             /\ Values!get_value_read(o, c)' = ReadOf(seen, c)
  BY <1>2, <1>4 DEF AnswersBySight
<1> QED BY <1>5, <1>6

LEMMA SameRowsSeen == UNCHANGED <<scope, values>> => \A o : Values!list_values(values, o)' = Values!list_values(values, o)
<1> SUFFICES ASSUME UNCHANGED <<scope, values>>, NEW o PROVE Values!list_values(values, o)' = Values!list_values(values, o)
  OBVIOUS
<1>1. Values!Visible(values, o)' = Values!Visible(values, o) BY DEF Values!Visible
<1> QED BY <1>1, SameSight

-----------------------------------------------------------------------------
(* Requests.                                                                *)

\* The rows become others, of the same numbers and orgs, and only those of one context differ.
Rewrote(o, after) ==
    /\ after \subseteq Entries /\ Enumerated(after)
    /\ \A q : q # o => {v \in after : v.org = q} = {v \in values : v.org = q}
    /\ \A v \in after : \E u \in values : u.id = v.id /\ u.org = v.org
    /\ \A u \in values : \E v \in after : v.id = u.id

LEMMA SavedRows ==
  ASSUME LookupsIInv, NEW o, NEW X \in SUBSET Entries,
         \A w \in X : w.org = o /\ \E v \in values : v.id = w.id /\ v.org = o,
         \A w, x \in X : w.id = x.id => w = x
  PROVE  Rewrote(o, {v \in values : \A w \in X : w.id # v.id} \cup X)
<1>1. PICK after : after = {v \in values : \A w \in X : w.id # v.id} \cup X OBVIOUS
<1>2. values \subseteq Entries /\ \A v, w \in values : v.id = w.id => v = w BY DEF LookupsIInv, LookupsTypeInv, Enumerated
<1>3. after \subseteq Entries BY <1>1, <1>2
<1>4. \A v \in after : \E u \in values : u.id = v.id /\ u.org = v.org BY <1>1
<1>5. \A u \in values : \E v \in after : v.id = u.id BY <1>1
<1>6. \A v, w \in after : v.id = w.id => v = w BY <1>1, <1>2
<1>7. {v.id : v \in after} = {v.id : v \in values} BY <1>4, <1>5
<1>8. Enumerated(after) BY <1>6, <1>7 DEF LookupsIInv, Enumerated
<1>9. ASSUME NEW q, q # o PROVE {v \in after : v.org = q} = {v \in values : v.org = q}
  <2>1. \A v \in values : v.org = q => \A w \in X : w.id # v.id BY <1>2, <1>9
  <2> QED BY <1>1, <1>9, <2>1
<1>10. Rewrote(o, after) BY <1>3, <1>4, <1>5, <1>8, <1>9 DEF Rewrote
<1> QED BY <1>1, <1>10

\* A version that goes back is noted.
LEMMA VersionsMove ==
  ASSUME LookupsTypeInv, VersionsKnown, NEW v \in Nat, version' = v + 1, skewed' = skewed \cup (v + 1 .. version),
         UNCHANGED client
  PROVE  VersionsKnown' /\ Values!NotModifiedIsTrue'
<1>1. version \in Nat /\ client.version \in Nat /\ client.reading \in Nat BY DEF LookupsTypeInv
<1>2. ASSUME NEW n \in Nat, n <= version \/ n \in skewed PROVE n <= version' \/ n \in skewed'
  BY <1>1, <1>2
<1>3. VersionsKnown' BY <1>1, <1>2 DEF VersionsKnown
<1>4. ~ (client'.version = version' /\ version' \notin skewed')
  <2> SUFFICES ASSUME client.version = v + 1, v + 1 \notin skewed, v + 1 \notin (v + 1 .. version) PROVE FALSE OBVIOUS
  <2>1. v + 1 > version BY <1>1
  <2> QED BY <1>1, <2>1 DEF VersionsKnown
<1> QED BY <1>3, <1>4 DEF Values!NotModifiedIsTrue

LEMMA OthersUnseen ==
  ASSUME SharedIsNobodys, UNCHANGED scope, author' # Shared => scope = "org",
         \A q : q # author' => {v \in values' : v.org = q} = {v \in values : v.org = q}
  PROVE  Values!OthersStepUnseen
<1>1. ASSUME NEW o \in Holders, author' \in Holders \ {o} \/ (author' = Shared /\ scope = "org")
      PROVE  Values!Visible(values, o)' = Values!Visible(values, o)
  <2>1. scope = "org" /\ o # author' BY <1>1 DEF SharedIsNobodys
  <2>2. {v \in values' : v.org = o} = {v \in values : v.org = o} BY <2>1
  <2> QED BY <2>1, <2>2 DEF Values!Visible
<1> QED BY <1>1, SameSight DEF Values!OthersStepUnseen

LEMMA WaitingFits == Values!Waiting \in Session /\ Values!Waiting.at = "idle"
BY DEF Values!Waiting, Session, LookupContexts

LEMMA RewriteStep ==
  ASSUME SharedIsNobodys, LookupsIInv, NEW p \in Requests, Rewrote(request[p].org, values'),
         request[p].org # Shared => scope = "org",
         author' = request[p].org, version' = request[p].version + 1,
         skewed' = skewed \cup (request[p].version + 1 .. version),
         request' = [request EXCEPT ![p] = Values!Waiting], UNCHANGED <<scope, client, saves>>
  PROVE  LookupsIInv' /\ Values!OthersStepUnseen
<1>1. PICK r \in Session : r = request[p] BY DEF LookupsIInv, LookupsTypeInv
<1>2. r.version \in Nat BY DEF Session
<1>3. VersionsKnown' /\ Values!NotModifiedIsTrue'
  <2>1. LookupsTypeInv /\ VersionsKnown BY DEF LookupsIInv
  <2> QED BY <1>1, <1>2, <2>1, VersionsMove
<1>4. LookupsTypeInv'
  <2>1. version' \in Nat BY <1>1, <1>2
  <2>2. request' \in [Requests -> Session] BY WaitingFits DEF LookupsIInv, LookupsTypeInv
  <2>3. values' \subseteq Entries BY DEF Rewrote
  <2> QED BY <2>1, <2>2, <2>3 DEF LookupsIInv, LookupsTypeInv
<1>5. OwnInsert'
  <2>1. \A q \in Requests : request'[q] = IF q = p THEN Values!Waiting ELSE request[q] BY DEF LookupsIInv, LookupsTypeInv
  <2>2. ASSUME NEW q \in Requests, request'[q].at \in {"inserted", "labelled"}
        PROVE  /\ request'[q].org # Shared => scope' = "org"
               /\ \A v \in values' : v.id = request'[q].id => v.org = request'[q].org
               /\ \E v \in values' : v.id = request'[q].id
    <3>1. request'[q] = request[q] BY <2>1, <2>2, WaitingFits
    <3>2. /\ request[q].org # Shared => scope = "org"
          /\ \A v \in values : v.id = request[q].id => v.org = request[q].org
          /\ \E v \in values : v.id = request[q].id
      BY <2>2, <3>1 DEF LookupsIInv, OwnInsert
    <3> QED BY <3>1, <3>2 DEF Rewrote
  <2> QED BY <2>2 DEF OwnInsert
<1>6. Enumerated(values)' BY DEF Rewrote, Enumerated
<1>7. Values!OthersStepUnseen BY OthersUnseen DEF Rewrote
<1> QED BY <1>3, <1>4, <1>5, <1>6, <1>7 DEF LookupsIInv

LEMMA SaveStep ==
  ASSUME SharedIsNobodys, LookupsIInv, NEW p \in Requests, NEW X \in SUBSET Entries, Values!Save(p, X),
         request[p].org # Shared => scope = "org",
         \A w \in X : w.org = request[p].org /\ \E v \in values : v.id = w.id /\ v.org = request[p].org,
         \A w, x \in X : w.id = x.id => w = x
  PROVE  LookupsIInv' /\ Values!OthersStepUnseen
<1>1. values' = {v \in values : \A w \in X : w.id # v.id} \cup X BY DEF Values!Save
<1>2. Rewrote(request[p].org, values') BY <1>1, SavedRows
<1> QED BY <1>2, RewriteStep DEF Values!Save, Values!Touched

\* The edits of a row.
LEMMA RowEdits ==
  ASSUME NEW v \in Entries, NEW n \in Nat
  PROVE  /\ [v EXCEPT !.text = n] \in {w \in Entries : w.id = v.id /\ w.org = v.org}
         /\ [v EXCEPT !.status = "deprecated"] \in {w \in Entries : w.id = v.id /\ w.org = v.org}
         /\ [v EXCEPT !.next = n] \in {w \in Entries : w.id = v.id /\ w.org = v.org}
         /\ [v EXCEPT !.status = "deprecated", !.next = n] \in {w \in Entries : w.id = v.id /\ w.org = v.org}
BY DEF Entries

LEMMA AliasEdits ==
  ASSUME NEW v \in Entries, NEW word \in Words
  PROVE  /\ [v EXCEPT !.aliases = @ \cup {word}] \in {w \in Entries : w.id = v.id /\ w.org = v.org}
         /\ [v EXCEPT !.aliases = @ \ {word}] \in {w \in Entries : w.id = v.id /\ w.org = v.org}
BY DEF Entries

LEMMA SaveOne ==
  ASSUME SharedIsNobodys, LookupsIInv, NEW p \in Requests, NEW c, NEW v \in Values!ForWrite(request[p].org, c),
         NEW w \in Entries, w.id = v.id, w.org = v.org, Values!Save(p, {w})
  PROVE  LookupsIInv' /\ Values!OthersStepUnseen
<1>1. v \in values /\ v.org = request[p].org /\ (request[p].org # Shared => scope = "org") BY DEF Values!ForWrite
<1>2. PICK X \in SUBSET Entries : X = {w} OBVIOUS
<1> QED BY <1>1, <1>2, SaveStep

LEMMA CreateStep ==
  ASSUME SharedIsNobodys, LookupsIInv, NEW p \in Requests, NEW c \in Codes, NEW d \in Codes, Values!create_value(p, c, d)
  PROVE  LookupsIInv' /\ Values!OthersStepUnseen
<1>1. PICK r \in Session : r = request[p] BY DEF LookupsIInv, LookupsTypeInv
<1>2. values \subseteq Entries /\ request \in [Requests -> Session] /\ version \in Nat BY DEF LookupsIInv, LookupsTypeInv
<1>3. PICK n \in Nat : {v.id : v \in values} = 1..n BY DEF LookupsIInv, Enumerated
<1>4. Values!Cardinality(values) = n BY <1>3, EnumeratedCount DEF LookupsIInv, Enumerated
<1>5. PICK above : above = IF d = c THEN 0 ELSE CHOOSE i \in {v.id : v \in Values!ByCode(r.org, d)} : TRUE OBVIOUS
<1>6. PICK new : new = [Values!Value(n + 1, r.org, c, 0) EXCEPT !.parent = above] OBVIOUS
<1>7. /\ r.org # Shared => scope = "org"
      /\ d # c => Values!ByCode(r.org, d) # {}
      /\ values' = values \cup {new}
      /\ request' = [request EXCEPT ![p].at = "inserted", ![p].id = n + 1]
      /\ skewed' = skewed \cup {version} /\ author' = r.org
      /\ UNCHANGED <<scope, version, client, saves>>
  BY <1>1, <1>4, <1>5, <1>6 DEF Values!create_value
<1>8. above \in Nat
  <2>1. CASE d = c BY <1>5, <2>1
  <2>2. CASE d # c
    <3>1. {v.id : v \in Values!ByCode(r.org, d)} # {} BY <1>7, <2>2
    <3>2. above \in {v.id : v \in Values!ByCode(r.org, d)} BY <1>5, <2>2, <3>1
    <3>3. Values!ByCode(r.org, d) \subseteq values BY DEF Values!ByCode, Values!PreferOrg, Values!Visible
    <3> QED BY <1>2, <3>2, <3>3 DEF Entries
  <2> QED BY <2>1, <2>2
<1>9. new \in Entries /\ new.id = n + 1 /\ new.org = r.org
  <2>1. r.org \in LookupContexts BY DEF Session
  <2> QED BY <1>6, <1>8, <2>1 DEF Values!Value, Entries
<1>10. \A v \in values : v.id \in 1..n BY <1>3
<1>11. Enumerated(values')
  <2>1. {v.id : v \in values'} = 1..(n + 1)
    <3>1. {v.id : v \in values'} = (1..n) \cup {n + 1} BY <1>3, <1>7, <1>9
    <3>2. (1..n) \cup {n + 1} = 1..(n + 1) OBVIOUS
    <3> QED BY <3>1, <3>2
  <2>2. \A v, w \in values' : v.id = w.id => v = w
    <3>1. \A v, w \in values : v.id = w.id => v = w BY DEF LookupsIInv, Enumerated
    <3>2. \A v \in values : v.id # n + 1 BY <1>10
    <3> QED BY <1>7, <1>9, <3>1, <3>2
  <2> QED BY <2>1, <2>2 DEF Enumerated
<1>12. PICK s : s = [r EXCEPT !.at = "inserted", !.id = n + 1] OBVIOUS
<1>13. s \in Session /\ s.org = r.org /\ s.id = n + 1
  <2>1. n + 1 \in Nat OBVIOUS
  <2>2. r \in [at : {"idle", "begun", "inserted", "labelled"}, org : LookupContexts, version : Nat, id : Nat] BY DEF Session
  <2>3. s \in [at : {"idle", "begun", "inserted", "labelled"}, org : LookupContexts, version : Nat, id : Nat] BY <1>12, <2>1, <2>2
  <2>4. s.org = r.org /\ s.id = n + 1 BY <1>12, <2>2
  <2> QED BY <2>3, <2>4 DEF Session
<1>14. request' = [request EXCEPT ![p] = s] BY <1>1, <1>2, <1>7, <1>12
<1>15. LookupsTypeInv' BY <1>2, <1>7, <1>9, <1>13, <1>14 DEF LookupsIInv, LookupsTypeInv
<1>16. VersionsKnown' BY <1>7 DEF LookupsIInv, VersionsKnown
<1>17. Values!NotModifiedIsTrue' BY <1>7 DEF Values!NotModifiedIsTrue
<1>18. OwnInsert'
  <2> SUFFICES ASSUME NEW q \in Requests, request'[q].at \in {"inserted", "labelled"}
               PROVE  /\ request'[q].org # Shared => scope = "org"
                      /\ \A v \in values' : v.id = request'[q].id => v.org = request'[q].org
                      /\ \E v \in values' : v.id = request'[q].id
    BY <1>7 DEF OwnInsert
  <2>1. CASE q = p
    <3>1. request'[q] = s BY <1>2, <1>14, <2>1
    <3>2. \A v \in values : v.id # n + 1 BY <1>10
    <3> QED BY <1>7, <1>9, <1>13, <3>1, <3>2
  <2>2. CASE q # p
    <3>1. request'[q] = request[q] BY <1>2, <1>14, <2>2
    <3>2. /\ request[q].org # Shared => scope = "org"
          /\ \A v \in values : v.id = request[q].id => v.org = request[q].org
          /\ \E v \in values : v.id = request[q].id
      BY <2>2, <3>1 DEF LookupsIInv, OwnInsert
    <3>3. request[q].id # n + 1 BY <1>10, <3>2
    <3> QED BY <1>7, <1>9, <3>1, <3>2, <3>3
  <2> QED BY <2>1, <2>2
<1>19. Values!OthersStepUnseen
  <2>1. \A q : q # author' => {v \in values' : v.org = q} = {v \in values : v.org = q} BY <1>7, <1>9
  <2> QED BY <1>7, <2>1, OthersUnseen
<1> QED BY <1>11, <1>15, <1>16, <1>17, <1>18, <1>19 DEF LookupsIInv

LEMMA CreateEndsStep ==
  ASSUME SharedIsNobodys, LookupsIInv, NEW p \in Requests, Values!CreateEnds(p)
  PROVE  LookupsIInv' /\ Values!OthersStepUnseen
<1>1. PICK r : r = request[p] OBVIOUS
<1>2. /\ values \subseteq Entries /\ saves \in Nat /\ \A v, w \in values : v.id = w.id => v = w
  BY DEF LookupsIInv, LookupsTypeInv, Enumerated
<1>3. /\ r.org # Shared => scope = "org"
      /\ \A v \in values : v.id = r.id => v.org = r.org
  BY <1>1 DEF LookupsIInv, OwnInsert, Values!CreateEnds
<1>4. values' = {IF v.id = r.id THEN [v EXCEPT !.text = saves + 1] ELSE v : v \in values} BY <1>1 DEF Values!CreateEnds
<1>5. \A v \in values : LET w == IF v.id = r.id THEN [v EXCEPT !.text = saves + 1] ELSE v
                        IN  w \in Entries /\ w.id = v.id /\ w.org = v.org
  BY <1>2 DEF Entries
<1>6. values' \subseteq Entries BY <1>4, <1>5
<1>7. \A w \in values' : \E v \in values : w = (IF v.id = r.id THEN [v EXCEPT !.text = saves + 1] ELSE v) /\ v.id = w.id /\ v.org = w.org
  BY <1>4, <1>5
<1>8. \A v \in values : \E w \in values' : w.id = v.id BY <1>4, <1>5
<1>9. \A v, w \in values' : v.id = w.id => v = w BY <1>2, <1>7
<1>10. {v.id : v \in values'} = {v.id : v \in values} BY <1>7, <1>8
<1>11. Enumerated(values') BY <1>9, <1>10 DEF LookupsIInv, Enumerated
<1>12. ASSUME NEW q, q # r.org PROVE {v \in values' : v.org = q} = {v \in values : v.org = q}
  <2>1. ASSUME NEW w \in values', w.org = q PROVE w \in values BY <1>3, <1>7, <1>12, <2>1
  <2>2. ASSUME NEW v \in values, v.org = q PROVE v \in values'
    <3>1. v.id # r.id BY <1>3, <1>12, <2>2
    <3> QED BY <1>4, <3>1
  <2> QED BY <2>1, <2>2
<1>13. Rewrote(r.org, values') BY <1>6, <1>7, <1>8, <1>11, <1>12 DEF Rewrote
<1> QED BY <1>1, <1>3, <1>13, RewriteStep DEF Values!CreateEnds, Values!Touched

LEMMA LookupsInitIInv == Values!Init => LookupsIInv
<1> SUFFICES ASSUME Values!Init PROVE LookupsIInv OBVIOUS
<1>1. PICK c \in Codes, o \in Holders, legacy \in BOOLEAN, next \in {0, 2} :
          values = IF legacy THEN {[Values!Value(1, Shared, c, 1) EXCEPT !.next = next], Values!Value(2, o, c, 1)}
                             ELSE {Values!Value(1, Shared, c, 1)}
  BY DEF Values!Init
<1>2. PICK v \in Entries : v = Values!Value(1, Shared, c, 1) BY DEF Values!Value, Entries, LookupContexts
<1>3. PICK w \in Entries : w = Values!Value(2, o, c, 1) BY DEF Values!Value, Entries, LookupContexts
<1>4. PICK u \in Entries : u = [v EXCEPT !.next = next] /\ u.id = 1
  <2>1. next \in Nat BY <1>1
  <2>2. v.id = 1 BY <1>2 DEF Values!Value
  <2>3. v \in Entries BY <1>2
  <2>4. [v EXCEPT !.next = next] \in {y \in Entries : y.id = v.id /\ y.org = v.org} BY <2>1, <2>3, RowEdits
  <2>5. PICK x \in {y \in Entries : y.id = v.id /\ y.org = v.org} : x = [v EXCEPT !.next = next] BY <2>4
  <2> QED BY <2>2, <2>5
<1>5. v.id = 1 /\ w.id = 2 BY <1>2, <1>3 DEF Values!Value
<1>6. values = {u, w} \/ values = {v} BY <1>1, <1>2, <1>3, <1>4
<1>7. Enumerated(values)
  <2>1. CASE values = {u, w}
    <3>1. {x.id : x \in values} = {1, 2} BY <1>4, <1>5, <2>1
    <3>2. {1, 2} = 1..2 OBVIOUS
    <3> QED BY <1>4, <1>5, <2>1, <3>1, <3>2 DEF Enumerated
  <2>2. CASE values = {v}
    <3>1. {x.id : x \in values} = 1..1 BY <1>5, <2>2
    <3> QED BY <2>2, <3>1 DEF Enumerated
  <2> QED BY <1>6, <2>1, <2>2
<1>8. client \in [org : LookupContexts, version : {0}, shown : {{}}, reading : {0}] /\ version = 1
  BY DEF Values!Init, Values!Contexts, LookupContexts
<1>9. client \in [org : LookupContexts, version : Nat, shown : {client.shown}, reading : Nat] BY <1>8
<1>10. request \in [Requests -> Session] /\ \A p \in Requests : request[p].at = "idle"
  BY WaitingFits DEF Values!Init
<1>11. LookupsTypeInv BY <1>6, <1>8, <1>9, <1>10 DEF Values!Init, Values!Scopes, LookupsTypeInv
<1>12. VersionsKnown /\ Values!NotModifiedIsTrue BY <1>8 DEF VersionsKnown, Values!NotModifiedIsTrue
<1>13. OwnInsert BY <1>10 DEF OwnInsert
<1> QED BY <1>7, <1>11, <1>12, <1>13 DEF LookupsIInv

\* Rows and version as they were, the request no further than it was.
LEMMA QuietStep ==
  ASSUME LookupsIInv, NEW p \in Requests, NEW s \in Session, request' = [request EXCEPT ![p] = s],
         s.at \in {"inserted", "labelled"} => request[p].at \in {"inserted", "labelled"} /\ s.org = request[p].org /\ s.id = request[p].id,
         saves' \in Nat, UNCHANGED <<scope, version, values, client, skewed>>
  PROVE  LookupsIInv' /\ Values!OthersStepUnseen
<1>1. LookupsTypeInv' BY DEF LookupsIInv, LookupsTypeInv
<1>2. Enumerated(values)' /\ VersionsKnown' BY DEF LookupsIInv, Enumerated, VersionsKnown
<1>3. OwnInsert'
  <2>1. \A q \in Requests : request'[q] = IF q = p THEN s ELSE request[q] BY DEF LookupsIInv, LookupsTypeInv
  <2> QED BY <2>1 DEF LookupsIInv, OwnInsert
<1>4. Values!NotModifiedIsTrue' BY SameRowsSeen DEF LookupsIInv, Values!NotModifiedIsTrue
<1>5. Values!OthersStepUnseen BY DEF Values!OthersStepUnseen
<1> QED BY <1>1, <1>2, <1>3, <1>4, <1>5 DEF LookupsIInv

LEMMA MergeStep ==
  ASSUME SharedIsNobodys, LookupsIInv, NEW p \in Requests, NEW c \in Codes, NEW d \in Codes, Values!merge_values(p, c, d)
  PROVE  LookupsIInv' /\ Values!OthersStepUnseen
<1>1. PICK v \in Values!ForWrite(request[p].org, c), w \in Values!ForWrite(request[p].org, d), word \in Words :
          /\ c # d
          /\ Values!Save(p, {[v EXCEPT !.status = "deprecated", !.next = w.id], [w EXCEPT !.aliases = @ \cup {word}]})
  BY DEF Values!merge_values
<1>2. /\ v \in values /\ w \in values /\ v.code = c /\ w.code = d /\ v.org = request[p].org /\ w.org = request[p].org
      /\ request[p].org # Shared => scope = "org"
  BY DEF Values!ForWrite
<1>3. v \in Entries /\ w \in Entries /\ v.id # w.id /\ w.id \in Nat
  BY <1>1, <1>2 DEF LookupsIInv, LookupsTypeInv, Enumerated, Entries
<1>4. PICK a \in Entries : a = [v EXCEPT !.status = "deprecated", !.next = w.id] /\ a.id = v.id /\ a.org = v.org
  BY <1>3, RowEdits
<1>5. PICK b \in Entries : b = [w EXCEPT !.aliases = @ \cup {word}] /\ b.id = w.id /\ b.org = w.org
  BY <1>3, AliasEdits
<1>6. PICK X \in SUBSET Entries : X = {a, b} OBVIOUS
<1>7. Values!Save(p, X) BY <1>1, <1>4, <1>5, <1>6
<1>8. \A x \in X : x.org = request[p].org /\ \E y \in values : y.id = x.id /\ y.org = request[p].org BY <1>2, <1>4, <1>5, <1>6
<1>9. \A x, y \in X : x.id = y.id => x = y BY <1>3, <1>4, <1>5, <1>6
<1> QED BY <1>2, <1>7, <1>8, <1>9, SaveStep

LEMMA UpdatedRow ==
  ASSUME LookupsIInv, NEW p \in Requests, NEW c \in Codes,
         Values!update_value(p, c) \/ \E d \in Codes : Values!deprecate_value(p, c, d)
  PROVE  \E v \in Values!ForWrite(request[p].org, c), x \in Entries : x.id = v.id /\ x.org = v.org /\ Values!Save(p, {x})
<1>1. values \subseteq Entries /\ saves + 1 \in Nat BY DEF LookupsIInv, LookupsTypeInv
<1>2. PICK v \in Values!ForWrite(request[p].org, c) :
          \/ Values!Save(p, {[v EXCEPT !.text = saves + 1]})
          \/ Values!Save(p, {[v EXCEPT !.status = "deprecated"]})
          \/ \E d \in Codes : \E w \in Values!ByCode(request[p].org, d) :
                 Values!Save(p, {[v EXCEPT !.status = "deprecated", !.next = w.id]})
  BY DEF Values!update_value, Values!deprecate_value
<1>3. v \in Entries BY <1>1 DEF Values!ForWrite
<1>4. ASSUME NEW d, NEW w \in Values!ByCode(request[p].org, d) PROVE w.id \in Nat
  BY <1>1 DEF Values!ByCode, Values!PreferOrg, Values!Visible, Entries
<1>5. CASE Values!Save(p, {[v EXCEPT !.text = saves + 1]}) BY <1>1, <1>3, <1>5, RowEdits
<1>6. CASE Values!Save(p, {[v EXCEPT !.status = "deprecated"]}) BY <1>3, <1>6, RowEdits
<1>7. CASE \E d \in Codes : \E w \in Values!ByCode(request[p].org, d) :
             Values!Save(p, {[v EXCEPT !.status = "deprecated", !.next = w.id]})
  BY <1>3, <1>4, <1>7, RowEdits
<1> QED BY <1>2, <1>5, <1>6, <1>7

LEMMA AliasedRow ==
  ASSUME LookupsIInv, NEW p \in Requests, NEW c \in Codes, NEW word \in Words,
         Values!add_alias(p, c, word) \/ Values!remove_alias(p, c, word)
  PROVE  \E v \in Values!ForWrite(request[p].org, c), x \in Entries : x.id = v.id /\ x.org = v.org /\ Values!Save(p, {x})
<1>1. PICK v \in Values!ForWrite(request[p].org, c) :
          \/ Values!Save(p, {[v EXCEPT !.aliases = @ \cup {word}]})
          \/ Values!Save(p, {[v EXCEPT !.aliases = @ \ {word}]})
  BY DEF Values!add_alias, Values!remove_alias
<1>2. v \in Entries BY DEF Values!ForWrite, LookupsIInv, LookupsTypeInv
<1> QED BY <1>1, <1>2, AliasEdits

LEMMA ClientStep ==
  ASSUME LookupsIInv, Values!ListBegins \/ Values!ListEnds
  PROVE  LookupsIInv' /\ Values!OthersStepUnseen
<1>1. UNCHANGED <<scope, version, values, request, saves, skewed, author>> BY DEF Values!ListBegins, Values!ListEnds
<1>2. Values!OthersStepUnseen BY <1>1 DEF Values!OthersStepUnseen
<1>3. Enumerated(values)' /\ OwnInsert' BY <1>1 DEF LookupsIInv, Enumerated, OwnInsert
<1>4. PICK c \in [org : LookupContexts, version : Nat, shown : {client.shown}, reading : Nat] : c = client
  BY DEF LookupsIInv, LookupsTypeInv
<1>5. CASE Values!ListBegins
  <2>1. client' = [c EXCEPT !.reading = version] /\ client.version # version BY <1>4, <1>5 DEF Values!ListBegins
  <2>2. /\ client'.org = c.org /\ client'.version = c.version /\ client'.shown = c.shown /\ client'.reading = version
        /\ client' \in [org : LookupContexts, version : Nat, shown : {client'.shown}, reading : Nat]
    BY <2>1 DEF LookupsIInv, LookupsTypeInv
  <2>3. LookupsTypeInv' BY <1>1, <2>2 DEF LookupsIInv, LookupsTypeInv
  <2>4. VersionsKnown' BY <1>1, <1>4, <2>2 DEF LookupsIInv, LookupsTypeInv, VersionsKnown
  <2>5. Values!NotModifiedIsTrue' BY <1>1, <1>4, <2>1, <2>2 DEF Values!NotModifiedIsTrue
  <2> QED BY <1>2, <1>3, <2>3, <2>4, <2>5 DEF LookupsIInv
<1>6. CASE Values!ListEnds
  <2>1. client' = [c EXCEPT !.version = c.reading, !.shown = Values!list_values(values, c.org), !.reading = 0]
    BY <1>4, <1>6 DEF Values!ListEnds
  <2>2. /\ client'.org = c.org /\ client'.version = c.reading /\ client'.shown = Values!list_values(values, c.org)
        /\ client'.reading = 0
        /\ client' \in [org : LookupContexts, version : Nat, shown : {client'.shown}, reading : Nat]
    BY <2>1
  <2>3. LookupsTypeInv' BY <1>1, <2>2 DEF LookupsIInv, LookupsTypeInv
  <2>4. VersionsKnown' BY <1>1, <1>4, <2>2 DEF LookupsIInv, LookupsTypeInv, VersionsKnown
  <2>5. Values!list_values(values, client.org)' = Values!list_values(values, client'.org) BY <1>1 DEF
        Values!list_values, Values!Visible, Values!PreferOrg, Values!Serialized
  <2>6. Values!NotModifiedIsTrue' BY <1>4, <2>2, <2>5 DEF Values!NotModifiedIsTrue
  <2> QED BY <1>2, <1>3, <2>3, <2>4, <2>6 DEF LookupsIInv
<1> QED BY <1>5, <1>6

LEMMA LookupsStep ==
  ASSUME SharedIsNobodys, LookupsIInv, [Values!Next]_(Values!lookups)
  PROVE  LookupsIInv' /\ Values!OthersStepUnseen
<1>1. ASSUME NEW p \in Requests, NEW o \in Values!Contexts, Values!Begin(p, o) PROVE LookupsIInv' /\ Values!OthersStepUnseen
  <2>1. PICK s : s = [at |-> "begun", org |-> o, version |-> version, id |-> 0] OBVIOUS
  <2>2. s \in Session /\ s.at = "begun" BY <2>1 DEF Session, Values!Contexts, LookupContexts, LookupsIInv, LookupsTypeInv
  <2>3. saves' \in Nat BY <1>1 DEF Values!Begin, LookupsIInv, LookupsTypeInv
  <2> QED BY <1>1, <2>1, <2>2, <2>3, QuietStep DEF Values!Begin
<1>2. ASSUME NEW p \in Requests, Values!CreateTouches(p) PROVE LookupsIInv' /\ Values!OthersStepUnseen
  <2>1. PICK r \in Session : r = request[p] BY DEF LookupsIInv, LookupsTypeInv
  <2>2. PICK s : s = [r EXCEPT !.at = "labelled", !.version = version] OBVIOUS
  <2>3. s \in Session /\ s.org = r.org /\ s.id = r.id BY <2>2 DEF Session, LookupsIInv, LookupsTypeInv
  <2>4. request' = [request EXCEPT ![p] = s] BY <1>2, <2>1, <2>2 DEF Values!CreateTouches, LookupsIInv, LookupsTypeInv
  <2>5. saves' \in Nat BY <1>2 DEF Values!CreateTouches, LookupsIInv, LookupsTypeInv
  <2> QED BY <1>2, <2>1, <2>3, <2>4, <2>5, QuietStep DEF Values!CreateTouches
<1>3. ASSUME NEW p \in Requests, Values!Ends(p) PROVE LookupsIInv' /\ Values!OthersStepUnseen
  <2>1. saves' \in Nat BY <1>3 DEF Values!Ends, LookupsIInv, LookupsTypeInv
  <2> QED BY <1>3, <2>1, WaitingFits, QuietStep DEF Values!Ends
<1>4. ASSUME NEW p \in Requests, NEW c \in Codes, Values!get_or_create_value(p, c)
      PROVE  LookupsIInv' /\ Values!OthersStepUnseen
  BY <1>4, CreateStep DEF Values!get_or_create_value
<1>5. CASE UNCHANGED Values!lookups
  <2>1. Values!OthersStepUnseen BY <1>5 DEF Values!lookups, Values!OthersStepUnseen
  <2>2. Values!NotModifiedIsTrue' BY <1>5, SameRowsSeen DEF Values!lookups, LookupsIInv, Values!NotModifiedIsTrue
  <2> QED BY <1>5, <2>1, <2>2 DEF Values!lookups, LookupsIInv, LookupsTypeInv, Enumerated, VersionsKnown, OwnInsert
<1>6. CASE Values!Next
  <2>1. CASE Values!ListBegins \/ Values!ListEnds BY <2>1, ClientStep
  <2>2. ASSUME NEW p \in Requests, NEW c \in Codes,
               Values!update_value(p, c) \/ \E d \in Codes : Values!deprecate_value(p, c, d)
        PROVE  LookupsIInv' /\ Values!OthersStepUnseen
    <3>1. PICK v \in Values!ForWrite(request[p].org, c), x \in Entries : x.id = v.id /\ x.org = v.org /\ Values!Save(p, {x})
      BY <2>2, UpdatedRow
    <3> QED BY <3>1, SaveOne
  <2>3. ASSUME NEW p \in Requests, NEW c \in Codes, NEW word \in Words,
               Values!add_alias(p, c, word) \/ Values!remove_alias(p, c, word)
        PROVE  LookupsIInv' /\ Values!OthersStepUnseen
    <3>1. PICK v \in Values!ForWrite(request[p].org, c), x \in Entries : x.id = v.id /\ x.org = v.org /\ Values!Save(p, {x})
      BY <2>3, AliasedRow
    <3> QED BY <3>1, SaveOne
  <2>4. CASE \E p \in Requests :
               \/ \E o \in Values!Contexts : Values!Begin(p, o)
               \/ Values!CreateTouches(p) \/ Values!CreateEnds(p) \/ Values!Ends(p)
    BY <1>1, <1>2, <1>3, <2>4, CreateEndsStep
  <2>5. CASE \E p \in Requests, c \in Codes :
               \/ Values!update_value(p, c) \/ Values!get_or_create_value(p, c)
               \/ \E d \in Codes : Values!deprecate_value(p, c, d) \/ Values!merge_values(p, c, d) \/ Values!create_value(p, c, d)
               \/ \E w \in Words : Values!add_alias(p, c, w) \/ Values!remove_alias(p, c, w)
    BY <1>4, <2>2, <2>3, <2>5, MergeStep, CreateStep
  <2> QED BY <1>6, <2>1, <2>4, <2>5 DEF Values!Next
<1> QED BY <1>5, <1>6

-----------------------------------------------------------------------------
(* Grants (Permissions): what the engine answers depends on the rows of the  *)
(* user's org and on the principals held, and never falls as these grow.    *)

\* The principals named for a field, and for a verb, for users of an org.
FieldNamed(rows, org, f, action) == Grants!Listed({r \in rows.field : r.field = f /\ r.action = action}, org)
VerbNamed(rows, org, v) == Grants!Listed({r \in rows.action : r.permission = v}, org)

\* What they open, by the principals held.
FieldOpen(rows, org, holds, f, action) ==
    FieldNamed(rows, org, f, action) = {} \/ Admin \in holds \/ FieldNamed(rows, org, f, action) \cap holds # {}
VerbOpen(rows, org, holds, v) == Admin \in holds \/ VerbNamed(rows, org, v) \cap holds # {}

EditsOf(rows, org, holds) == {f \in Fields : FieldOpen(rows, org, holds, f, "edit")}
Hidden(rows, org, holds) == {f \in Grants!view_restricted_fields(rows) : ~ FieldOpen(rows, org, holds, f, "view")}
ViewsOf(rows, org, holds) ==
    Fields \ (Hidden(rows, org, holds) \cup UNION {Companions[f] : f \in Hidden(rows, org, holds)})
VerbsOf(rows, org, bare) == {v \in Verbs : v \notin RecordVerbs /\ VerbOpen(rows, org, bare, v)}
RightsOf(rows, org, holds) == {v \in Verbs : VerbOpen(rows, org, holds, v)}
PrivateOf(rows, org, holds, bare) ==
    IF Admin \in holds \/ Viewers \cap holds # {} \/ VerbOpen(rows, org, bare, ViewPrivate) THEN {"record"} ELSE {}

\* The answers, from the principals held on the record and those held without one.
AnswersOf(rows, org, holds, bare) ==
    [edits |-> EditsOf(rows, org, holds), views |-> ViewsOf(rows, org, holds), verbs |-> VerbsOf(rows, org, bare),
     rights |-> RightsOf(rows, org, holds), private |-> PrivateOf(rows, org, holds, bare)]

LEMMA AnswersAre ==
  ASSUME NEW rows, NEW u, NEW raising
  PROVE  Grants!Answers(rows, u, raising) =
           AnswersOf(rows, HomeOf[u], Grants!held_principals(u, TRUE, raising), Grants!held_principals(u, FALSE, raising))
<1> DEFINE holds == Grants!held_principals(u, TRUE, raising)
           bare == Grants!held_principals(u, FALSE, raising)
<1>1. \A f, a : Grants!FieldAllowed(rows, u, f, a, raising) <=> FieldOpen(rows, HomeOf[u], holds, f, a)
  BY DEF Grants!FieldAllowed, FieldOpen, FieldNamed
<1>2. \A v : /\ Grants!ActionAllowed(rows, u, v, TRUE, raising) <=> VerbOpen(rows, HomeOf[u], holds, v)
             /\ Grants!ActionAllowed(rows, u, v, FALSE, raising) <=> VerbOpen(rows, HomeOf[u], bare, v)
  BY DEF Grants!ActionAllowed, VerbOpen, VerbNamed
<1> HIDE DEF holds, bare
<1>3. Fields \ Grants!forbidden_edits(rows, u, Fields, raising) = EditsOf(rows, HomeOf[u], holds)
  BY <1>1 DEF Grants!forbidden_edits, EditsOf
<1>4. Grants!redact_view(rows, u, Fields, raising) = ViewsOf(rows, HomeOf[u], holds)
  BY <1>1 DEF Grants!redact_view, ViewsOf, Hidden
<1>5. {v \in Verbs : Grants!ActionAsked(rows, u, v, raising) = "yes"} = VerbsOf(rows, HomeOf[u], bare)
  BY <1>2 DEF Grants!ActionAsked, VerbsOf
<1>6. {v \in Verbs : Grants!ActionAllowed(rows, u, v, TRUE, raising)} = RightsOf(rows, HomeOf[u], holds)
  BY <1>2 DEF RightsOf
<1>7. (IF Grants!CanViewPrivate(rows, u, raising) THEN {"record"} ELSE {}) = PrivateOf(rows, HomeOf[u], holds, bare)
  BY <1>2 DEF Grants!CanViewPrivate, PrivateOf, holds
<1> QED BY <1>3, <1>4, <1>5, <1>6, <1>7 DEF Grants!Answers, AnswersOf, holds, bare

LEMMA NoMoreAnswers ==
  ASSUME NEW rows, NEW org, NEW h1, NEW h2, NEW b1, NEW b2, h1 \subseteq h2, b1 \subseteq b2
  PROVE  Grants!NoMore(AnswersOf(rows, org, h1, b1), AnswersOf(rows, org, h2, b2))
<1>1. \A f, a : FieldOpen(rows, org, h1, f, a) => FieldOpen(rows, org, h2, f, a) BY DEF FieldOpen
<1>2. \A v : (VerbOpen(rows, org, h1, v) => VerbOpen(rows, org, h2, v)) /\ (VerbOpen(rows, org, b1, v) => VerbOpen(rows, org, b2, v))
  BY DEF VerbOpen
<1>3. EditsOf(rows, org, h1) \subseteq EditsOf(rows, org, h2) BY <1>1 DEF EditsOf
<1>4. ViewsOf(rows, org, h1) \subseteq ViewsOf(rows, org, h2)
  <2>1. Hidden(rows, org, h2) \subseteq Hidden(rows, org, h1) BY <1>1 DEF Hidden
  <2> QED BY <2>1 DEF ViewsOf
<1>5. VerbsOf(rows, org, b1) \subseteq VerbsOf(rows, org, b2) BY <1>2 DEF VerbsOf
<1>6. RightsOf(rows, org, h1) \subseteq RightsOf(rows, org, h2) BY <1>2 DEF RightsOf
<1>7. PrivateOf(rows, org, h1, b1) \subseteq PrivateOf(rows, org, h2, b2) BY <1>2 DEF PrivateOf
<1> QED BY <1>3, <1>4, <1>5, <1>6, <1>7 DEF Grants!NoMore, AnswersOf

\* Rows of another org do not count.
SameFor(r1, r2, org) ==
    \A r : r.org \in {Everywhere, org} => (r \in r1 <=> r \in r2)

LEMMA SameAnswers ==
  ASSUME NEW r1, NEW r2, NEW org, NEW holds, NEW bare, SameFor(r1.field, r2.field, org), SameFor(r1.action, r2.action, org)

  PROVE  AnswersOf(r1, org, holds, bare) = AnswersOf(r2, org, holds, bare)
<1>1. \A f, a : FieldNamed(r1, org, f, a) = FieldNamed(r2, org, f, a)
  BY DEF SameFor, FieldNamed, Grants!Listed, Grants!RowsFor
<1>2. \A v : VerbNamed(r1, org, v) = VerbNamed(r2, org, v)
  BY DEF SameFor, VerbNamed, Grants!Listed, Grants!RowsFor
<1>3. \A f, a : FieldOpen(r1, org, holds, f, a) <=> FieldOpen(r2, org, holds, f, a) BY <1>1 DEF FieldOpen
<1>4. \A v : (VerbOpen(r1, org, holds, v) <=> VerbOpen(r2, org, holds, v)) /\ (VerbOpen(r1, org, bare, v) <=> VerbOpen(r2, org, bare, v))
  BY <1>2 DEF VerbOpen
<1>5. Hidden(r1, org, holds) = Hidden(r2, org, holds)
  <2> SUFFICES ASSUME NEW f, ~ FieldOpen(r1, org, holds, f, "view"), ~ FieldOpen(r2, org, holds, f, "view")
               PROVE  f \in Grants!view_restricted_fields(r1) /\ f \in Grants!view_restricted_fields(r2)
    BY <1>3 DEF Hidden
  <2>1. ASSUME NEW rows, ~ FieldOpen(rows, org, holds, f, "view") PROVE f \in Grants!view_restricted_fields(rows)
    BY <2>1 DEF FieldOpen, FieldNamed, Grants!Listed, Grants!RowsFor, Grants!view_restricted_fields
  <2> QED BY <2>1
<1>6. EditsOf(r1, org, holds) = EditsOf(r2, org, holds) BY <1>3 DEF EditsOf
<1>7. ViewsOf(r1, org, holds) = ViewsOf(r2, org, holds) BY <1>5 DEF ViewsOf
<1>8. VerbsOf(r1, org, bare) = VerbsOf(r2, org, bare) BY <1>4 DEF VerbsOf
<1>9. RightsOf(r1, org, holds) = RightsOf(r2, org, holds) BY <1>4 DEF RightsOf
<1>10. PrivateOf(r1, org, holds, bare) = PrivateOf(r2, org, holds, bare) BY <1>4 DEF PrivateOf
<1> QED BY <1>6, <1>7, <1>8, <1>9, <1>10 DEF AnswersOf

-----------------------------------------------------------------------------
\* No group goes by a reserved principal, and the cache is the table, or somebody owes its
\* invalidation, or it was filled across one.
GrantsIInv ==
    /\ \A g \in groups : g \in [org : Orgs, key : GroupKeys \ Reserved, members : SUBSET People]
    /\ policyCache.filled /\ policyCache.rows # Grants!Rows => owes \/ crossed

LEMMA GrantsInitIInv == Grants!Init => GrantsIInv
BY DEF Grants!Init, GrantsIInv, Grants!NoCache

LEMMA GrantsStepIInv == GrantsIInv /\ [Grants!Next]_(Grants!permissions) => GrantsIInv'
<1> SUFFICES ASSUME GrantsIInv, [Grants!Next]_(Grants!permissions) PROVE GrantsIInv' OBVIOUS
<1>1. ASSUME UNCHANGED groups, (policyCache.filled /\ policyCache.rows # Grants!Rows => owes \/ crossed)' PROVE GrantsIInv'
  BY <1>1 DEF GrantsIInv
<1>2. ASSUME UNCHANGED <<fieldRows, actionRows, policyCache, owes, crossed>>,
             \A g \in groups' : g \in [org : Orgs, key : GroupKeys \ Reserved, members : SUBSET People]
      PROVE  GrantsIInv'
  BY <1>2 DEF GrantsIInv, Grants!Rows
<1>3. ASSUME NEW f, NEW a, NEW p, NEW o, Grants!EditField(f, a, p, o) PROVE GrantsIInv'
  BY <1>1, <1>3 DEF Grants!EditField
<1>4. ASSUME NEW v, NEW p, NEW o, Grants!EditAction(v, p, o) PROVE GrantsIInv'
  BY <1>1, <1>4 DEF Grants!EditAction
<1>5. ASSUME NEW f, NEW a, NEW p, Grants!Seed(f, a, p) PROVE GrantsIInv'
  BY <1>3, <1>5 DEF Grants!Seed
<1>6. CASE Grants!Invalidate BY <1>1, <1>6 DEF Grants!Invalidate, Grants!NoCache
<1>7. CASE Grants!Query BY <1>1, <1>7 DEF Grants!Query, GrantsIInv, Grants!Rows
<1>8. CASE Grants!Fill BY <1>1, <1>8 DEF Grants!Fill, GrantsIInv, Grants!Rows
<1>9. ASSUME NEW o \in Orgs, NEW k \in GroupKeys, Grants!AddGroup(o, k) PROVE GrantsIInv'
  <2>1. [org |-> o, key |-> k, members |-> {}] \in [org : Orgs, key : GroupKeys \ Reserved, members : SUBSET People]
    BY <1>9 DEF Grants!AddGroup, Grants!ValidKey
  <2> QED BY <1>2, <1>9, <2>1 DEF Grants!AddGroup, GrantsIInv
<1>10. ASSUME NEW g \in groups, NEW u \in People, Grants!Join(g, u) \/ Grants!Leave(g, u) PROVE GrantsIInv'
  <2>1. PICK M \in SUBSET People : groups' = (groups \ {g}) \cup {[g EXCEPT !.members = M]}
    <3>1. g.members \subseteq People BY DEF GrantsIInv
    <3>2. CASE Grants!Join(g, u) BY <3>1, <3>2 DEF Grants!Join
    <3>3. CASE Grants!Leave(g, u) BY <3>1, <3>3 DEF Grants!Leave
    <3> QED BY <1>10, <3>2, <3>3
  <2>2. PICK G \in [org : Orgs, key : GroupKeys \ Reserved, members : SUBSET People] : G = g BY DEF GrantsIInv
  <2>3. [G EXCEPT !.members = M] \in [org : Orgs, key : GroupKeys \ Reserved, members : SUBSET People] OBVIOUS
  <2> QED BY <1>2, <1>10, <2>1, <2>2, <2>3 DEF GrantsIInv, Grants!Join, Grants!Leave
<1>11. CASE UNCHANGED Grants!permissions BY <1>11 DEF Grants!permissions, GrantsIInv, Grants!Rows
<1> QED BY <1>3, <1>4, <1>5, <1>6, <1>7, <1>8, <1>9, <1>10, <1>11 DEF Grants!Next

LEMMA GrantsIInvImplies == GrantsIInv => Grants!RightsAreEarned
<1> SUFFICES ASSUME GrantsIInv PROVE Grants!RightsAreEarned OBVIOUS
<1>1. policyCache.filled /\ policyCache.rows # Grants!Rows => owes \/ crossed BY DEF GrantsIInv
<1>2. ASSUME NEW u \in People
      PROVE  Grants!held_principals(u, TRUE, {}) \cap Reserved \subseteq {RoleOf[u]} \cup (IF u \in Related THEN {Lead} ELSE {})
  <2>1. Grants!GroupKeysOf(u) \cap Reserved = {} BY DEF Grants!GroupKeysOf, GrantsIInv
  <2> QED BY <2>1 DEF Grants!held_principals
<1>3. ASSUME NEW u \in People, NEW raising \in SUBSET {"groups", "resolver"}
      PROVE  Grants!NoMore(Grants!Answers(Grants!Rows, u, raising), Grants!Answers(Grants!Rows, u, {}))
  <2>1. /\ Grants!held_principals(u, TRUE, raising) \subseteq Grants!held_principals(u, TRUE, {})
        /\ Grants!held_principals(u, FALSE, raising) \subseteq Grants!held_principals(u, FALSE, {})
    BY DEF Grants!held_principals
  <2> QED BY <2>1, AnswersAre, NoMoreAnswers
<1>4. ASSUME NEW u \in People, RoleOf[u] = Admin
      PROVE  Grants!Answers(Grants!Rows, u, {}) =
               [edits |-> Fields, views |-> Fields, verbs |-> Verbs \ RecordVerbs, rights |-> Verbs, private |-> {"record"}]
  <2> DEFINE holds == Grants!held_principals(u, TRUE, {})
             bare == Grants!held_principals(u, FALSE, {})
             rows == Grants!Rows
  <2>1. Admin \in holds /\ Admin \in bare BY <1>4 DEF Grants!held_principals
  <2>2. Grants!Answers(rows, u, {}) = AnswersOf(rows, HomeOf[u], holds, bare) BY AnswersAre
  <2> HIDE DEF holds, bare, rows
  <2>3. \A f, a : FieldOpen(rows, HomeOf[u], holds, f, a) BY <2>1 DEF FieldOpen
  <2>4. \A v : VerbOpen(rows, HomeOf[u], holds, v) /\ VerbOpen(rows, HomeOf[u], bare, v) BY <2>1 DEF VerbOpen
  <2>5. EditsOf(rows, HomeOf[u], holds) = Fields BY <2>3 DEF EditsOf
  <2>6. ViewsOf(rows, HomeOf[u], holds) = Fields
    <3>1. Hidden(rows, HomeOf[u], holds) = {} BY <2>3 DEF Hidden
    <3> QED BY <3>1 DEF ViewsOf
  <2>7. VerbsOf(rows, HomeOf[u], bare) = Verbs \ RecordVerbs BY <2>4 DEF VerbsOf
  <2>8. RightsOf(rows, HomeOf[u], holds) = Verbs BY <2>4 DEF RightsOf
  <2>9. PrivateOf(rows, HomeOf[u], holds, bare) = {"record"} BY <2>1 DEF PrivateOf
  <2> QED BY <2>2, <2>5, <2>6, <2>7, <2>8, <2>9 DEF AnswersOf, rows
<1> QED BY <1>1, <1>2, <1>3, <1>4 DEF Grants!RightsAreEarned

\* What it says of a state, to be used of the next one.
AnswersSplit ==
    \A u, raising : Grants!Answers(Grants!Rows, u, raising) =
        AnswersOf(Grants!Rows, HomeOf[u], Grants!held_principals(u, TRUE, raising), Grants!held_principals(u, FALSE, raising))

LEMMA AnswersAlwaysSplit == []AnswersSplit
<1>1. AnswersSplit BY AnswersAre DEF AnswersSplit
<1> QED BY <1>1, PTL

\* A step of another org's, a leave and a join, by the rows and principals of one user.
LEMMA AnswersMove ==
  ASSUME NEW u
  PROVE  /\ (\A x : Grants!held_principals(u, x, {})' = Grants!held_principals(u, x, {}))
              /\ SameFor(fieldRows, fieldRows', HomeOf[u]) /\ SameFor(actionRows, actionRows', HomeOf[u])
            => Grants!Answers(Grants!Rows, u, {})' = Grants!Answers(Grants!Rows, u, {})
         /\ (\A x \in BOOLEAN : Grants!held_principals(u, x, {})' \subseteq Grants!held_principals(u, x, {}))
              /\ UNCHANGED <<fieldRows, actionRows>>
            => Grants!NoMore(Grants!Answers(Grants!Rows, u, {})', Grants!Answers(Grants!Rows, u, {}))
         /\ (\A x \in BOOLEAN : Grants!held_principals(u, x, {}) \subseteq Grants!held_principals(u, x, {})')
              /\ UNCHANGED <<fieldRows, actionRows>>
            => Grants!NoMore(Grants!Answers(Grants!Rows, u, {}), Grants!Answers(Grants!Rows, u, {})')
<1>1. PICK h, b : h = Grants!held_principals(u, TRUE, {}) /\ b = Grants!held_principals(u, FALSE, {}) OBVIOUS
<1>2. PICK i, c : i = Grants!held_principals(u, TRUE, {})' /\ c = Grants!held_principals(u, FALSE, {})' OBVIOUS
<1>3. PICK r : r = Grants!Rows OBVIOUS
<1>4. PICK q : q = Grants!Rows' OBVIOUS
<1>5. Grants!Answers(Grants!Rows, u, {}) = AnswersOf(r, HomeOf[u], h, b) BY <1>1, <1>3, AnswersAre
<1>6. Grants!Answers(Grants!Rows, u, {})' = AnswersOf(q, HomeOf[u], i, c)
  <2>1. AnswersSplit' BY AnswersAlwaysSplit, PTL
  <2>2. Grants!Answers(Grants!Rows, u, {})' =
          AnswersOf(Grants!Rows', HomeOf[u], Grants!held_principals(u, TRUE, {})', Grants!held_principals(u, FALSE, {})')
    BY <2>1 DEF AnswersSplit
  <2> QED BY <2>2, <1>2, <1>4
<1>7. r.field = fieldRows /\ r.action = actionRows /\ q.field = fieldRows' /\ q.action = actionRows'
  BY <1>3, <1>4 DEF Grants!Rows
<1>8. ASSUME \A x : Grants!held_principals(u, x, {})' = Grants!held_principals(u, x, {}),
             SameFor(fieldRows, fieldRows', HomeOf[u]), SameFor(actionRows, actionRows', HomeOf[u])
      PROVE  Grants!Answers(Grants!Rows, u, {})' = Grants!Answers(Grants!Rows, u, {})
  <2>1. i = h /\ c = b BY <1>1, <1>2, <1>8
  <2>2. AnswersOf(r, HomeOf[u], h, b) = AnswersOf(q, HomeOf[u], h, b) BY <1>7, <1>8, SameAnswers
  <2> QED BY <1>5, <1>6, <2>1, <2>2
<1>9. UNCHANGED <<fieldRows, actionRows>> => r = q BY <1>3, <1>4 DEF Grants!Rows
<1>10. ASSUME \A x \in BOOLEAN : Grants!held_principals(u, x, {})' \subseteq Grants!held_principals(u, x, {}),
              UNCHANGED <<fieldRows, actionRows>>
       PROVE  Grants!NoMore(Grants!Answers(Grants!Rows, u, {})', Grants!Answers(Grants!Rows, u, {}))
  <2>1. i \subseteq h /\ c \subseteq b BY <1>1, <1>2, <1>10
  <2>2. Grants!NoMore(AnswersOf(r, HomeOf[u], i, c), AnswersOf(r, HomeOf[u], h, b)) BY <2>1, NoMoreAnswers
  <2> QED BY <1>5, <1>6, <1>9, <1>10, <2>2
<1>11. ASSUME \A x \in BOOLEAN : Grants!held_principals(u, x, {}) \subseteq Grants!held_principals(u, x, {})',
              UNCHANGED <<fieldRows, actionRows>>
       PROVE  Grants!NoMore(Grants!Answers(Grants!Rows, u, {}), Grants!Answers(Grants!Rows, u, {})')
  <2>1. h \subseteq i /\ b \subseteq c BY <1>1, <1>2, <1>11
  <2>2. Grants!NoMore(AnswersOf(r, HomeOf[u], h, b), AnswersOf(r, HomeOf[u], i, c)) BY <2>1, NoMoreAnswers
  <2> QED BY <1>5, <1>6, <1>9, <1>11, <2>2
<1> QED BY <1>8, <1>10, <1>11

\* The principals of a user follow the groups.
LEMMA HeldFollow ==
  ASSUME NEW u
  PROVE  /\ Grants!GroupKeysOf(u)' = Grants!GroupKeysOf(u)
              => \A x : Grants!held_principals(u, x, {})' = Grants!held_principals(u, x, {})
         /\ Grants!GroupKeysOf(u)' \subseteq Grants!GroupKeysOf(u)
              => \A x \in BOOLEAN : Grants!held_principals(u, x, {})' \subseteq Grants!held_principals(u, x, {})
         /\ Grants!GroupKeysOf(u) \subseteq Grants!GroupKeysOf(u)'
              => \A x \in BOOLEAN : Grants!held_principals(u, x, {}) \subseteq Grants!held_principals(u, x, {})'
BY DEF Grants!held_principals

\* One step.
LEMMA GrantsStepStays ==
  ASSUME GrantNames, GrantsIInv, [Grants!Next]_(Grants!permissions) PROVE Grants!EditStaysInItsOrg
<1> SUFFICES ASSUME NEW u \in People
             PROVE  /\ changed' \in Orgs \ {HomeOf[u]} => Grants!Answers(Grants!Rows, u, {})' = Grants!Answers(Grants!Rows, u, {})
                    /\ changed' = "leave" => Grants!NoMore(Grants!Answers(Grants!Rows, u, {})', Grants!Answers(Grants!Rows, u, {}))
                    /\ changed' = "join" => Grants!NoMore(Grants!Answers(Grants!Rows, u, {}), Grants!Answers(Grants!Rows, u, {})')
  BY DEF Grants!EditStaysInItsOrg
<1>1. ASSUME UNCHANGED <<fieldRows, actionRows, groups>>
      PROVE  /\ Grants!Answers(Grants!Rows, u, {})' = Grants!Answers(Grants!Rows, u, {})
             /\ Grants!NoMore(Grants!Answers(Grants!Rows, u, {}), Grants!Answers(Grants!Rows, u, {})')
             /\ Grants!NoMore(Grants!Answers(Grants!Rows, u, {})', Grants!Answers(Grants!Rows, u, {}))
  <2>1. Grants!GroupKeysOf(u)' = Grants!GroupKeysOf(u) BY <1>1 DEF Grants!GroupKeysOf
  <2>2. SameFor(fieldRows, fieldRows', HomeOf[u]) /\ SameFor(actionRows, actionRows', HomeOf[u]) BY <1>1 DEF SameFor
  <2>3. UNCHANGED <<fieldRows, actionRows>> BY <1>1
  <2>4. Grants!Answers(Grants!Rows, u, {})' = Grants!Answers(Grants!Rows, u, {}) BY <2>1, <2>2, HeldFollow, AnswersMove
  <2>5. \A x : Grants!held_principals(u, x, {})' = Grants!held_principals(u, x, {}) BY <2>1, HeldFollow
  <2>6. Grants!NoMore(Grants!Answers(Grants!Rows, u, {}), Grants!Answers(Grants!Rows, u, {})') BY <2>3, <2>5, AnswersMove
  <2>7. Grants!NoMore(Grants!Answers(Grants!Rows, u, {})', Grants!Answers(Grants!Rows, u, {})) BY <2>3, <2>5, AnswersMove
  <2> QED BY <2>4, <2>6, <2>7
<1>2. ASSUME NEW f, NEW a, NEW p, NEW o, o \in Orgs \cup {Everywhere}, Grants!EditField(f, a, p, o)
      PROVE  changed' = o /\ (o \in Orgs \ {HomeOf[u]} => Grants!Answers(Grants!Rows, u, {})' = Grants!Answers(Grants!Rows, u, {}))
  <2>1. changed' = o /\ UNCHANGED <<actionRows, groups>> BY <1>2 DEF Grants!EditField, Grants!Change
  <2>2. PICK row : row = [field |-> f, action |-> a, principal |-> p, org |-> o] OBVIOUS
  <2>3. fieldRows' = fieldRows \ {row} \/ fieldRows' = fieldRows \cup {row} BY <1>2, <2>2 DEF Grants!EditField
  <2>4. ASSUME o \in Orgs \ {HomeOf[u]} PROVE Grants!Answers(Grants!Rows, u, {})' = Grants!Answers(Grants!Rows, u, {})
    <3>1. row.org \notin {Everywhere, HomeOf[u]} BY <2>2, <2>4 DEF GrantNames
    <3>2. SameFor(fieldRows, fieldRows', HomeOf[u]) BY <2>3, <3>1 DEF SameFor
    <3>3. SameFor(actionRows, actionRows', HomeOf[u]) BY <2>1 DEF SameFor
    <3>4. Grants!GroupKeysOf(u)' = Grants!GroupKeysOf(u) BY <2>1 DEF Grants!GroupKeysOf
    <3> QED BY <3>2, <3>3, <3>4, HeldFollow, AnswersMove
  <2> QED BY <2>1, <2>4
<1>3. ASSUME NEW v, NEW p, NEW o, o \in Orgs \cup {Everywhere}, Grants!EditAction(v, p, o)
      PROVE  changed' = o /\ (o \in Orgs \ {HomeOf[u]} => Grants!Answers(Grants!Rows, u, {})' = Grants!Answers(Grants!Rows, u, {}))
  <2>1. changed' = o /\ UNCHANGED <<fieldRows, groups>> BY <1>3 DEF Grants!EditAction, Grants!Change
  <2>2. PICK row : row = [permission |-> v, principal |-> p, org |-> o] OBVIOUS
  <2>3. actionRows' = actionRows \ {row} \/ actionRows' = actionRows \cup {row} BY <1>3, <2>2 DEF Grants!EditAction
  <2>4. ASSUME o \in Orgs \ {HomeOf[u]} PROVE Grants!Answers(Grants!Rows, u, {})' = Grants!Answers(Grants!Rows, u, {})
    <3>1. row.org \notin {Everywhere, HomeOf[u]} BY <2>2, <2>4 DEF GrantNames
    <3>2. SameFor(actionRows, actionRows', HomeOf[u]) BY <2>3, <3>1 DEF SameFor
    <3>3. SameFor(fieldRows, fieldRows', HomeOf[u]) BY <2>1 DEF SameFor
    <3>4. Grants!GroupKeysOf(u)' = Grants!GroupKeysOf(u) BY <2>1 DEF Grants!GroupKeysOf
    <3> QED BY <3>2, <3>3, <3>4, HeldFollow, AnswersMove
  <2> QED BY <2>1, <2>4
<1>4. ASSUME NEW o \in Orgs, NEW k \in GroupKeys, Grants!AddGroup(o, k)
      PROVE  changed' = o /\ Grants!Answers(Grants!Rows, u, {})' = Grants!Answers(Grants!Rows, u, {})
  <2>1. changed' = o /\ UNCHANGED <<fieldRows, actionRows>> /\ groups' = groups \cup {[org |-> o, key |-> k, members |-> {}]}
    BY <1>4 DEF Grants!AddGroup, Grants!Change
  <2>2. Grants!GroupKeysOf(u)' = Grants!GroupKeysOf(u) BY <2>1 DEF Grants!GroupKeysOf
  <2>3. SameFor(fieldRows, fieldRows', HomeOf[u]) /\ SameFor(actionRows, actionRows', HomeOf[u]) BY <2>1 DEF SameFor
  <2> QED BY <2>1, <2>2, <2>3, HeldFollow, AnswersMove
<1>5. ASSUME NEW g \in groups, NEW w \in People, Grants!Join(g, w)
      PROVE  changed' = "join" /\ Grants!NoMore(Grants!Answers(Grants!Rows, u, {}), Grants!Answers(Grants!Rows, u, {})')
  <2>1. /\ changed' = "join" /\ UNCHANGED <<fieldRows, actionRows>>
        /\ groups' = (groups \ {g}) \cup {[g EXCEPT !.members = @ \cup {w}]}
    BY <1>5 DEF Grants!Join, Grants!Change
  <2>2. PICK G \in [org : Orgs, key : GroupKeys \ Reserved, members : SUBSET People] : G = g BY DEF GrantsIInv
  <2>3. PICK after : after = [G EXCEPT !.members = @ \cup {w}] OBVIOUS
  <2>4. after.org = G.org /\ after.key = G.key /\ after.members = G.members \cup {w} BY <2>3
  <2>5. groups' = (groups \ {G}) \cup {after} BY <2>1, <2>2, <2>3
  <2>6. Grants!GroupKeysOf(u) \subseteq Grants!GroupKeysOf(u)' BY <2>4, <2>5 DEF Grants!GroupKeysOf
  <2> QED BY <2>1, <2>6, HeldFollow, AnswersMove
<1>6. ASSUME NEW g \in groups, NEW w \in People, Grants!Leave(g, w)
      PROVE  changed' = "leave" /\ Grants!NoMore(Grants!Answers(Grants!Rows, u, {})', Grants!Answers(Grants!Rows, u, {}))
  <2>1. /\ changed' = "leave" /\ UNCHANGED <<fieldRows, actionRows>>
        /\ groups' = (groups \ {g}) \cup {[g EXCEPT !.members = @ \ {w}]}
    BY <1>6 DEF Grants!Leave, Grants!Change
  <2>2. PICK G \in [org : Orgs, key : GroupKeys \ Reserved, members : SUBSET People] : G = g BY DEF GrantsIInv
  <2>3. PICK after : after = [G EXCEPT !.members = @ \ {w}] OBVIOUS
  <2>4. after.org = G.org /\ after.key = G.key /\ after.members = G.members \ {w} BY <2>3
  <2>5. groups' = (groups \ {G}) \cup {after} /\ G \in groups BY <2>1, <2>2, <2>3
  <2>6. Grants!GroupKeysOf(u)' \subseteq Grants!GroupKeysOf(u) BY <2>4, <2>5 DEF Grants!GroupKeysOf
  <2> QED BY <2>1, <2>6, HeldFollow, AnswersMove
<1>7. CASE Grants!Invalidate \/ Grants!Query \/ Grants!Fill \/ UNCHANGED Grants!permissions
  <2>1. UNCHANGED <<fieldRows, actionRows, groups>>
    BY <1>7 DEF Grants!Invalidate, Grants!Query, Grants!Fill, Grants!permissions
  <2> QED BY <2>1, <1>1
<1>8. ASSUME NEW f, NEW a, NEW p, Grants!Seed(f, a, p) PROVE Grants!EditField(f, a, p, Everywhere)
  BY <1>8 DEF Grants!Seed
<1>9. ASSUME NEW f, NEW a, NEW p, NEW o \in Orgs \cup {Everywhere}, Grants!EditField(f, a, p, o)
      PROVE  /\ changed' \in Orgs \ {HomeOf[u]} => Grants!Answers(Grants!Rows, u, {})' = Grants!Answers(Grants!Rows, u, {})
             /\ changed' \notin {"leave", "join"}
  <2>1. changed' = o BY <1>2, <1>9
  <2> QED BY <1>2, <1>9, <2>1 DEF GrantNames
<1>10. ASSUME NEW v, NEW p, NEW o \in Orgs \cup {Everywhere}, Grants!EditAction(v, p, o)
      PROVE  /\ changed' \in Orgs \ {HomeOf[u]} => Grants!Answers(Grants!Rows, u, {})' = Grants!Answers(Grants!Rows, u, {})
             /\ changed' \notin {"leave", "join"}
  <2>1. changed' = o BY <1>3, <1>10
  <2> QED BY <1>3, <1>10, <2>1 DEF GrantNames
<1>11. "join" \notin Orgs /\ "leave" \notin Orgs BY DEF GrantNames
<1> QED BY <1>4, <1>5, <1>6, <1>7, <1>8, <1>9, <1>10, <1>11 DEF Grants!Next

-----------------------------------------------------------------------------
(* Names of Oracle's (OracleNames): what a refresh saves is not older than   *)
(* the ask.                                                                 *)

NameSet == Titles \cup {""}
FlagSet == Flags \cup {""}
Answers == [value : NameSet \cup FlagSet, old : BOOLEAN, of : Nat]
Bodies == [name : NameSet, flag : FlagSet, of : Nat]
Writing == {"writing", "writing_flag"}
Chore == [at : {"idle", "reading", "reading_flag", "split", "asking", "keeping"} \cup Writing,
          what : Names!Calls, read : [Names!Kinds -> Answers], body : Bodies, begun : Nat]

\* Between the ask and the writes: the ask began at a change that Oracle has seen, and what is
\* to be written is of that change or a later one.
NamesIInv ==
    /\ upstream \in Bodies
    /\ stored \in [Names!Kinds -> Answers]
    /\ task \in [Names!Tasks -> Chore]
    /\ \A t \in Names!Tasks :
          /\ task[t].at \in {"asking"} \cup Writing => task[t].begun <= upstream.of
          /\ task[t].at \in Writing => task[t].begun <= task[t].body.of

LEMMA SaidBody ==
  ASSUME NEW n \in Nat, NEW b \in Names!Said(n) PROVE b \in Bodies /\ b.of = n
<1>1. Titles \cup {""} = NameSet BY DEF NameSet
<1>2. b \in [name : Titles, flag : IF entity = "position" THEN Flags ELSE {""}, of : {n}]
      \/ b = [name |-> "", flag |-> "", of |-> n]
  BY DEF Names!Said
<1>3. CASE b = [name |-> "", flag |-> "", of |-> n] BY <1>3 DEF Bodies, NameSet, FlagSet
<1>4. CASE b \in [name : Titles, flag : IF entity = "position" THEN Flags ELSE {""}, of : {n}]
  <2>1. PICK fs \in SUBSET FlagSet : b \in [name : Titles, flag : fs, of : {n}]
    BY <1>4 DEF FlagSet
  <2> QED BY <2>1 DEF Bodies, NameSet
<1> QED BY <1>2, <1>3, <1>4

LEMMA OffIsIdle == Names!Off \in Chore /\ Names!Off.at = "idle"
<1>2. Names!Nothing \in Answers BY DEF Names!Nothing, Answers, NameSet
<1> QED BY <1>2 DEF Names!Off, Chore, Bodies, NameSet, Names!Calls, FlagSet

LEMMA NamesInitIInv == Names!Init => NamesIInv
<1> SUFFICES ASSUME Names!Init PROVE NamesIInv OBVIOUS
<1>1. upstream \in Bodies BY SaidBody DEF Names!Init
<1>2. Names!Nothing \in Answers BY DEF Names!Nothing, Answers, NameSet
<1>3. stored \in [Names!Kinds -> Answers] BY <1>2 DEF Names!Init
<1>4. task \in [Names!Tasks -> Chore] /\ \A t \in Names!Tasks : task[t] = Names!Off
  BY OffIsIdle DEF Names!Init
<1> QED BY <1>1, <1>3, <1>4, OffIsIdle DEF NamesIInv, Writing

LEMMA NamesStepIInv == NamesIInv /\ [Names!Next]_(Names!names_vars) => NamesIInv'
<1> SUFFICES ASSUME NamesIInv, [Names!Next]_(Names!names_vars) PROVE NamesIInv' OBVIOUS
<1>a. /\ upstream \in Bodies /\ stored \in [Names!Kinds -> Answers]
      /\ task \in [Names!Tasks -> Chore]
      /\ upstream.of \in Nat
  BY DEF NamesIInv, Bodies
<1>b. \A t \in Names!Tasks : task[t].begun \in Nat /\ task[t].body.of \in Nat
  BY <1>a DEF Chore, Bodies
<1>1. CASE Names!Edit
  <2>1. upstream' \in Bodies /\ upstream'.of = upstream.of + 1
    BY <1>1, <1>a, SaidBody DEF Names!Edit
  <2>2. UNCHANGED <<stored, task>> BY <1>1 DEF Names!Edit
  <2> QED BY <2>1, <2>2, <1>a, <1>b DEF NamesIInv, Writing
<1>2. CASE Names!OthersRead \/ Names!MemoEnds \/ UNCHANGED Names!names_vars
  BY <1>2 DEF Names!OthersRead, Names!MemoEnds, Names!names_vars, NamesIInv
<1>3. ASSUME NEW k \in Names!Kinds, Names!AnswerAges(k) PROVE NamesIInv'
  <2>1. stored' = [stored EXCEPT ![k].old = TRUE] /\ UNCHANGED upstream BY <1>3 DEF Names!AnswerAges
  <2>2. stored' \in [Names!Kinds -> Answers] BY <2>1, <1>a DEF Answers
  <2>3. PICK b \in BOOLEAN : task' = [task EXCEPT !["caller"].read[k].old = b]
    <3>1. (task["caller"].read[k].old \/ task["caller"].read[k].of # 0) \in BOOLEAN OBVIOUS
    <3> QED BY <1>3, <3>1 DEF Names!AnswerAges
  <2>4. PICK c \in Chore : c = task["caller"] BY <1>a DEF Names!Tasks
  <2>5. [c EXCEPT !.read[k].old = b] \in Chore /\ [c EXCEPT !.read[k].old = b].at = c.at
        /\ [c EXCEPT !.read[k].old = b].begun = c.begun /\ [c EXCEPT !.read[k].old = b].body = c.body
    BY DEF Chore, Answers
  <2>6. task' = [task EXCEPT !["caller"] = [c EXCEPT !.read[k].old = b]] BY <2>3, <2>4, <1>a DEF Names!Tasks
  <2> QED BY <2>1, <2>2, <2>4, <2>5, <2>6, <1>a DEF NamesIInv, Names!Tasks
<1>4. ASSUME NEW what \in Names!Calls, Names!Asked(what) PROVE NamesIInv'
  <2>1. task' = [task EXCEPT !["caller"] = [Names!Off EXCEPT !.at = "reading", !.what = what]]
        /\ UNCHANGED <<stored, upstream>>
    BY <1>4 DEF Names!Asked
  <2>2. PICK c : c = [Names!Off EXCEPT !.at = "reading", !.what = what] OBVIOUS
  <2>3. c \in Chore /\ c.at = "reading" BY <2>2, OffIsIdle DEF Chore
  <2> QED BY <2>1, <2>2, <2>3, <1>a DEF NamesIInv, Names!Tasks, Writing
<1>5. ASSUME NEW k \in Names!Kinds, Names!ReadKind(k) PROVE NamesIInv'
  <2>0. PICK a \in {"reading_flag", "split"} :
           a = IF k = "position" /\ task["caller"].what = "positions" THEN "reading_flag" ELSE "split"
    OBVIOUS
  <2>1. PICK v \in {stored[k], Names!Nothing} : task' = [task EXCEPT !["caller"].read[k] = v, !["caller"].at = a]
    BY <1>5, <2>0 DEF Names!ReadKind
  <2>2. v \in Answers
    <3>1. Names!Nothing \in Answers BY DEF Names!Nothing, Answers, NameSet
    <3> QED BY <3>1, <1>a
  <2>3. PICK c \in Chore : c = task["caller"] BY <1>a DEF Names!Tasks
  <2>4. PICK d : d = [c EXCEPT !.read[k] = v, !.at = a] OBVIOUS
  <2>5. d \in Chore /\ d.at = a BY <2>2, <2>4 DEF Chore
  <2>6. task' = [task EXCEPT !["caller"] = d] BY <2>1, <2>3, <2>4, <1>a DEF Names!Tasks
  <2>7. UNCHANGED <<stored, upstream>> BY <1>5 DEF Names!ReadKind
  <2> QED BY <2>5, <2>6, <2>7, <1>a DEF NamesIInv, Names!Tasks, Writing
<1>6. CASE Names!FromStore
  <2>1. PICK c \in Chore : c = task["caller"] BY <1>a DEF Names!Tasks
  <2>2. PICK d : d = [Names!Off EXCEPT !.at = "asking", !.what = c.what, !.begun = upstream.of] OBVIOUS
  <2>3. d \in Chore /\ d.at = "asking" /\ d.begun = upstream.of
    <3>1. c.what \in Names!Calls BY DEF Chore
    <3> QED BY <2>2, <3>1, <1>a, OffIsIdle DEF Chore
  <2>4. PICK r \in {task["refresh"], d} : task' = [task EXCEPT !["caller"] = Names!Off, !["refresh"] = r]
    BY <1>6, <2>1, <2>2 DEF Names!FromStore
  <2>5. r \in Chore BY <2>3, <1>a DEF Names!Tasks
  <2>6. UNCHANGED <<stored, upstream>> BY <1>6 DEF Names!FromStore
  <2>7. task' \in [Names!Tasks -> Chore] /\ task'["caller"] = Names!Off /\ task'["refresh"] = r
    BY <2>4, <2>5, <1>a, OffIsIdle DEF Names!Tasks
  <2> QED BY <2>3, <2>4, <2>6, <2>7, <1>a, <1>b, OffIsIdle DEF NamesIInv, Names!Tasks, Writing
<1>7. CASE Names!FromOracle
  <2>1. PICK c \in Chore : c = task["caller"] BY <1>a DEF Names!Tasks
  <2>2. PICK d : d = [Names!Off EXCEPT !.at = "asking", !.what = c.what, !.begun = upstream.of] OBVIOUS
  <2>3. d \in Chore /\ d.at = "asking" /\ d.begun = upstream.of
    <3>1. c.what \in Names!Calls BY DEF Chore
    <3> QED BY <2>2, <3>1, <1>a, OffIsIdle DEF Chore
  <2>4. task' = [task EXCEPT !["caller"] = d] /\ UNCHANGED <<stored, upstream>>
    BY <1>7, <2>1, <2>2 DEF Names!FromOracle
  <2> QED BY <2>3, <2>4, <1>a, <1>b DEF NamesIInv, Names!Tasks, Writing
<1>8. ASSUME NEW t \in Names!Tasks, Names!Ask(t) PROVE NamesIInv'
  <2>1. PICK c \in Chore : c = task[t] BY <1>a
  <2>2. PICK d : d = [c EXCEPT !.at = "writing", !.body = upstream] OBVIOUS
  <2>3. d \in Chore /\ d.at = "writing" /\ d.begun = c.begun /\ d.body = upstream
    BY <2>2, <1>a DEF Chore, Writing
  <2>4. task' = [task EXCEPT ![t] = d] /\ UNCHANGED <<stored, upstream>> /\ c.at = "asking"
    BY <1>8, <2>1, <2>2, <1>a DEF Names!Ask, Names!Body
  <2> QED BY <2>1, <2>3, <2>4, <1>a, <1>b DEF NamesIInv, Writing
<1>9. ASSUME NEW t \in Names!Tasks, Names!AskFails(t) \/ Names!Keeps(t) PROVE NamesIInv'
  <2>1. task' = [task EXCEPT ![t] = Names!Off] /\ UNCHANGED <<stored, upstream>>
    BY <1>9 DEF Names!AskFails, Names!Keeps
  <2> QED BY <2>1, <1>a, OffIsIdle DEF NamesIInv, Writing
<1>10. ASSUME NEW t \in Names!Tasks, NEW k \in Names!Kinds, Names!WriteKind(t, k) PROVE NamesIInv'
  <2>1. PICK c \in Chore : c = task[t] BY <1>a
  <2>2. PICK a \in {"writing_flag", "keeping"} : task' = [task EXCEPT ![t].at = a]
    BY <1>10 DEF Names!WriteKind
  <2>3. PICK d : d = [c EXCEPT !.at = a] OBVIOUS
  <2>4. d \in Chore /\ d.at = a /\ d.begun = c.begun /\ d.body = c.body BY <2>3 DEF Chore, Writing
  <2>5. task' = [task EXCEPT ![t] = d] /\ UNCHANGED upstream
    BY <1>10, <2>1, <2>2, <2>3, <1>a DEF Names!WriteKind
  <2>6. c.at \in Writing BY <1>10, <2>1 DEF Names!WriteKind, Writing
  <2>7. stored' \in [Names!Kinds -> Answers]
    <3>1. c.body \in Bodies BY DEF Chore
    <3>2. Names!ValueOf(k, c.body) \in NameSet \cup FlagSet /\ c.body.of \in Nat
      BY <3>1 DEF Bodies, Names!ValueOf, NameSet, FlagSet
    <3>3. [value |-> Names!ValueOf(k, c.body), old |-> FALSE, of |-> c.body.of] \in Answers
      BY <3>2 DEF Answers
    <3>4. stored' = [stored EXCEPT ![k] = [value |-> Names!ValueOf(k, c.body), old |-> FALSE, of |-> c.body.of]]
          \/ UNCHANGED stored
      BY <1>10, <2>1 DEF Names!WriteKind
    <3> QED BY <3>3, <3>4, <1>a
  <2> QED BY <2>1, <2>4, <2>5, <2>6, <2>7, <1>a DEF NamesIInv, Writing
<1> QED BY <1>1, <1>2, <1>3, <1>4, <1>5, <1>6, <1>7, <1>8, <1>9, <1>10 DEF Names!Next

LEMMA NamesStepRefreshes == NamesIInv /\ [Names!Next]_(Names!names_vars) => Names!StepRefreshes
<1> SUFFICES ASSUME NamesIInv, [Names!Next]_(Names!names_vars),
                    NEW t \in Names!Tasks, NEW k \in Names!Kinds,
                    stored'[k] # stored[k], ~stored'[k].old, task'[t].at # task[t].at
             PROVE  stored'[k].of >= task[t].begun
  BY DEF Names!StepRefreshes
<1>a. /\ stored \in [Names!Kinds -> Answers] /\ task \in [Names!Tasks -> Chore]
  BY DEF NamesIInv
<1>1. ~UNCHANGED stored OBVIOUS
<1>2. (\E j \in Names!Kinds : Names!AnswerAges(j)) \/ \E u \in Names!Tasks, j \in Names!Kinds : Names!WriteKind(u, j)
  BY <1>1 DEF Names!Next, Names!Edit, Names!OthersRead, Names!MemoEnds, Names!Asked, Names!ReadKind,
     Names!FromStore, Names!FromOracle, Names!Ask, Names!AskFails, Names!Keeps, Names!names_vars
<1>3. ASSUME NEW j \in Names!Kinds, Names!AnswerAges(j) PROVE FALSE
  <2>1. stored' = [stored EXCEPT ![j].old = TRUE] BY <1>3 DEF Names!AnswerAges
  <2>2. j = k BY <2>1, <1>a
  <2>3. stored'[k].old = TRUE BY <2>1, <2>2, <1>a DEF Answers
  <2> QED BY <2>3
<1>4. ASSUME NEW u \in Names!Tasks, NEW j \in Names!Kinds, Names!WriteKind(u, j) PROVE stored'[k].of >= task[t].begun
  <2>1. stored' = [stored EXCEPT ![j] = [value |-> Names!ValueOf(j, task[u].body), old |-> FALSE, of |-> task[u].body.of]]
    BY <1>1, <1>4 DEF Names!WriteKind
  <2>2. j = k /\ stored'[k].of = task[u].body.of BY <2>1, <1>a
  <2>3. PICK a : task' = [task EXCEPT ![u].at = a] BY <1>4 DEF Names!WriteKind
  <2>4. u = t BY <2>3, <1>a
  <2>5. task[u].at \in Writing BY <1>4 DEF Names!WriteKind, Writing
  <2>6. task[u].begun <= task[u].body.of BY <2>5 DEF NamesIInv
  <2>7. task[u].begun \in Nat /\ task[u].body.of \in Nat BY <1>a DEF Chore, Bodies
  <2> QED BY <2>2, <2>4, <2>6, <2>7
<1> QED BY <1>2, <1>3, <1>4

-----------------------------------------------------------------------------
(* Process definitions (ProcessDefinitions): however replicas overlap, the   *)
(* newest version of a key is active.                                        *)

Rows == [key : Keys, version : Nat \ {0}, purpose : Keys, entity : Entities, active : BOOLEAN]
Rested == [step : {"none"}]
HasRead == [step : {"read"}, spec : Released, active : SUBSET Rows]
Writes == [step : {"write"}, spec : Released, active : SUBSET Rows, version : Nat \ {0}]

\* Some row of the key has the version.
Numbered(k, n) == \E d \in defs : d.key = k /\ d.version = n

\* What a replica holds: rows of its spec's key, and a number all those below are taken of.
Fitting(p) ==
    /\ p \in Rested \cup HasRead \cup Writes
    /\ p.step # "none" => \A a \in p.active : a.key = p.spec.key
    /\ p.step = "write" => \A n \in 1..(p.version - 1) : Numbered(p.spec.key, n)

\* Versions of a key are given out in order, none left out, also to a replica about to write;
\* the last one given is active.
DefinitionsIInv ==
    /\ defs \subseteq Rows
    /\ publishing \in [Pods -> Rested \cup HasRead \cup Writes]
    /\ \A r \in Pods : Fitting(publishing[r])
    /\ \A d \in defs : \A n \in 1..d.version : Numbered(d.key, n)
    /\ \A d \in defs : \E m \in defs :
          m.key = d.key /\ m.active /\ \A e \in defs : e.key = d.key => e.version <= m.version

LEMMA RestFits ==
    /\ Processes!NotSeeding \in Rested \cup HasRead \cup Writes
    /\ Fitting(Processes!NotSeeding) /\ Fitting(Processes!NotSeeding)'
BY DEF Processes!NotSeeding, Rested, Fitting

LEMMA DefinitionsInitIInv == Processes!Init => DefinitionsIInv
<1> SUFFICES ASSUME Processes!Init PROVE DefinitionsIInv OBVIOUS
<1>1. defs = {} /\ publishing = [r \in Pods |-> Processes!NotSeeding] BY DEF Processes!Init
<1>2. \A r \in Pods : Fitting(publishing[r]) BY <1>1, RestFits
<1>3. publishing \in [Pods -> Rested \cup HasRead \cup Writes] BY <1>1, RestFits
<1> QED BY <1>1, <1>2, <1>3 DEF DefinitionsIInv

\* A step that leaves the rows alone and sets one replica's locals to something that fits.
LEMMA LocalStep ==
  ASSUME DefinitionsIInv, UNCHANGED defs, NEW r \in Pods, NEW p, Fitting(p),
         publishing' = [publishing EXCEPT ![r] = p]
  PROVE  DefinitionsIInv'
<1>1. \A k, n : Numbered(k, n)' <=> Numbered(k, n) BY DEF Numbered
<1>2. \A q \in Pods : publishing'[q] = IF q = r THEN p ELSE publishing[q] BY DEF DefinitionsIInv
<1>3. publishing' \in [Pods -> Rested \cup HasRead \cup Writes] BY DEF DefinitionsIInv, Fitting
<1>4. \A q \in Pods : Fitting(publishing[q])' BY <1>1, <1>2 DEF DefinitionsIInv, Fitting
<1>5. \A d \in defs' : \A n \in 1..d.version : Numbered(d.key, n)' BY <1>1 DEF DefinitionsIInv
<1>6. \A d \in defs' : \E m \in defs' :
          m.key = d.key /\ m.active /\ \A e \in defs' : e.key = d.key => e.version <= m.version
  BY DEF DefinitionsIInv
<1>7. defs' \subseteq Rows BY DEF DefinitionsIInv
<1> QED BY <1>3, <1>4, <1>5, <1>6, <1>7 DEF DefinitionsIInv

\* The number taken is the next one.
LEMMA ValidateStep ==
  ASSUME DefinitionsIInv, NEW r \in Pods, Processes!Validate(r) PROVE DefinitionsIInv'
<1>1. PICK h \in HasRead : h = publishing[r]
  <2>1. publishing[r] \in Rested \cup HasRead \cup Writes BY DEF DefinitionsIInv
  <2>2. publishing[r].step = "read" BY DEF Processes!Validate
  <2> QED BY <2>1, <2>2 DEF Rested, HasRead, Writes
<1>2. UNCHANGED defs BY DEF Processes!Validate
<1>3. CASE publishing' = [publishing EXCEPT ![r] = Processes!NotSeeding]
  BY <1>2, <1>3, RestFits, LocalStep
<1>4. CASE publishing' # [publishing EXCEPT ![r] = Processes!NotSeeding]
  <2>1. PICK ofKey : ofKey = {d \in defs : d.key = h.spec.key} OBVIOUS
  <2>0. PICK top : top = CHOOSE d \in Processes!Newest(ofKey) : TRUE OBVIOUS
  <2>2. PICK n : n = 1 + (IF ofKey = {} THEN 0 ELSE top.version) OBVIOUS
  <2>3. publishing' = [publishing EXCEPT ![r] = [step |-> "write", spec |-> h.spec, active |-> h.active, version |-> n]]
    BY <1>1, <1>4, <2>0, <2>1, <2>2 DEF Processes!Validate
  <2>4. n \in Nat \ {0} /\ \A i \in 1..(n - 1) : Numbered(h.spec.key, i)
    <3>1. CASE ofKey = {} BY <2>2, <3>1
    <3>2. CASE ofKey # {}
      <4>1. PICK m \in defs : m.key = h.spec.key /\ \A e \in defs : e.key = h.spec.key => e.version <= m.version
        BY <3>2, <2>1 DEF DefinitionsIInv
      <4>2. m \in Processes!Newest(ofKey) BY <4>1, <2>1 DEF Processes!Newest
      <4>3. PICK c \in Processes!Newest(ofKey) : c = CHOOSE d \in Processes!Newest(ofKey) : TRUE BY <4>2
      <4>4. c \in defs /\ c.key = h.spec.key /\ c.version \in Nat \ {0}
        BY <4>3, <2>1 DEF Processes!Newest, DefinitionsIInv, Rows
      <4>5. n = 1 + c.version BY <2>0, <2>2, <3>2, <4>3
      <4>6. n - 1 = c.version /\ n \in Nat \ {0} BY <4>4, <4>5
      <4> QED BY <4>4, <4>6 DEF DefinitionsIInv
    <3> QED BY <3>1, <3>2
  <2>5. PICK p : p = [step |-> "write", spec |-> h.spec, active |-> h.active, version |-> n] OBVIOUS
  <2>6. p \in Writes /\ p.spec = h.spec /\ p.version = n /\ p.active = h.active
    <3>1. h.spec \in Released /\ h.active \in SUBSET Rows BY DEF HasRead
    <3> QED BY <3>1, <2>4, <2>5 DEF Writes
  <2>7. \A a \in h.active : a.key = h.spec.key BY <1>1 DEF DefinitionsIInv, Fitting, HasRead
  <2>8. Fitting(p) BY <2>4, <2>6, <2>7 DEF Fitting
  <2> QED BY <1>2, <2>3, <2>5, <2>8, LocalStep
<1> QED BY <1>3, <1>4

\* The row inserted is newer than every other, and numbers are never taken back.
LEMMA PublishStep ==
  ASSUME DefinitionsIInv, NEW r \in Pods, Processes!Publish(r) PROVE DefinitionsIInv'
<1>1. PICK p \in Writes : p = publishing[r]
  <2>1. publishing[r] \in Rested \cup HasRead \cup Writes BY DEF DefinitionsIInv
  <2>2. publishing[r].step = "write" BY DEF Processes!Publish
  <2> QED BY <2>1, <2>2 DEF Rested, HasRead, Writes
<1>2. publishing' = [publishing EXCEPT ![r] = Processes!NotSeeding] BY DEF Processes!Publish
<1>3. Fitting(p) BY <1>1 DEF DefinitionsIInv
<1>4. CASE UNCHANGED defs BY <1>2, <1>4, RestFits, LocalStep
<1>5. CASE ~UNCHANGED defs
  <2>1. PICK archived : archived = {d \in defs : \E a \in p.active : a.key = d.key /\ a.version = d.version} OBVIOUS
  <2>2. PICK last : last = [key |-> p.spec.key, version |-> p.version, purpose |-> p.spec.purpose,
                            entity |-> p.spec.entity, active |-> TRUE] OBVIOUS
  <2>3. /\ ~\E d \in defs : d.key = p.spec.key /\ d.version = p.version
        /\ defs' = (defs \ archived) \cup {[d EXCEPT !.active = FALSE] : d \in archived} \cup {last}
    BY <1>1, <1>5, <2>1, <2>2 DEF Processes!Publish
  <2>4. last \in Rows /\ last.key = p.spec.key /\ last.version = p.version /\ last.active
    BY <2>2 DEF Writes, Released, Rows
  <2>5. \A d \in Rows : /\ [d EXCEPT !.active = FALSE] \in Rows
                        /\ [d EXCEPT !.active = FALSE].key = d.key
                        /\ [d EXCEPT !.active = FALSE].version = d.version
    BY DEF Rows
  <2>6. defs' \subseteq Rows
    BY <2>1, <2>3, <2>4, <2>5 DEF DefinitionsIInv
  <2>7. \A k, n : Numbered(k, n) => Numbered(k, n)'
    <3> SUFFICES ASSUME NEW k, NEW n, NEW d \in defs, d.key = k, d.version = n
                 PROVE  \E e \in defs' : e.key = k /\ e.version = n
      BY DEF Numbered
    <3>1. d \in Rows BY DEF DefinitionsIInv
    <3>2. CASE d \in archived
      <4>1. [d EXCEPT !.active = FALSE] \in defs' BY <3>2, <2>3
      <4> QED BY <4>1, <3>1, <2>5
    <3>3. CASE d \notin archived BY <3>3, <2>3
    <3> QED BY <3>2, <3>3
  <2>8. \A e \in defs' : e = last \/ \E d \in defs : d.key = e.key /\ d.version = e.version
    <3> SUFFICES ASSUME NEW e \in defs', e # last PROVE \E d \in defs : d.key = e.key /\ d.version = e.version
      OBVIOUS
    <3>1. CASE e \in defs BY <3>1
    <3>2. CASE e \notin defs
      <4>1. PICK d \in archived : e = [d EXCEPT !.active = FALSE] BY <3>2, <2>3
      <4>2. d \in defs /\ d \in Rows BY <4>1, <2>1 DEF DefinitionsIInv
      <4> QED BY <4>1, <4>2, <2>5
    <3> QED BY <3>1, <3>2
  <2>9. \A d \in defs : d.key = p.spec.key => d.version < p.version
    <3> SUFFICES ASSUME NEW d \in defs, d.key = p.spec.key, ~(d.version < p.version) PROVE FALSE OBVIOUS
    <3>1. d.version \in Nat \ {0} /\ p.version \in Nat \ {0} BY DEF DefinitionsIInv, Rows, Writes
    <3>2. p.version \in 1..d.version BY <3>1
    <3> QED BY <3>2, <2>3 DEF DefinitionsIInv, Numbered
  <2>10. \A e \in defs' : e.key = p.spec.key => e.version <= last.version
    <3>1. p.version \in Nat /\ \A d \in defs : d.version \in Nat BY DEF DefinitionsIInv, Rows, Writes
    <3> QED BY <3>1, <2>4, <2>8, <2>9
  <2>11. \A e \in defs' : \A n \in 1..e.version : Numbered(e.key, n)'
    <3> SUFFICES ASSUME NEW e \in defs', NEW n \in 1..e.version PROVE Numbered(e.key, n)' OBVIOUS
    <3>1. CASE e = last /\ n = p.version
      <4>1. last \in defs' BY <2>3
      <4> QED BY <3>1, <4>1, <2>4 DEF Numbered
    <3>2. CASE e = last /\ n # p.version
      <4>1. p.version \in Nat BY DEF Writes
      <4>2. n \in 1..(p.version - 1) BY <3>2, <4>1, <2>4
      <4>3. Numbered(p.spec.key, n) BY <4>2, <1>3 DEF Fitting, Writes
      <4> QED BY <4>3, <3>2, <2>4, <2>7
    <3>3. CASE e # last
      <4>1. PICK d \in defs : d.key = e.key /\ d.version = e.version BY <3>3, <2>8
      <4>2. Numbered(d.key, n) BY <4>1 DEF DefinitionsIInv
      <4> QED BY <4>1, <4>2, <2>7
    <3> QED BY <3>1, <3>2, <3>3
  <2>12. \A q \in Pods : Fitting(publishing[q])'
    <3>1. \A q \in Pods : publishing'[q] = IF q = r THEN Processes!NotSeeding ELSE publishing[q]
      BY <1>2 DEF DefinitionsIInv
    <3>2. \A q \in Pods : Fitting(publishing[q]) BY DEF DefinitionsIInv
    <3>3. ASSUME NEW q \in Pods PROVE Fitting(publishing[q])'
      <4>1. CASE q = r
        <5>1. publishing'[q] = Processes!NotSeeding BY <3>1, <4>1
        <5> QED BY <5>1, RestFits DEF Fitting
      <4>2. CASE q # r
        <5>1. publishing'[q] = publishing[q] BY <3>1, <4>2
        <5> QED BY <5>1, <3>2, <2>7 DEF Fitting
      <4> QED BY <4>1, <4>2
    <3> QED BY <3>3
  <2>13. \A d \in defs' : \E m \in defs' :
            m.key = d.key /\ m.active /\ \A e \in defs' : e.key = d.key => e.version <= m.version
    <3> SUFFICES ASSUME NEW d \in defs'
                 PROVE  \E m \in defs' :
                           m.key = d.key /\ m.active /\ \A e \in defs' : e.key = d.key => e.version <= m.version
      OBVIOUS
    <3>1. CASE d.key = p.spec.key
      <4>1. last \in defs' BY <2>3
      <4> QED BY <3>1, <4>1, <2>4, <2>10
    <3>2. CASE d.key # p.spec.key
      <4>1. PICK m \in defs : m.key = d.key /\ m.active /\ \A e \in defs : e.key = d.key => e.version <= m.version
        BY <3>2, <2>4, <2>8 DEF DefinitionsIInv
      <4>2. m \notin archived BY <3>2, <4>1, <2>1, <1>3 DEF Fitting, Writes
      <4>3. m \in defs' BY <4>2, <2>3
      <4>4. \A e \in defs' : e.key = d.key => e.version <= m.version BY <3>2, <4>1, <2>4, <2>8
      <4> QED BY <4>1, <4>3, <4>4
    <3> QED BY <3>1, <3>2
  <2>14. publishing' \in [Pods -> Rested \cup HasRead \cup Writes] BY <1>2, RestFits DEF DefinitionsIInv
  <2> QED BY <2>6, <2>11, <2>12, <2>13, <2>14 DEF DefinitionsIInv
<1> QED BY <1>4, <1>5

LEMMA DefinitionsStepIInv == SpecsAreWhole /\ DefinitionsIInv /\ [Processes!Next]_(Processes!definitions) => DefinitionsIInv'
<1> SUFFICES ASSUME SpecsAreWhole, DefinitionsIInv, [Processes!Next]_(Processes!definitions) PROVE DefinitionsIInv' OBVIOUS
<1>1. ASSUME NEW r \in Pods, NEW sp \in Specs, Processes!ensure_definition(r, sp) PROVE DefinitionsIInv'
  <2>1. PICK p : p = [step |-> "read", spec |-> sp, active |-> Processes!Active(sp.key)] OBVIOUS
  <2>2. Processes!Active(sp.key) \subseteq Rows /\ \A a \in Processes!Active(sp.key) : a.key = sp.key
    BY DEF Processes!Active, Processes!Newest, Processes!ActiveRows, DefinitionsIInv
  <2>3. sp \in Released BY DEF SpecsAreWhole
  <2>4. p \in HasRead /\ p.spec = sp /\ p.active = Processes!Active(sp.key) BY <2>1, <2>2, <2>3 DEF HasRead
  <2>5. Fitting(p) BY <2>2, <2>4 DEF Fitting, HasRead
  <2> QED BY <1>1, <2>1, <2>5, LocalStep DEF Processes!ensure_definition
<1>2. CASE UNCHANGED <<defs, publishing>>
  BY <1>2 DEF DefinitionsIInv, Fitting, Numbered
<1>3. ASSUME NEW s \in Subjects, NEW p \in Keys,
             Processes!open_instance(s, p) \/ \E k \in Keys \cup {Unbound} : Processes!set_binding(s, p, k)
      PROVE  UNCHANGED <<defs, publishing>>
  BY <1>3 DEF Processes!open_instance, Processes!set_binding
<1>4. CASE UNCHANGED Processes!definitions BY <1>4, <1>2 DEF Processes!definitions
<1> QED BY <1>1, <1>2, <1>3, <1>4, ValidateStep, PublishStep DEF Processes!Next

LEMMA DefinitionsOpen == DefinitionsIInv /\ [Processes!Next]_(Processes!definitions) => Processes!OpensOnTheNewest
<1> SUFFICES ASSUME DefinitionsIInv, [Processes!Next]_(Processes!definitions), opened' # opened
             PROVE  /\ \A d \in defs : d.key = opened'.definition.key => d.version <= opened'.definition.version
                    /\ opened'.definition.purpose = opened'.purpose \/ opened'.definition.key = opened'.purpose
  BY DEF Processes!OpensOnTheNewest
<1>1. PICK s \in Subjects, p \in Keys : Processes!open_instance(s, p)
  BY DEF Processes!Next, Processes!Validate, Processes!Publish, Processes!ensure_definition,
     Processes!set_binding, Processes!definitions
<1>2. PICK d \in Processes!Resolved(s, p) : opened' = [purpose |-> p, definition |-> d]
  BY <1>1 DEF Processes!open_instance
<1>3. opened'.definition = d /\ opened'.purpose = p BY <1>2
<1>4. d.purpose = p \/ d.key = p
  BY DEF Processes!Resolved, Processes!Active, Processes!Newest, Processes!ActiveRows
<1>5. \E k : d \in Processes!Active(k) BY DEF Processes!Resolved, Processes!Bound
<1>6. d \in defs /\ \A e \in defs : e.key = d.key /\ e.active => e.version <= d.version
  BY <1>5 DEF Processes!Active, Processes!Newest, Processes!ActiveRows
<1>7. PICK m \in defs : m.key = d.key /\ m.active /\ \A e \in defs : e.key = d.key => e.version <= m.version
  BY <1>6 DEF DefinitionsIInv
<1>8. \A e \in defs : e.version \in Nat BY DEF DefinitionsIInv, Rows
<1>9. \A e \in defs : e.key = d.key => e.version <= d.version BY <1>6, <1>7, <1>8
<1> QED BY <1>3, <1>4, <1>9

-----------------------------------------------------------------------------
(* Validated graphs (ProcessGraphs), over any nodes: the closures that       *)
(* validation computes, and the walk of a graph it accepted.                *)

\* One round of _closure.
Wider(edges, X) == X \cup {n \in Graph!Nodes : \E m \in X : <<m, n>> \in edges}

\* The first rounds.
Rounds(edges, seeds, n, f) ==
    f = [i \in 0..n |-> IF i = 0 THEN seeds ELSE Wider(edges, f[i - 1])]

LEMMA RoundsExist ==
  ASSUME NEW edges, NEW seeds PROVE \A n \in Nat : \E f : Rounds(edges, seeds, n, f)
<1> DEFINE T == {n \in Nat : \E f : Rounds(edges, seeds, n, f)}
<1>1. 0 \in T
  <2>1. PICK f : f = [i \in 0..0 |-> seeds] OBVIOUS
  <2>2. f = [i \in 0..0 |-> IF i = 0 THEN seeds ELSE Wider(edges, f[i - 1])] BY <2>1
  <2> QED BY <2>2 DEF Rounds
<1>2. ASSUME NEW n \in Nat, n \in T PROVE n + 1 \in T
  <2>1. PICK f : f = [i \in 0..n |-> IF i = 0 THEN seeds ELSE Wider(edges, f[i - 1])] BY <1>2 DEF Rounds
  <2>2. PICK g : g = [i \in 0..(n + 1) |-> IF i = n + 1 THEN Wider(edges, f[n]) ELSE f[i]] OBVIOUS
  <2>3. \A i \in 0..(n + 1) : g[i] = IF i = 0 THEN seeds ELSE Wider(edges, g[i - 1])
    <3> SUFFICES ASSUME NEW i \in 0..(n + 1) PROVE g[i] = IF i = 0 THEN seeds ELSE Wider(edges, g[i - 1])
      OBVIOUS
    <3>1. CASE i = n + 1
      <4>1. i # 0 /\ i - 1 = n /\ n \in 0..(n + 1) /\ n # n + 1 BY <3>1
      <4>2. g[i] = Wider(edges, f[n]) /\ g[n] = f[n] BY <2>2, <3>1, <4>1
      <4> QED BY <4>1, <4>2
    <3>2. CASE i # n + 1
      <4>1. i \in 0..n BY <3>2
      <4>2. g[i] = f[i] /\ f[i] = IF i = 0 THEN seeds ELSE Wider(edges, f[i - 1]) BY <2>1, <2>2, <3>2, <4>1
      <4>3. CASE i = 0 BY <4>2, <4>3
      <4>4. CASE i # 0
        <5>1. i - 1 \in 0..(n + 1) /\ i - 1 # n + 1 BY <4>1, <4>4
        <5>2. g[i - 1] = f[i - 1] BY <5>1, <2>2
        <5> QED BY <4>2, <4>4, <5>2
      <4> QED BY <4>3, <4>4
    <3> QED BY <3>1, <3>2
  <2>4. g = [i \in 0..(n + 1) |-> IF i = 0 THEN seeds ELSE Wider(edges, g[i - 1])]
    BY <2>2, <2>3
  <2> QED BY <2>4 DEF Rounds
<1>3. Nat \subseteq T
  <2> HIDE DEF T
  <2> QED BY <1>1, <1>2, NaturalSteps
<1> QED BY <1>3

LEMMA RoundsAgree ==
  ASSUME NEW edges, NEW seeds, NEW n \in Nat, NEW m \in Nat, NEW f, NEW g,
         Rounds(edges, seeds, n, f), Rounds(edges, seeds, m, g), n <= m
  PROVE  \A i \in 0..n : f[i] = g[i]
<1> DEFINE T == {i \in Nat : i \in 0..n => f[i] = g[i]}
<1>1. \A i \in 0..n : f[i] = IF i = 0 THEN seeds ELSE Wider(edges, f[i - 1])
  <2>1. f = [i \in 0..n |-> IF i = 0 THEN seeds ELSE Wider(edges, f[i - 1])] BY DEF Rounds
  <2> QED BY <2>1
<1>2. \A i \in 0..m : g[i] = IF i = 0 THEN seeds ELSE Wider(edges, g[i - 1])
  <2>1. g = [i \in 0..m |-> IF i = 0 THEN seeds ELSE Wider(edges, g[i - 1])] BY DEF Rounds
  <2> QED BY <2>1
<1>3. 0 \in T BY <1>1, <1>2
<1>4. ASSUME NEW i \in Nat, i \in T PROVE i + 1 \in T
  <2> SUFFICES ASSUME i + 1 \in 0..n PROVE f[i + 1] = g[i + 1] OBVIOUS
  <2>1. i \in 0..n /\ i + 1 \in 0..m /\ i + 1 # 0 /\ (i + 1) - 1 = i OBVIOUS
  <2>2. f[i] = g[i] BY <1>4, <2>1
  <2>3. f[i + 1] = Wider(edges, f[i]) /\ g[i + 1] = Wider(edges, g[i]) BY <1>1, <1>2, <2>1
  <2> QED BY <2>2, <2>3
<1>5. Nat \subseteq T
  <2> HIDE DEF T
  <2> QED BY <1>3, <1>4, NaturalSteps
<1> QED BY <1>5

\* So _closure computes its rounds.
Grown(edges, seeds, g) ==
    g = [i \in Nat |-> IF i = 0 THEN seeds
                       ELSE g[i - 1] \cup {n \in Graph!Nodes : \E m \in g[i - 1] : <<m, n>> \in edges}]

LEMMA ClosureGrows ==
  ASSUME NEW edges, NEW seeds PROVE \E g : Grown(edges, seeds, g)
<1> DEFINE some == [n \in Nat |-> CHOOSE f : Rounds(edges, seeds, n, f)]
<1>1. PICK g : g = [i \in Nat |-> some[i][i]] OBVIOUS
<1>2. \A n \in Nat : Rounds(edges, seeds, n, some[n]) BY RoundsExist
<1>3. ASSUME NEW i \in Nat PROVE g[i] = IF i = 0 THEN seeds ELSE Wider(edges, g[i - 1])
  <2>1. some[i] = [j \in 0..i |-> IF j = 0 THEN seeds ELSE Wider(edges, some[i][j - 1])] BY <1>2 DEF Rounds
  <2>2. some[i][i] = IF i = 0 THEN seeds ELSE Wider(edges, some[i][i - 1])
    <3> HIDE DEF some
    <3>1. i \in 0..i OBVIOUS
    <3> QED BY <2>1, <3>1
  <2>3. CASE i = 0 BY <1>1, <2>2, <2>3
  <2>4. CASE i # 0
    <3>1. i - 1 \in Nat /\ i - 1 <= i /\ i - 1 \in 0..(i - 1) BY <2>4
    <3>2. some[i - 1][i - 1] = some[i][i - 1]
      <4> HIDE DEF some
      <4>1. Rounds(edges, seeds, i - 1, some[i - 1]) /\ Rounds(edges, seeds, i, some[i]) BY <1>2, <3>1
      <4>2. \A j \in 0..(i - 1) : some[i - 1][j] = some[i][j]
        <5>1. PICK f, h : f = some[i - 1] /\ h = some[i] OBVIOUS
        <5> QED BY <3>1, <4>1, <5>1, RoundsAgree
      <4> QED BY <3>1, <4>2
    <3>3. g[i] = some[i][i] /\ g[i - 1] = some[i - 1][i - 1] BY <1>1, <3>1
    <3> HIDE DEF some
    <3> QED BY <2>2, <2>4, <3>2, <3>3
  <2> QED BY <2>3, <2>4
<1>4. g = [i \in Nat |-> IF i = 0 THEN seeds ELSE Wider(edges, g[i - 1])] BY <1>1, <1>3
<1>5. Grown(edges, seeds, g) BY <1>4 DEF Wider, Grown
<1> QED BY <1>5

\* It stays in every set that holds its seeds and that no edge leaves.
LEMMA ClosureStays ==
  ASSUME NEW edges, NEW seeds, NEW X, seeds \subseteq X,
         \A m \in X, n \in Graph!Nodes : <<m, n>> \in edges => n \in X,
         IsFiniteSet(Graph!Nodes)
  PROVE  Graph!Closure(edges, seeds) \subseteq X
<1> DEFINE grown == CHOOSE g : Grown(edges, seeds, g)
<1>0. Grown(edges, seeds, grown) BY ClosureGrows
<1>1. grown = [i \in Nat |-> IF i = 0 THEN seeds
                       ELSE grown[i - 1] \cup {n \in Graph!Nodes : \E m \in grown[i - 1] : <<m, n>> \in edges}]
  <2> HIDE DEF grown
  <2> QED BY <1>0 DEF Grown
<1>2. Graph!Closure(edges, seeds) = grown[Graph!Cardinality(Graph!Nodes)] BY DEF Graph!Closure, Grown
<1>3. Graph!Cardinality(Graph!Nodes) \in Nat
  <2>1. Graph!Cardinality(Graph!Nodes) = Cardinality(Graph!Nodes)
    BY DEF Graph!Cardinality, Cardinality, Graph!IsFiniteSet, IsFiniteSet
  <2> QED BY <2>1, FS_CardinalityType
<1> HIDE DEF grown
<1> DEFINE T == {i \in Nat : grown[i] \subseteq X}
<1>4. 0 \in T BY <1>1
<1>5. ASSUME NEW i \in Nat, i \in T PROVE i + 1 \in T
  <2>1. i + 1 \in Nat /\ i + 1 # 0 /\ (i + 1) - 1 = i OBVIOUS
  <2>2. grown[i + 1] = grown[i] \cup {n \in Graph!Nodes : \E m \in grown[i] : <<m, n>> \in edges} BY <1>1, <2>1
  <2>3. grown[i] \subseteq X BY <1>5
  <2>4. grown[i + 1] \subseteq X BY <2>2, <2>3
  <2> QED BY <2>1, <2>4
<1>6. Nat \subseteq T
  <2> HIDE DEF T
  <2> QED BY <1>4, <1>5, NaturalSteps
<1> QED BY <1>2, <1>3, <1>6

-----------------------------------------------------------------------------
\* What is walked was accepted, and an error was made at an approval.
GraphsIInv ==
    /\ outs \in [Graph!Nodes -> Seq(Graph!Transitions)]
    /\ position \in Graph!Nodes
    /\ phase # "declared" => Graph!Accepted
    /\ phase = "error" => position \in Graph!Approvals

LEMMA GraphsInitIInv == Graph!Init => GraphsIInv
BY DEF Graph!Init, GraphsIInv, Graph!Nodes

LEMMA VerdictStands == UNCHANGED <<type, outs>> => (Graph!Accepted' <=> Graph!Accepted) /\ Graph!Approvals' = Graph!Approvals
BY DEF Graph!Accepted, Graph!Finishes, Graph!Closure, Graph!Edges, Graph!Reverse, Graph!Covered, Graph!Approvals, Graph!Out

\* A node whose conditions may all fail and whose transitions have no default is an approval.
LEMMA StuckAtApproval ==
  ASSUME GraphsIInv, phase = "walking", position # End, NEW true \in Graph!Truths(position),
         Graph!Selected(position, true, TRUE) = {}
  PROVE  position \in Graph!Approvals
<1>1. Graph!Covered(position) BY DEF GraphsIInv, Graph!Accepted
<1>2. PICK defaults : defaults = {i \in 1..Len(outs[position]) : ~outs[position][i].conditional} OBVIOUS
<1>3. CASE defaults = {} BY <1>1, <1>2, <1>3 DEF Graph!Covered
<1>4. CASE defaults # {}
  <2>1. defaults \subseteq true BY <1>2 DEF Graph!Truths
  <2>2. true \subseteq Nat /\ true # {}
    <3>1. outs[position] \in Seq(Graph!Transitions) BY DEF GraphsIInv
    <3>2. true \subseteq 1..Len(outs[position]) BY DEF Graph!Truths
    <3>3. true \subseteq Nat
      <4>1. PICK k \in Nat : k = Len(outs[position]) BY <3>1
      <4>2. 1..k \subseteq Nat OBVIOUS
      <4> QED BY <3>2, <4>1, <4>2
    <3>4. true # {} BY <1>4, <2>1
    <3> QED BY <3>3, <3>4
  <2>3. PICK i \in true : \A j \in true : i <= j BY <2>2, LeastNatural
  <2>4. outs[position][i].to \in Graph!Selected(position, true, TRUE) BY <2>3 DEF Graph!Selected
  <2> QED BY <2>4
<1> QED BY <1>3, <1>4

LEMMA GraphsStepIInv == GraphsIInv /\ [Graph!Next]_(Graph!graph) => GraphsIInv'
<1> SUFFICES ASSUME GraphsIInv, [Graph!Next]_(Graph!graph) PROVE GraphsIInv' OBVIOUS
<1>1. ASSUME NEW n \in Graph!Nodes, NEW t \in Graph!Transitions, Graph!Declare(n, t) PROVE GraphsIInv'
  <2>1. outs' = [outs EXCEPT ![n] = Append(@, t)] /\ UNCHANGED <<phase, position>> /\ phase = "declared"
    BY <1>1 DEF Graph!Declare
  <2>2. outs' \in [Graph!Nodes -> Seq(Graph!Transitions)]
    <3>1. outs[n] \in Seq(Graph!Transitions) BY DEF GraphsIInv
    <3>2. Append(outs[n], t) \in Seq(Graph!Transitions) BY <3>1
    <3> QED BY <2>1, <3>2 DEF GraphsIInv
  <2> QED BY <2>1, <2>2 DEF GraphsIInv
<1>2. CASE Graph!validate_definition
  <2>1. Graph!Accepted' <=> Graph!Accepted BY <1>2, VerdictStands DEF Graph!validate_definition
  <2> QED BY <1>2, <2>1 DEF Graph!validate_definition, GraphsIInv
<1>3. ASSUME NEW positive \in BOOLEAN, Graph!Advance(positive) PROVE GraphsIInv'
  <2>1. (Graph!Accepted' <=> Graph!Accepted) /\ Graph!Approvals' = Graph!Approvals
    BY <1>3, VerdictStands DEF Graph!Advance
  <2>2. phase = "walking" /\ position # End /\ Graph!Accepted BY <1>3 DEF Graph!Advance, GraphsIInv
  <2>3. PICK true \in Graph!Truths(position) :
           IF Graph!Selected(position, true, positive) # {}
           THEN position' \in Graph!Selected(position, true, positive) /\ UNCHANGED phase
           ELSE UNCHANGED position /\ phase' = IF positive THEN "error" ELSE "rejected"
    BY <1>3 DEF Graph!Advance
  <2>4. \A n \in Graph!Selected(position, true, positive) : n \in Graph!Nodes
    <3>1. outs[position] \in Seq(Graph!Transitions) BY DEF GraphsIInv
    <3>2. \A i \in true : outs[position][i] \in Graph!Transitions BY <3>1 DEF Graph!Truths
    <3> QED BY <3>2 DEF Graph!Selected, Graph!Transitions
  <2>5. UNCHANGED outs BY <1>3 DEF Graph!Advance
  <2>6. CASE Graph!Selected(position, true, positive) # {}
    BY <2>1, <2>2, <2>3, <2>4, <2>5, <2>6 DEF GraphsIInv
  <2>7. CASE Graph!Selected(position, true, positive) = {}
    <3>1. positive => position \in Graph!Approvals BY <2>2, <2>7, StuckAtApproval
    <3> QED BY <2>1, <2>2, <2>3, <2>5, <2>7, <3>1 DEF GraphsIInv
  <2> QED BY <2>6, <2>7
<1>4. CASE Graph!Finish
  <2>1. (Graph!Accepted' <=> Graph!Accepted) /\ Graph!Approvals' = Graph!Approvals
    BY <1>4, VerdictStands DEF Graph!Finish
  <2> QED BY <1>4, <2>1 DEF Graph!Finish, GraphsIInv
<1>5. CASE UNCHANGED Graph!graph
  <2>1. (Graph!Accepted' <=> Graph!Accepted) /\ Graph!Approvals' = Graph!Approvals
    BY <1>5, VerdictStands DEF Graph!graph
  <2> QED BY <1>5, <2>1 DEF Graph!graph, GraphsIInv
<1> QED BY <1>1, <1>2, <1>3, <1>4, <1>5 DEF Graph!Next

\* From a set of steps that run on and that no transition leaves, no end is reached.
LEMMA GraphsIInvImplies == NodesAreApart /\ GraphsIInv => Graph!AcceptedGraphsFinish
<1> SUFFICES ASSUME NodesAreApart, GraphsIInv, phase = "walking",
                    NEW X \in SUBSET (Graph!Nodes \ ({End} \cup Graph!Approvals)), position \in X,
                    \A e \in Graph!Edges : e[1] \in X => e[2] \in X
             PROVE  FALSE
  BY DEF Graph!AcceptedGraphsFinish, GraphsIInv
<1>1. Graph!Finishes /\ Graph!Closure(Graph!Edges, {Start}) = Graph!Nodes BY DEF GraphsIInv, Graph!Accepted
<1>2. position \in Graph!Closure(Graph!Reverse, {End}) BY <1>1 DEF Graph!Finishes, GraphsIInv
<1>3. PICK others : others = Graph!Nodes \ X OBVIOUS
<1>4. {End} \subseteq others BY <1>3 DEF Graph!Nodes
<1>5. \A m \in others, n \in Graph!Nodes : <<m, n>> \in Graph!Reverse => n \in others
  <2> SUFFICES ASSUME NEW m \in others, NEW n \in Graph!Nodes, <<m, n>> \in Graph!Reverse, n \in X PROVE FALSE
    BY <1>3
  <2>1. <<n, m>> \in Graph!Edges BY DEF Graph!Reverse, Graph!Edges
  <2> QED BY <2>1, <1>3
<1>6. IsFiniteSet(Graph!Nodes)
  <2>1. IsFiniteSet(Inner \cup {Start}) BY FS_AddElement DEF NodesAreApart
  <2>2. IsFiniteSet((Inner \cup {Start}) \cup {End}) BY <2>1, FS_AddElement
  <2>3. Graph!Nodes = (Inner \cup {Start}) \cup {End} BY DEF Graph!Nodes
  <2> QED BY <2>2, <2>3
<1>7. Graph!Closure(Graph!Reverse, {End}) \subseteq others BY <1>4, <1>5, <1>6, ClosureStays
<1> QED BY <1>2, <1>3, <1>7

-----------------------------------------------------------------------------
(* Classification (Clearance): the catalog the process keeps may be any      *)
(* older one, in which a code has one rank too, and the stamps a session     *)
(* keeps are among those made, since stamps are never taken away.           *)

Level == [org : Owners, code : Ladder, rank : Ranks]
StampRow == [org : Owners, code : Compartments]

Keyed(rows) == rows \subseteq Level /\ \A l, m \in rows : l.org = m.org /\ l.code = m.code => l = m

MacIInv ==
    /\ Keyed(catalog)
    /\ stamps \subseteq StampRow
    /\ record \in [org : Owners \cup {NoOwner}, level : Ladder \cup {Unlevelled}, stored : BOOLEAN]
    /\ subject \in [level : Ladder \cup {Unlevelled}, marks : SUBSET Compartments]
    /\ levelCache = Mac!None \/ \E rows \in SUBSET Level : Keyed(rows) /\ levelCache = Mac!Cached(rows)
    /\ DOMAIN stampCache = Owners
    /\ \A o \in Owners : stampCache[o] = Mac!None \/ \E rows \in SUBSET stamps : stampCache[o] = Mac!Cached(rows)
    /\ ~ record.stored => stamps = {}

LEMMA LeastIs ==
  ASSUME NEW X \in SUBSET Nat, X # {}
  PROVE  Mac!Least(X) \in X /\ \A x \in X : Mac!Least(X) <= x
<1>1. \E r \in X : \A q \in X : r <= q BY LeastNatural
<1> QED BY <1>1 DEF Mac!Least

-----------------------------------------------------------------------------
(* The check, as a function of what it reads.                               *)

RankIn(ranks, c) == (CHOOSE r \in ranks : r.code = c).rank
Above(ranks, code, own) ==
    /\ \E r \in ranks : r.code = code
    /\ own # Unlevelled => \E r \in ranks : r.code = own
    /\ (IF own = Unlevelled THEN Mac!Least({r.rank : r \in ranks}) ELSE RankIn(ranks, own)) >= RankIn(ranks, code)
Shown(named, code, marks, profile, o, ranks) ==
    \/ code = Unlevelled /\ marks = {}
    \/ /\ named
       /\ marks \subseteq profile.marks
       /\ code # Unlevelled => o # NoOwner /\ Above(ranks, code, profile.level)

RanksOf(rows, o) == {r \in rows : r.org = o}

AllowsAreShown ==
    \A named \in BOOLEAN : \A given :
        Mac!mac_allows(named, given) <=>
            Shown(named, record.level, Mac!MarksOf(Mac!RecordOrg(given)), Mac!Profile, Mac!RecordOrg(given),
                  RanksOf(Mac!Levels, Mac!RecordOrg(given)))

LEMMA AllowsAlwaysAreShown == []AllowsAreShown
<1>1. AllowsAreShown
  <2> SUFFICES ASSUME NEW named \in BOOLEAN, NEW given
               PROVE  Mac!mac_allows(named, given) <=>
                        Shown(named, record.level, Mac!MarksOf(Mac!RecordOrg(given)), Mac!Profile, Mac!RecordOrg(given),
                              RanksOf(Mac!Levels, Mac!RecordOrg(given)))
    BY DEF AllowsAreShown
  <2>1. PICK o : o = Mac!RecordOrg(given) OBVIOUS
  <2>2. PICK ranks : ranks = RanksOf(Mac!Levels, o) OBVIOUS
  <2>3. Mac!Outranks(ranks) <=> Above(ranks, record.level, Mac!Profile.level)
    BY DEF Mac!Outranks, Above, RankIn
  <2>4. Mac!mac_allows(named, given) <=>
          \/ record.level = Unlevelled /\ Mac!MarksOf(o) = {}
          \/ /\ named
             /\ Mac!MarksOf(o) \subseteq Mac!Profile.marks
             /\ record.level # Unlevelled => o # NoOwner /\ Mac!Outranks(ranks)
    BY <2>1, <2>2 DEF Mac!mac_allows, RanksOf
  <2>5. Shown(named, record.level, Mac!MarksOf(o), Mac!Profile, o, ranks) <=>
          \/ record.level = Unlevelled /\ Mac!MarksOf(o) = {}
          \/ /\ named
             /\ Mac!MarksOf(o) \subseteq Mac!Profile.marks
             /\ record.level # Unlevelled => o # NoOwner /\ Mac!Outranks(ranks)
    BY <2>3 DEF Shown
  <2>6. Mac!mac_allows(named, given) <=> Shown(named, record.level, Mac!MarksOf(o), Mac!Profile, o, ranks)
    BY <2>4, <2>5
  <2> QED BY <2>1, <2>2, <2>6
<1> QED BY <1>1, PTL

\* The codes of an org's stamps.
StampsOf(rows, o) == {n.code : n \in {k \in rows : k.org = o}}

LEMMA MoreStamps ==
  ASSUME NEW a, NEW b, NEW o, a \subseteq b PROVE StampsOf(a, o) \subseteq StampsOf(b, o)
BY DEF StampsOf

\* What a session sees is some of what was stamped.
LEMMA MarkingsAre ==
  ASSUME MacIInv, NEW o \in Owners
  PROVE  /\ Mac!Markings(o) \subseteq StampsOf(stamps, o)
         /\ ~ stampCache[o].cached => Mac!Markings(o) = StampsOf(stamps, o)
<1>1. PICK rows : rows = IF stampCache[o].cached THEN stampCache[o].rows ELSE stamps OBVIOUS
<1>2. Mac!Markings(o) = StampsOf(rows, o) BY <1>1 DEF Mac!Markings, StampsOf
<1>3. rows \subseteq stamps
  <2>1. CASE stampCache[o] = Mac!None BY <1>1, <2>1 DEF Mac!None
  <2>2. CASE \E seen \in SUBSET stamps : stampCache[o] = Mac!Cached(seen) BY <1>1, <2>2 DEF Mac!Cached
  <2> QED BY <2>1, <2>2 DEF MacIInv
<1> QED BY <1>1, <1>2, <1>3, MoreStamps

LEMMA LevelsAre == MacIInv => Keyed(Mac!Levels)
BY DEF MacIInv, Mac!Levels, Mac!None, Mac!Cached

\* The levels of one catalog: a code has one rank.
Ranked(ranks) ==
    /\ \A a \in ranks : a.rank \in Nat
    /\ \A a, b \in ranks : a.code = b.code => a = b

\* The levels of one org.
LEMMA RanksAre ==
  ASSUME ClearanceNames, NEW rows, Keyed(rows), NEW o
  PROVE  Ranked(RanksOf(rows, o))
<1>1. \A l \in RanksOf(rows, o) : l \in rows /\ l.org = o BY DEF RanksOf
<1>2. \A l \in rows : l.rank \in Nat BY DEF Keyed, Level, ClearanceNames
<1>3. \A l, m \in RanksOf(rows, o) : l.code = m.code => l = m BY <1>1 DEF Keyed
<1> QED BY <1>1, <1>2, <1>3 DEF Ranked

LEMMA FewerMarks ==
  ASSUME NEW named, NEW code, NEW a, NEW b, NEW profile, NEW o, NEW ranks, a \subseteq b,
         Shown(named, code, b, profile, o, ranks)
  PROVE  Shown(named, code, a, profile, o, ranks)
BY DEF Shown

-----------------------------------------------------------------------------
LEMMA MacInitIInv == Mac!Init => MacIInv
<1> SUFFICES ASSUME Mac!Init PROVE MacIInv OBVIOUS
<1>1. Keyed(catalog)
  <2>1. CASE catalog = {} BY <2>1 DEF Keyed
  <2>2. CASE \E o \in Owners, r \in [Ladder -> Ranks] : catalog = {[org |-> o, code |-> c, rank |-> r[c]] : c \in Ladder}
    <3>1. PICK o \in Owners, r \in [Ladder -> Ranks] : catalog = {[org |-> o, code |-> c, rank |-> r[c]] : c \in Ladder}
      BY <2>2
    <3>2. \A l \in catalog : \E c \in Ladder : l = [org |-> o, code |-> c, rank |-> r[c]] BY <3>1
    <3>3. \A c \in Ladder : r[c] \in Ranks BY <3>1
    <3>4. catalog \subseteq Level BY <3>2, <3>3 DEF Level
    <3> QED BY <3>2, <3>4 DEF Keyed
  <2> QED BY <2>1, <2>2 DEF Mac!Init
<1>2. record \in [org : Owners \cup {NoOwner}, level : Ladder \cup {Unlevelled}, stored : BOOLEAN]
  BY DEF Mac!Init
<1>3. subject \in [level : Ladder \cup {Unlevelled}, marks : SUBSET Compartments]
  BY DEF Mac!Init
<1>4. stamps = {} /\ levelCache = Mac!None /\ stampCache = [o \in Owners |-> Mac!None] BY DEF Mac!Init
<1> QED BY <1>1, <1>2, <1>3, <1>4 DEF MacIInv

LEMMA MacStepIInv == MacIInv /\ [Mac!Next]_(Mac!clearance) => MacIInv'
<1> SUFFICES ASSUME MacIInv, [Mac!Next]_(Mac!clearance) PROVE MacIInv' OBVIOUS
<1>1. ASSUME NEW o \in Owners, NEW c \in Ladder, NEW r \in Ranks, Mac!AddLevel(o, c, r) PROVE MacIInv'
  <2>1. PICK l : l = [org |-> o, code |-> c, rank |-> r] OBVIOUS
  <2>2. l \in Level /\ l.org = o /\ l.code = c BY <2>1 DEF Level
  <2>3. /\ catalog' = catalog \cup {l} /\ ~ \E m \in catalog : m.org = o /\ m.code = c
        /\ UNCHANGED <<stamps, record, subject, levelCache, stampCache>>
    BY <1>1, <2>1 DEF Mac!AddLevel
  <2>4. Keyed(catalog') BY <2>2, <2>3 DEF MacIInv, Keyed
  <2> QED BY <2>3, <2>4 DEF MacIInv
<1>2. ASSUME NEW l \in catalog, Mac!DropLevel(l) PROVE MacIInv'
  <2>1. catalog' = catalog \ {l} /\ UNCHANGED <<stamps, record, subject, levelCache, stampCache>>
    BY <1>2 DEF Mac!DropLevel
  <2>2. Keyed(catalog') BY <2>1 DEF MacIInv, Keyed
  <2> QED BY <2>1, <2>2 DEF MacIInv
<1>12. CASE Mac!Invalidate
  <2>1. levelCache' = Mac!None /\ UNCHANGED <<catalog, stamps, record, subject, stampCache>>
    BY <1>12 DEF Mac!Invalidate
  <2> QED BY <2>1 DEF MacIInv
<1>3. ASSUME NEW o \in Owners, NEW m \in Compartments, NEW here \in BOOLEAN, Mac!Stamp(o, m, here) PROVE MacIInv'
  <2>1. PICK s : s = [org |-> o, code |-> m] OBVIOUS
  <2>2. s \in StampRow BY <2>1 DEF StampRow
  <2>3. /\ stamps' = stamps \cup {s} /\ record.stored
        /\ stampCache' = [q \in Owners |-> Mac!None] \/ stampCache' = stampCache
        /\ UNCHANGED <<catalog, record, subject, levelCache>>
    BY <1>3, <2>1 DEF Mac!Stamp
  <2>4. /\ DOMAIN stampCache' = Owners
        /\ \A q \in Owners : stampCache'[q] = Mac!None \/ \E rows \in SUBSET stamps' : stampCache'[q] = Mac!Cached(rows)
    BY <2>3 DEF MacIInv
  <2> QED BY <2>2, <2>3, <2>4 DEF MacIInv
<1>4. ASSUME NEW c \in Ladder, Mac!Classify(c) PROVE MacIInv'
  <2>1. PICK d : d = [record EXCEPT !.level = c] OBVIOUS
  <2>2. d \in [org : Owners \cup {NoOwner}, level : Ladder \cup {Unlevelled}, stored : BOOLEAN] /\ d.stored = record.stored
    BY <2>1 DEF MacIInv
  <2>3. record' = d /\ UNCHANGED <<catalog, stamps, subject, levelCache, stampCache>> BY <1>4, <2>1 DEF Mac!Classify
  <2> QED BY <2>2, <2>3 DEF MacIInv
<1>5. ASSUME NEW d \in [level : Ladder \cup {Unlevelled}, marks : SUBSET Compartments],
             subject' = d, UNCHANGED <<catalog, stamps, record, levelCache, stampCache>>
      PROVE  MacIInv'
  BY <1>5 DEF MacIInv
<1>6. ASSUME NEW c \in Ladder, Mac!Assign(c) PROVE MacIInv'
  <2>1. [subject EXCEPT !.level = c] \in [level : Ladder \cup {Unlevelled}, marks : SUBSET Compartments] BY DEF MacIInv
  <2> QED BY <1>5, <1>6, <2>1 DEF Mac!Assign
<1>7. ASSUME NEW m \in Compartments, Mac!ReadIn(m) \/ Mac!ReadOut(m) PROVE MacIInv'
  <2>1. /\ [subject EXCEPT !.marks = @ \cup {m}] \in [level : Ladder \cup {Unlevelled}, marks : SUBSET Compartments]
        /\ [subject EXCEPT !.marks = @ \ {m}] \in [level : Ladder \cup {Unlevelled}, marks : SUBSET Compartments]
    BY DEF MacIInv
  <2> QED BY <1>5, <1>7, <2>1 DEF Mac!ReadIn, Mac!ReadOut
<1>8. ASSUME NEW how, Mac!SourceFails(how) PROVE MacIInv'
  BY <1>8 DEF Mac!SourceFails, MacIInv
<1>9. ASSUME NEW o \in Owners, Mac!Check(o) PROVE MacIInv'
  <2>1. levelCache' = Mac!Cached(Mac!Levels) /\ UNCHANGED <<catalog, stamps, record, subject>>
    BY <1>9 DEF Mac!Check
  <2>5. Keyed(Mac!Levels) BY LevelsAre
  <2>6. \E rows \in SUBSET Level : Keyed(rows) /\ levelCache' = Mac!Cached(rows) BY <2>1, <2>5 DEF Keyed
  <2>2. \/ stampCache' = [stampCache EXCEPT ![o] = stampCache[o]]
        \/ stampCache' = [stampCache EXCEPT ![o] = Mac!Cached(stamps)]
    BY <1>9 DEF Mac!Check
  <2>3. DOMAIN stampCache' = Owners BY <2>2 DEF MacIInv
  <2>4. \A q \in Owners : stampCache'[q] = Mac!None \/ \E rows \in SUBSET stamps : stampCache'[q] = Mac!Cached(rows)
    <3> SUFFICES ASSUME NEW q \in Owners
                 PROVE  stampCache'[q] = Mac!None \/ \E rows \in SUBSET stamps : stampCache'[q] = Mac!Cached(rows)
      OBVIOUS
    <3>1. stampCache'[q] = stampCache[q] \/ stampCache'[q] = Mac!Cached(stamps) BY <2>2 DEF MacIInv
    <3> QED BY <3>1 DEF MacIInv
  <2> QED BY <2>1, <2>3, <2>4, <2>6 DEF MacIInv
<1>10. CASE Mac!NewSession
  <2>1. stampCache' = [q \in Owners |-> Mac!None] /\ UNCHANGED <<catalog, stamps, record, subject, levelCache>>
    BY <1>10 DEF Mac!NewSession
  <2> QED BY <2>1 DEF MacIInv
<1>11. CASE UNCHANGED Mac!clearance BY <1>11 DEF Mac!clearance, MacIInv
<1> QED BY <1>1, <1>2, <1>3, <1>4, <1>6, <1>7, <1>8, <1>9, <1>10, <1>11, <1>12 DEF Mac!Next

-----------------------------------------------------------------------------
(* A step that may not open the record.                                     *)

Narrowed == macStep' \in {"stamp", "classify", "read out", "drop level", "invalidate", "source fails", "check", "session"}
Learned == macStep' = "invalidate"
Dropped == macStep' \in {"drop level", "invalidate"}
Failed == macStep' = "source fails"

LEMMA MacHistory ==
    /\ \A o, c, r : Mac!AddLevel(o, c, r) => ~ Narrowed
    /\ \A l : Mac!DropLevel(l) => Dropped
    /\ Mac!Invalidate => Dropped /\ Learned
    /\ \A c : Mac!Assign(c) => ~ Narrowed
    /\ \A m : Mac!ReadIn(m) => ~ Narrowed
    /\ \A how : Mac!SourceFails(how) => Failed
BY DEF Mac!AddLevel, Mac!DropLevel, Mac!Invalidate, Mac!Assign, Mac!ReadIn, Mac!SourceFails, Mac!Edit,
       Narrowed, Dropped, Failed, Learned

\* What a step may open for a subject who is known.
Opened(given) ==
    \/ Dropped /\ Mac!Profile.level = Unlevelled
       /\ \E l \in Mac!Levels \ Mac!Levels' : Mac!Lowest(Mac!RecordOrg(given), l)
    \/ Learned /\ \E l \in Mac!Levels' \ Mac!Levels : l.org = Mac!RecordOrg(given)
    \/ Failed /\ subject.level # Unlevelled
       /\ ~ \E l \in Mac!Levels : l.org = Mac!RecordOrg(given) /\ l.code = subject.level

LEMMA RestrictsIs ==
    Mac!StepRestricts <=>
      \A given \in Owners \cup {NoOwner} :
        /\ Narrowed /\ Mac!mac_allows(TRUE, given)' /\ ~ Mac!mac_allows(TRUE, given) => Opened(given)
        /\ Mac!mac_allows(FALSE, given)' =>
             /\ record'.level = Unlevelled
             /\ \/ \A m \in stamps' : Mac!RecordOrg(given)' # NoOwner /\ m.org # Mac!RecordOrg(given)'
                \/ Mac!RecordOrg(given)' # NoOwner /\ stampCache'[Mac!RecordOrg(given)'].cached
BY DEF Mac!StepRestricts, Opened, Narrowed, Dropped, Learned, Failed

\* What an anonymous subject is shown is neither stamped nor classified.
AnonymousSeesPlain ==
    ClearanceNames /\ MacIInv => \A given \in Owners \cup {NoOwner} :
        Mac!mac_allows(FALSE, given) =>
            /\ record.level = Unlevelled
            /\ \/ \A m \in stamps : Mac!RecordOrg(given) # NoOwner /\ m.org # Mac!RecordOrg(given)
               \/ Mac!RecordOrg(given) # NoOwner /\ stampCache[Mac!RecordOrg(given)].cached

LEMMA AnonymousAlways == []AnonymousSeesPlain
<1>1. AnonymousSeesPlain
  <2> SUFFICES ASSUME ClearanceNames, MacIInv, NEW given \in Owners \cup {NoOwner}, Mac!mac_allows(FALSE, given)
               PROVE  /\ record.level = Unlevelled
                      /\ \/ \A m \in stamps : Mac!RecordOrg(given) # NoOwner /\ m.org # Mac!RecordOrg(given)
                         \/ Mac!RecordOrg(given) # NoOwner /\ stampCache[Mac!RecordOrg(given)].cached
    BY DEF AnonymousSeesPlain
  <2>1. PICK o : o = Mac!RecordOrg(given) OBVIOUS
  <2>2. record.level = Unlevelled /\ Mac!MarksOf(o) = {} BY <2>1 DEF Mac!mac_allows
  <2>3. o \in Owners \cup {NoOwner} BY <2>1 DEF Mac!RecordOrg, MacIInv
  <2>4. CASE ~ record.stored BY <2>2, <2>4 DEF MacIInv
  <2>5. CASE record.stored /\ o # NoOwner /\ ~ stampCache[o].cached
    <3>1. Mac!Markings(o) = {} BY <2>2, <2>5 DEF Mac!MarksOf
    <3>2. StampsOf(stamps, o) = {} BY <2>3, <2>5, <3>1, MarkingsAre
    <3>3. \A m \in stamps : m.org # o BY <3>2 DEF StampsOf
    <3> QED BY <2>1, <2>2, <2>5, <3>3
  <2>6. CASE record.stored /\ o = NoOwner
    <3>1. Mac!AllMarkings = {} BY <2>2, <2>6 DEF Mac!MarksOf
    <3>2. stamps = {} BY <3>1 DEF Mac!AllMarkings
    <3> QED BY <2>2, <3>2
  <2>7. CASE o # NoOwner /\ stampCache[o].cached BY <2>1, <2>2, <2>7
  <2> QED BY <2>4, <2>5, <2>6, <2>7 DEF MacIInv
<1> QED BY <1>1, PTL

\* A stamp leaves every stamp that is seen to be seen.
LEMMA StampsStay ==
  ASSUME MacIInv, NEW q \in Owners, NEW m \in Compartments, NEW here \in BOOLEAN, Mac!Stamp(q, m, here),
         NEW o \in Owners \cup {NoOwner}
  PROVE  Mac!MarksOf(o) \subseteq Mac!MarksOf(o)'
<1>1. stamps \subseteq stamps' /\ record' = record /\ record.stored BY DEF Mac!Stamp
<1>2. CASE o = NoOwner BY <1>1, <1>2 DEF Mac!MarksOf, Mac!AllMarkings
<1>3. CASE o # NoOwner
  <2>1. Mac!MarksOf(o) = Mac!Markings(o) /\ Mac!MarksOf(o)' = Mac!Markings(o)' BY <1>1, <1>3 DEF Mac!MarksOf
  <2>2. CASE stampCache' = stampCache
    <3>1. CASE stampCache[o].cached BY <2>1, <2>2, <3>1 DEF Mac!Markings
    <3>2. CASE ~ stampCache[o].cached
      <4>1. Mac!Markings(o)' = StampsOf(stamps', o) BY <2>2, <3>2 DEF Mac!Markings, StampsOf
      <4> QED BY <1>1, <1>3, <2>1, <4>1, MarkingsAre, MoreStamps
    <3> QED BY <3>1, <3>2
  <2>3. CASE stampCache' = [p \in Owners |-> Mac!None]
    <3>1. ~ stampCache'[o].cached BY <1>3, <2>3 DEF Mac!None
    <3>2. Mac!Markings(o)' = StampsOf(stamps', o) BY <3>1 DEF Mac!Markings, StampsOf
    <3> QED BY <1>1, <1>3, <2>1, <3>2, MarkingsAre, MoreStamps
  <2> QED BY <2>1, <2>2, <2>3 DEF Mac!Stamp
<1> QED BY <1>2, <1>3

\* A new session reads the stamps anew.
LEMMA SessionStays ==
  ASSUME MacIInv, Mac!NewSession, NEW o \in Owners \cup {NoOwner}
  PROVE  Mac!MarksOf(o) \subseteq Mac!MarksOf(o)'
<1>1. stamps' = stamps /\ record' = record /\ stampCache' = [p \in Owners |-> Mac!None] BY DEF Mac!NewSession
<1>2. CASE o = NoOwner \/ ~ record.stored BY <1>1, <1>2 DEF Mac!MarksOf, Mac!AllMarkings
<1>3. CASE o # NoOwner /\ record.stored
  <2>1. Mac!MarksOf(o) = Mac!Markings(o) /\ Mac!MarksOf(o)' = Mac!Markings(o)' BY <1>1, <1>3 DEF Mac!MarksOf
  <2>2. ~ stampCache'[o].cached BY <1>1, <1>3 DEF Mac!None
  <2>3. Mac!Markings(o)' = StampsOf(stamps, o) BY <1>1, <2>2 DEF Mac!Markings, StampsOf
  <2> QED BY <1>3, <2>1, <2>3, MarkingsAre
<1> QED BY <1>2, <1>3 DEF MacIInv

\* A check keeps the stamps it reads.
LEMMA CheckStays ==
  ASSUME MacIInv, NEW q \in Owners, Mac!Check(q), NEW o \in Owners \cup {NoOwner}
  PROVE  Mac!MarksOf(o)' = Mac!MarksOf(o)
<1>1. stamps' = stamps /\ record' = record BY DEF Mac!Check
<1>2. CASE o = NoOwner BY <1>1, <1>2 DEF Mac!MarksOf, Mac!AllMarkings
<1>3. CASE o # NoOwner
  <2>1. \/ stampCache'[o] = stampCache[o]
        \/ ~ stampCache[o].cached /\ stampCache'[o] = Mac!Cached(stamps)
    BY <1>3 DEF Mac!Check, MacIInv
  <2>2. CASE stampCache'[o] = stampCache[o] BY <1>1, <2>2 DEF Mac!MarksOf, Mac!Markings, Mac!AllMarkings
  <2>3. CASE ~ stampCache[o].cached /\ stampCache'[o] = Mac!Cached(stamps)
    BY <1>1, <2>3 DEF Mac!MarksOf, Mac!Markings, Mac!AllMarkings, Mac!Cached
  <2> QED BY <2>1, <2>2, <2>3
<1> QED BY <1>2, <1>3

LEMMA RankOf ==
  ASSUME NEW ranks, Ranked(ranks), NEW a \in ranks
  PROVE  RankIn(ranks, a.code) = a.rank
<1>1. PICK b : b = CHOOSE r \in ranks : r.code = a.code OBVIOUS
<1>2. b \in ranks /\ b.code = a.code BY <1>1
<1>3. b = a BY <1>2 DEF Ranked
<1> QED BY <1>1, <1>3 DEF RankIn

LEMMA LeastRank ==
  ASSUME NEW ranks, Ranked(ranks), ranks # {}
  PROVE  /\ Mac!Least({r.rank : r \in ranks}) \in Nat
         /\ \E a \in ranks : a.rank = Mac!Least({r.rank : r \in ranks})
         /\ \A a \in ranks : Mac!Least({r.rank : r \in ranks}) <= a.rank
<1>1. {r.rank : r \in ranks} \in SUBSET Nat /\ {r.rank : r \in ranks} # {} BY DEF Ranked
<1>2. PICK X : X = {r.rank : r \in ranks} OBVIOUS
<1>3. Mac!Least(X) \in X /\ \A x \in X : Mac!Least(X) <= x BY <1>1, <1>2, LeastIs
<1>4. Mac!Least(X) \in Nat BY <1>1, <1>2, <1>3
<1> QED BY <1>2, <1>3, <1>4

\* Who passes without a level passes with any level of the catalog.
LEMMA AnyLevelPasses ==
  ASSUME NEW ranks, Ranked(ranks), NEW code, NEW own, Above(ranks, code, Unlevelled), \E a \in ranks : a.code = own
  PROVE  Above(ranks, code, own)
<1>1. PICK a \in ranks : a.code = own OBVIOUS
<1>2. PICK b \in ranks : b.code = code BY DEF Above
<1>3. RankIn(ranks, own) = a.rank /\ RankIn(ranks, code) = b.rank BY <1>1, <1>2, RankOf
<1>4. Mac!Least({r.rank : r \in ranks}) >= b.rank BY <1>3 DEF Above
<1>5. /\ Mac!Least({r.rank : r \in ranks}) \in Nat /\ a.rank \in Nat /\ b.rank \in Nat
      /\ Mac!Least({r.rank : r \in ranks}) <= a.rank
  BY <1>1, <1>2, LeastRank DEF Ranked
<1>6. a.rank >= b.rank BY <1>4, <1>5
<1> QED BY <1>1, <1>2, <1>3, <1>4, <1>6 DEF Above

\* Levels struck raise nobody, but for those without a level when the lowest is among them.
LEMMA StruckLevel ==
  ASSUME NEW ranks, Ranked(ranks), NEW rest \in SUBSET ranks, NEW code, NEW own, Above(rest, code, own)
  PROVE  \/ Above(ranks, code, own)
         \/ own = Unlevelled /\ \E l \in ranks \ rest : \A a \in ranks : l.rank <= a.rank
<1>2. rest \subseteq ranks /\ Ranked(rest) BY DEF Ranked
<1>3. PICK b \in rest : b.code = code BY DEF Above
<1>4. RankIn(rest, code) = b.rank /\ RankIn(ranks, code) = b.rank /\ b.rank \in Nat
  BY <1>2, <1>3, RankOf DEF Ranked
<1>5. CASE own # Unlevelled
  <2>1. PICK a \in rest : a.code = own BY <1>5 DEF Above
  <2>2. RankIn(rest, own) = a.rank /\ RankIn(ranks, own) = a.rank BY <1>2, <2>1, RankOf
  <2>3. a.rank >= b.rank BY <1>4, <1>5, <2>2 DEF Above
  <2> QED BY <1>2, <1>3, <1>4, <1>5, <2>1, <2>2, <2>3 DEF Above
<1>6. CASE own = Unlevelled
  <2>1. Mac!Least({r.rank : r \in rest}) >= b.rank BY <1>4, <1>6 DEF Above
  <2>2. /\ Mac!Least({r.rank : r \in rest}) \in Nat
        /\ \A a \in rest : Mac!Least({r.rank : r \in rest}) <= a.rank
    BY <1>2, <1>3, LeastRank
  <2>3. PICK low \in ranks : low.rank = Mac!Least({r.rank : r \in ranks}) BY <1>2, <1>3, LeastRank
  <2>4. \A a \in ranks : low.rank <= a.rank BY <1>2, <1>3, <2>3, LeastRank
  <2>5. low.rank \in Nat BY DEF Ranked
  <2>6. CASE low \notin rest BY <1>6, <2>4, <2>6
  <2>7. CASE low \in rest
    <3>2. low.rank >= b.rank BY <1>4, <2>1, <2>2, <2>5, <2>7
    <3>3. Mac!Least({r.rank : r \in ranks}) >= RankIn(ranks, code) BY <1>4, <2>3, <3>2
    <3>4. \E a \in ranks : a.code = code BY <1>2, <1>3
    <3> QED BY <1>6, <3>3, <3>4 DEF Above
  <2> QED BY <2>6, <2>7
<1> QED BY <1>5, <1>6

-----------------------------------------------------------------------------
LEMMA LevelsRanked ==
  ASSUME ClearanceNames, MacIInv, NEW o
  PROVE  Ranked(RanksOf(Mac!Levels, o))
BY LevelsAre, RanksAre

\* The check of a known subject before and after a step, in terms of what it reads.
LEMMA KnownShown ==
  ASSUME ClearanceNames, MacIInv, MacIInv', NEW given, Mac!RecordOrg(given)' = Mac!RecordOrg(given)
  PROVE  LET o == Mac!RecordOrg(given) IN
         /\ Mac!mac_allows(TRUE, given) <=>
              Shown(TRUE, record.level, Mac!MarksOf(o), Mac!Profile, o, RanksOf(Mac!Levels, o))
         /\ Mac!mac_allows(TRUE, given)' <=>
              Shown(TRUE, record'.level, Mac!MarksOf(o)', Mac!Profile', o, RanksOf(Mac!Levels', o))
<1>1. PICK o : o = Mac!RecordOrg(given) OBVIOUS
<1>2. AllowsAreShown BY AllowsAlwaysAreShown, PTL
<1>3. AllowsAreShown' BY AllowsAlwaysAreShown, PTL
<1>5. Mac!mac_allows(TRUE, given) <=>
        Shown(TRUE, record.level, Mac!MarksOf(o), Mac!Profile, o, RanksOf(Mac!Levels, o))
  BY <1>1, <1>2 DEF AllowsAreShown
<1>6. Mac!mac_allows(TRUE, given)' <=>
        Shown(TRUE, record'.level, Mac!MarksOf(o)', Mac!Profile', o, RanksOf(Mac!Levels', o))
  BY <1>1, <1>3 DEF AllowsAreShown
<1> QED BY <1>1, <1>5, <1>6

\* A record's org is given once: no step changes it, nor whom a caller names.
LEMMA OrgStays ==
  ASSUME MacIInv, [Mac!Next]_(Mac!clearance), NEW given
  PROVE  Mac!RecordOrg(given)' = Mac!RecordOrg(given)
<1>1. CASE record' = record BY <1>1 DEF Mac!RecordOrg
<1>2. ASSUME NEW c, Mac!Classify(c) PROVE record'.org = record.org BY <1>2 DEF Mac!Classify, MacIInv
<1>3. CASE record'.org = record.org BY <1>3 DEF Mac!RecordOrg
<1>4. record' = record \/ \E c \in Ladder : Mac!Classify(c)
  BY DEF Mac!Next, Mac!clearance, Mac!AddLevel, Mac!DropLevel, Mac!Invalidate, Mac!Stamp, Mac!Assign, Mac!ReadIn, Mac!ReadOut,
         Mac!SourceFails, Mac!Check, Mac!NewSession
<1> QED BY <1>1, <1>2, <1>3, <1>4

LEMMA MarksStay ==
  ASSUME NEW o, UNCHANGED <<stamps, stampCache>>, record'.stored = record.stored
  PROVE  Mac!MarksOf(o)' = Mac!MarksOf(o)
BY DEF Mac!MarksOf, Mac!Markings, Mac!AllMarkings

LEMMA NoneOpened ==
  ASSUME ClearanceNames, MacIInv, MacIInv', [Mac!Next]_(Mac!clearance), Narrowed, NEW given \in Owners \cup {NoOwner},
         Mac!mac_allows(TRUE, given)'
  PROVE  Mac!mac_allows(TRUE, given) \/ Opened(given) \/ UNCHANGED Mac!clearance
<1>1. Mac!RecordOrg(given)' = Mac!RecordOrg(given) BY OrgStays
<1>2. PICK o : o = Mac!RecordOrg(given) OBVIOUS
<1>3. o \in Owners \cup {NoOwner} BY <1>2 DEF Mac!RecordOrg, MacIInv
<1>4. /\ Mac!mac_allows(TRUE, given) <=>
           Shown(TRUE, record.level, Mac!MarksOf(o), Mac!Profile, o, RanksOf(Mac!Levels, o))
      /\ Mac!mac_allows(TRUE, given)' <=>
           Shown(TRUE, record'.level, Mac!MarksOf(o)', Mac!Profile', o, RanksOf(Mac!Levels', o))
  BY <1>1, <1>2, KnownShown
<1>5. Shown(TRUE, record'.level, Mac!MarksOf(o)', Mac!Profile', o, RanksOf(Mac!Levels', o)) BY <1>4
<1>6. SUFFICES ASSUME ~ UNCHANGED Mac!clearance
               PROVE  Shown(TRUE, record.level, Mac!MarksOf(o), Mac!Profile, o, RanksOf(Mac!Levels, o)) \/ Opened(given)
  BY <1>4
<1>7. Ranked(RanksOf(Mac!Levels, o)) BY LevelsRanked
<1>8. ASSUME NEW q \in Owners, NEW m \in Compartments, NEW here \in BOOLEAN, Mac!Stamp(q, m, here)
      PROVE  Shown(TRUE, record.level, Mac!MarksOf(o), Mac!Profile, o, RanksOf(Mac!Levels, o))
  <2>1. Mac!MarksOf(o) \subseteq Mac!MarksOf(o)' BY <1>3, <1>8, StampsStay
  <2>2. record' = record /\ Mac!Levels' = Mac!Levels /\ Mac!Profile' = Mac!Profile
    BY <1>8 DEF Mac!Stamp, Mac!Profile, Mac!Levels
  <2> QED BY <1>5, <2>1, <2>2, FewerMarks
<1>9. ASSUME NEW c \in Ladder, Mac!Classify(c)
      PROVE  Shown(TRUE, record.level, Mac!MarksOf(o), Mac!Profile, o, RanksOf(Mac!Levels, o))
  <2>1. record.level = Unlevelled /\ record'.stored = record.stored BY <1>9 DEF Mac!Classify, MacIInv
  <2>2. Mac!MarksOf(o)' = Mac!MarksOf(o) BY <1>9, <2>1, MarksStay DEF Mac!Classify
  <2>3. Mac!Profile' = Mac!Profile /\ Mac!Levels' = Mac!Levels BY <1>9 DEF Mac!Classify, Mac!Profile, Mac!Levels
  <2> QED BY <1>5, <2>1, <2>2, <2>3 DEF Shown
<1>10. ASSUME NEW m \in Compartments, Mac!ReadOut(m)
       PROVE  Shown(TRUE, record.level, Mac!MarksOf(o), Mac!Profile, o, RanksOf(Mac!Levels, o))
  <2>1. Mac!MarksOf(o)' = Mac!MarksOf(o) BY <1>10, MarksStay DEF Mac!ReadOut
  <2>2. record' = record /\ Mac!Levels' = Mac!Levels BY <1>10 DEF Mac!ReadOut, Mac!Levels
  <2>3. subject' = [subject EXCEPT !.marks = @ \ {m}] /\ source' = source BY <1>10 DEF Mac!ReadOut
  <2>4. subject'.level = subject.level /\ subject'.marks \subseteq subject.marks BY <2>3 DEF MacIInv
  <2>5. Mac!Profile'.level = Mac!Profile.level /\ Mac!Profile'.marks \subseteq Mac!Profile.marks
    BY <2>3, <2>4 DEF Mac!Profile
  <2> QED BY <1>5, <2>1, <2>2, <2>5 DEF Shown
<1>11. ASSUME NEW how \in {"none", "raises"}, Mac!SourceFails(how)
       PROVE  Shown(TRUE, record.level, Mac!MarksOf(o), Mac!Profile, o, RanksOf(Mac!Levels, o)) \/ Opened(given)
  <2>1. Mac!MarksOf(o)' = Mac!MarksOf(o) BY <1>11, MarksStay DEF Mac!SourceFails
  <2>2. record' = record /\ Mac!Levels' = Mac!Levels BY <1>11 DEF Mac!SourceFails, Mac!Levels
  <2>3. Mac!Profile = subject /\ Mac!Profile'.level = Unlevelled /\ Mac!Profile'.marks = {}
    BY <1>11 DEF Mac!SourceFails, Mac!Profile
  <2>4. CASE record.level = Unlevelled /\ Mac!MarksOf(o) = {} BY <2>4 DEF Shown
  <2>5. CASE Mac!MarksOf(o) = {} /\ record.level # Unlevelled
    <3>1. o # NoOwner /\ Above(RanksOf(Mac!Levels, o), record.level, Unlevelled)
      BY <1>5, <2>2, <2>3, <2>5 DEF Shown
    <3>2. CASE subject.level = Unlevelled BY <2>3, <2>5, <3>1, <3>2 DEF Shown
    <3>3. CASE \E a \in RanksOf(Mac!Levels, o) : a.code = subject.level
      <4>1. Above(RanksOf(Mac!Levels, o), record.level, subject.level) BY <1>7, <3>1, <3>3, AnyLevelPasses
      <4> QED BY <2>3, <2>5, <3>1, <4>1 DEF Shown
    <3>4. CASE subject.level # Unlevelled /\ ~ \E a \in RanksOf(Mac!Levels, o) : a.code = subject.level
      <4>1. ~ \E a \in Mac!Levels : a.org = o /\ a.code = subject.level BY <3>4 DEF RanksOf
      <4>2. Failed BY <1>11, MacHistory
      <4> QED BY <1>2, <3>4, <4>1, <4>2 DEF Opened
    <3> QED BY <3>2, <3>3, <3>4
  <2> QED BY <1>5, <2>1, <2>2, <2>3, <2>4, <2>5 DEF Shown
<1>12. ASSUME UNCHANGED <<stamps, record, subject, source, stampCache>>,
              Mac!Levels' \subseteq Mac!Levels \/ ~ \E l \in Mac!Levels' \ Mac!Levels : l.org = o, Dropped
       PROVE  Shown(TRUE, record.level, Mac!MarksOf(o), Mac!Profile, o, RanksOf(Mac!Levels, o)) \/ Opened(given)
  <2>1. Mac!MarksOf(o)' = Mac!MarksOf(o) BY <1>12, MarksStay
  <2>2. record' = record /\ Mac!Profile' = Mac!Profile BY <1>12 DEF Mac!Profile
  <2>3. PICK ranks, rest, own : ranks = RanksOf(Mac!Levels, o) /\ rest = RanksOf(Mac!Levels', o) /\ own = Mac!Profile.level
    OBVIOUS
  <2>4. rest \in SUBSET ranks BY <1>12, <2>3 DEF RanksOf
  <2>5. CASE record.level = Unlevelled BY <1>5, <2>1, <2>2, <2>5 DEF Shown
  <2>6. CASE record.level # Unlevelled
    <3>1. Mac!MarksOf(o) \subseteq Mac!Profile.marks /\ o # NoOwner /\ Above(rest, record.level, own)
      BY <1>5, <2>1, <2>2, <2>3, <2>6 DEF Shown
    <3>2. CASE Above(ranks, record.level, own) BY <2>3, <3>1, <3>2 DEF Shown
    <3>3. CASE own = Unlevelled /\ \E l \in ranks \ rest : \A a \in ranks : l.rank <= a.rank
      <4>1. PICK l \in ranks \ rest : \A a \in ranks : l.rank <= a.rank BY <3>3
      <4>2. Mac!Lowest(o, l) BY <2>3, <4>1 DEF Mac!Lowest, RanksOf
      <4>3. l \in Mac!Levels \ Mac!Levels' BY <2>3, <4>1 DEF RanksOf
      <4> QED BY <1>2, <1>12, <2>3, <3>3, <4>2, <4>3 DEF Opened
    <3>4. Ranked(ranks) BY <1>7, <2>3
    <3>5. \/ Above(ranks, record.level, own)
          \/ own = Unlevelled /\ \E l \in ranks \ rest : \A a \in ranks : l.rank <= a.rank
      BY <2>4, <3>1, <3>4, StruckLevel
    <3> QED BY <3>2, <3>3, <3>5
  <2> QED BY <2>5, <2>6
<1>13. ASSUME NEW l \in catalog, Mac!DropLevel(l)
       PROVE  Shown(TRUE, record.level, Mac!MarksOf(o), Mac!Profile, o, RanksOf(Mac!Levels, o)) \/ Opened(given)
  <2>1. UNCHANGED <<stamps, record, subject, source, stampCache, levelCache>> /\ catalog' = catalog \ {l}
    BY <1>13 DEF Mac!DropLevel
  <2>2. Mac!Levels' \subseteq Mac!Levels BY <2>1 DEF Mac!Levels
  <2> QED BY <1>12, <1>13, <2>1, <2>2, MacHistory
<1>14. ASSUME Mac!Invalidate
       PROVE  Shown(TRUE, record.level, Mac!MarksOf(o), Mac!Profile, o, RanksOf(Mac!Levels, o)) \/ Opened(given)
  <2>1. UNCHANGED <<stamps, record, subject, source, stampCache>> BY <1>14 DEF Mac!Invalidate
  <2>2. CASE \E l \in Mac!Levels' \ Mac!Levels : l.org = o BY <1>2, <1>14, <2>2, MacHistory DEF Opened
  <2>3. CASE ~ \E l \in Mac!Levels' \ Mac!Levels : l.org = o BY <1>12, <1>14, <2>1, <2>3, MacHistory
  <2> QED BY <2>2, <2>3
<1>15. ASSUME NEW q \in Owners, Mac!Check(q)
       PROVE  Shown(TRUE, record.level, Mac!MarksOf(o), Mac!Profile, o, RanksOf(Mac!Levels, o))
  <2>1. Mac!MarksOf(o)' = Mac!MarksOf(o) BY <1>3, <1>15, CheckStays
  <2>2. record' = record /\ Mac!Profile' = Mac!Profile /\ levelCache' = Mac!Cached(Mac!Levels)
    BY <1>15 DEF Mac!Check, Mac!Profile
  <2>3. Mac!Levels' = Mac!Levels BY <2>2 DEF Mac!Levels, Mac!Cached
  <2> QED BY <1>5, <2>1, <2>2, <2>3
<1>16. CASE Mac!NewSession
  <2>1. Mac!MarksOf(o) \subseteq Mac!MarksOf(o)' BY <1>3, <1>16, SessionStays
  <2>2. record' = record /\ Mac!Levels' = Mac!Levels /\ Mac!Profile' = Mac!Profile
    BY <1>16 DEF Mac!NewSession, Mac!Profile, Mac!Levels
  <2> QED BY <1>5, <2>1, <2>2, FewerMarks
<1> QED BY <1>6, <1>8, <1>9, <1>10, <1>11, <1>13, <1>14, <1>15, <1>16, MacHistory DEF Mac!Next

LEMMA MacRestricts ==
  ASSUME ClearanceNames, MacIInv, [Mac!Next]_(Mac!clearance)
  PROVE  Mac!StepRestricts
<1>1. MacIInv' BY MacStepIInv
<1>2. AnonymousSeesPlain' BY AnonymousAlways, PTL
<1>3. ASSUME NEW given \in Owners \cup {NoOwner}, Narrowed, Mac!mac_allows(TRUE, given)', ~ Mac!mac_allows(TRUE, given)
      PROVE  Opened(given)
  <2>1. CASE UNCHANGED Mac!clearance
    <3>1. Mac!mac_allows(TRUE, given)' <=> Mac!mac_allows(TRUE, given)
      BY <2>1 DEF Mac!clearance, Mac!mac_allows, Mac!RecordOrg, Mac!MarksOf, Mac!Markings, Mac!AllMarkings, Mac!Profile,
                  Mac!Outranks, Mac!Levels
    <3> QED BY <1>3, <3>1
  <2> QED BY <1>1, <1>3, <2>1, NoneOpened
<1> QED BY <1>1, <1>2, <1>3, RestrictsIs DEF AnonymousSeesPlain

-----------------------------------------------------------------------------
(* The search index.                                                         *)

LEMMA IndexCounts == \A X : Search!Cardinality(X) = Cardinality(X)
  BY DEF Search!Cardinality, Cardinality, Search!IsFiniteSet, IsFiniteSet

NewDoc(n, s, c) == [id |-> n, source |-> s, content |-> c, vector |-> Absent]

\* Documents with ids up to n, at most one a source, no id twice, and no vector of another text.
DocsSound(ds, n) ==
    /\ \A d \in ds : /\ d = [id |-> d.id, source |-> d.source, content |-> d.content, vector |-> d.vector]
                     /\ d.id \in 1..n /\ d.source \in Sources
                     /\ d.vector # Absent => d.vector.of = d.content
    /\ \A d, e \in ds : d.id = e.id \/ d.source = e.source => d = e

\* What is committed, and what the open rebuild has made.
WrittenSound(ds, mk, n) ==
    /\ n \in Nat /\ DocsSound(ds, n) /\ DocsSound(mk, n)
    /\ \A d \in ds, m \in mk : d.id # m.id

\* A sweep has read, or is about to write, vectors of texts that their ids keep.
SweepSound(w, ds, mk, n) ==
    /\ \A b \in w.batch : b.id \in 1..n /\ \A d \in ds \cup mk : d.id = b.id => d.content = b.content
    /\ \A v \in w.set : v.id \in 1..n /\ \A d \in ds \cup mk : d.id = v.id => d.content = v.vector.of

\* The sources in a say what their documents say.
Follows(ds, t, a) ==
    \A s \in Sources \ a : /\ \A d \in ds : d.source = s => d.content = t[s] /\ t[s] # Blank
                           /\ t[s] # Blank => \E d \in ds : d.source = s

\* An open rebuild: what it has made of the sources it is done with is what it had read of them;
\* documents it has not doomed are of sources written since, and it has made none of those.
BuildSound(b, ds, t) ==
    /\ ~ b.open => b = Search!NoBuild
    /\ b = [open |-> b.open, doomed |-> b.doomed, read |-> b.read, done |-> b.done, made |-> b.made]
    /\ b.open \in BOOLEAN /\ b.done \subseteq Sources
    /\ \A m \in b.made : m.source \in b.done
    /\ \A e, f \in b.read : e.source = f.source => e = f
    /\ \A e \in b.read : e.source \in Sources
    /\ \A s \in b.done : \E e \in b.read : e.source = s
    /\ b.read # {} => \A s \in Sources : \E e \in b.read : e.source = s
    /\ \A e \in b.read : e.source \in b.done =>
          /\ \A m \in b.made : m.source = e.source => m.content = e.content /\ e.content # Blank
          /\ e.content # Blank => \E m \in b.made : m.source = e.source
    /\ \A d \in ds : d.id \notin b.doomed /\ d.source \in b.done =>
          /\ d.content = t[d.source] /\ t[d.source] # Blank
          /\ \A m \in b.made : m.source # d.source

AsksSound ==
    /\ model = [r \in Pods |-> model[r]] /\ asking = [r \in Pods |-> asking[r]]
    /\ remembered = [r \in Pods |-> remembered[r]]
    /\ \A r \in Pods : asking[r] \in {Absent, model[r]} /\ remembered[r] \in {Absent, model[r]}

IndexIInv ==
    /\ text = [s \in Sources |-> text[s]] /\ sweep = [r \in Pods |-> sweep[r]]
    /\ WrittenSound(docs, rebuilt.made, lastId)
    /\ \A r \in Pods : SweepSound(sweep[r], docs, rebuilt.made, lastId)
    /\ BuildSound(rebuilt, docs, text)
    /\ Follows(docs, text, adrift)
    /\ AsksSound

LEMMA IndexInitIInv == Search!Init => IndexIInv
<1> SUFFICES ASSUME Search!Init PROVE IndexIInv OBVIOUS
<1>1. docs = {} /\ lastId = 0 /\ rebuilt = Search!NoBuild /\ adrift = {s \in Sources : text[s] # Blank}
      /\ text = [s \in Sources |-> text[s]]
  BY DEF Search!Init
<1>2. rebuilt = [open |-> FALSE, doomed |-> {}, read |-> {}, done |-> {}, made |-> {}] BY <1>1 DEF Search!NoBuild
<1>3. WrittenSound(docs, rebuilt.made, lastId) BY <1>1, <1>2 DEF WrittenSound, DocsSound
<1>4. sweep = [r \in Pods |-> [open |-> FALSE, batch |-> {}, set |-> {}]] BY DEF Search!Init, Search!Idle
<1>5. \A r \in Pods : SweepSound(sweep[r], docs, rebuilt.made, lastId) BY <1>4 DEF SweepSound
<1>6. BuildSound(rebuilt, docs, text) BY <1>1, <1>2 DEF BuildSound
<1>7. Follows(docs, text, adrift) BY <1>1 DEF Follows
<1>8. AsksSound BY DEF AsksSound, Search!Init
<1> QED BY <1>1, <1>3, <1>4, <1>5, <1>6, <1>7, <1>8 DEF IndexIInv

\* A sweep is right about documents that are the old ones or have a new id.
LEMMA SweepOnward ==
  ASSUME NEW n \in Nat, NEW n2 \in Nat, n <= n2, NEW ds, NEW mk, NEW ds2, NEW mk2,
         \A x \in ds2 \cup mk2 : x.id > n \/ \E y \in ds \cup mk : y.id = x.id /\ y.content = x.content,
         NEW w, SweepSound(w, ds, mk, n)
  PROVE  SweepSound(w, ds2, mk2, n2)
<1>1. ASSUME NEW b \in w.batch PROVE b.id \in 1..n2 /\ \A d \in ds2 \cup mk2 : d.id = b.id => d.content = b.content
  <2>1. b.id \in 1..n /\ \A d \in ds \cup mk : d.id = b.id => d.content = b.content BY DEF SweepSound
  <2> QED BY <2>1
<1>2. ASSUME NEW v \in w.set PROVE v.id \in 1..n2 /\ \A d \in ds2 \cup mk2 : d.id = v.id => d.content = v.vector.of
  <2>1. v.id \in 1..n /\ \A d \in ds \cup mk : d.id = v.id => d.content = v.vector.of BY DEF SweepSound
  <2> QED BY <2>1
<1> QED BY <1>1, <1>2 DEF SweepSound

LEMMA ReplacedIs ==
  ASSUME NEW ds, NEW s, NEW c
  PROVE  \A x : x \in Search!Replaced(ds, s, c)
                  <=> \/ x \in ds /\ x.source # s
                      \/ c # Blank /\ x = NewDoc(lastId + 1, s, c)
BY DEF Search!Replaced, Search!DocsOf, NewDoc

LEMMA NewDocIs ==
  ASSUME NEW n, NEW s, NEW c
  PROVE  NewDoc(n, s, c).id = n /\ NewDoc(n, s, c).source = s /\ NewDoc(n, s, c).content = c
         /\ NewDoc(n, s, c).vector = Absent
         /\ NewDoc(n, s, c) = [id |-> n, source |-> s, content |-> c, vector |-> Absent]
BY DEF NewDoc

\* The documents after an upsert are sound, and those made beside them still are.
LEMMA ReplacedSound ==
  ASSUME NEW n \in Nat, NEW ds, NEW mk, WrittenSound(ds, mk, n), NEW s \in Sources, NEW c, NEW ds2,
         \A x : x \in ds2 <=> \/ x \in ds /\ x.source # s
                              \/ c # Blank /\ x = NewDoc(n + 1, s, c)
  PROVE  /\ WrittenSound(ds2, mk, n + 1)
         /\ \A x \in ds2 \cup mk : x.id > n \/ \E y \in ds \cup mk : y.id = x.id /\ y.content = x.content
<1>1. DocsSound(ds, n) /\ DocsSound(mk, n) /\ \A d \in ds, m \in mk : d.id # m.id BY DEF WrittenSound
<1>2. PICK new : new = NewDoc(n + 1, s, c) OBVIOUS
<1>3. new.id = n + 1 /\ new.source = s /\ new.content = c /\ new.vector = Absent
      /\ new = [id |-> new.id, source |-> new.source, content |-> new.content, vector |-> new.vector]
  BY <1>2, NewDocIs
<1>4. \A x \in ds2 : x = new \/ (x \in ds /\ x.source # s) BY <1>2
<1>5. DocsSound(mk, n + 1) BY <1>1 DEF DocsSound
<1>6. \A x \in ds \cup mk : x.id \in 1..n BY <1>1 DEF DocsSound
<1>7. DocsSound(ds2, n + 1)
  <2>1. ASSUME NEW d \in ds2
        PROVE  /\ d = [id |-> d.id, source |-> d.source, content |-> d.content, vector |-> d.vector]
               /\ d.id \in 1..(n + 1) /\ d.source \in Sources
               /\ d.vector # Absent => d.vector.of = d.content
    <3>1. CASE d = new BY <1>3, <3>1
    <3>2. CASE d \in ds BY <1>1, <3>2 DEF DocsSound
    <3> QED BY <1>4, <3>1, <3>2
  <2>2. ASSUME NEW d \in ds2, NEW e \in ds2, d.id = e.id \/ d.source = e.source PROVE d = e
    <3>1. CASE d \in ds /\ e \in ds BY <1>1, <2>2, <3>1 DEF DocsSound
    <3>2. CASE d = new /\ e \in ds /\ e.source # s BY <1>3, <1>6, <2>2, <3>2
    <3>3. CASE e = new /\ d \in ds /\ d.source # s BY <1>3, <1>6, <2>2, <3>3
    <3> QED BY <1>4, <3>1, <3>2, <3>3
  <2> QED BY <2>1, <2>2 DEF DocsSound
<1>8. \A d \in ds2, m \in mk : d.id # m.id BY <1>1, <1>3, <1>4, <1>6
<1>9. \A x \in ds2 \cup mk : x.id > n \/ \E y \in ds \cup mk : y.id = x.id /\ y.content = x.content
  BY <1>3, <1>4
<1> QED BY <1>5, <1>7, <1>8, <1>9 DEF WrittenSound

\* An upsert that commits with its source's text.
LEMMA UpsertKeeps ==
  ASSUME IndexIInv, NEW s \in Sources, NEW c, ~ Search!Contested(s, c),
         text' = [text EXCEPT ![s] = c], docs' = Search!Replaced(docs, s, c), lastId' = lastId + 1,
         adrift' = IF rebuilt.open THEN adrift \cup {s} ELSE adrift \ {s},
         UNCHANGED <<rebuilt, model, sweep, asking, remembered>>
  PROVE  IndexIInv'
<1>1. WrittenSound(docs, rebuilt.made, lastId) /\ lastId \in Nat BY DEF IndexIInv, WrittenSound
<1>2. \A x : x \in docs' <=> \/ x \in docs /\ x.source # s
                             \/ c # Blank /\ x = NewDoc(lastId + 1, s, c)
  BY ReplacedIs
<1>3. /\ WrittenSound(docs', rebuilt.made, lastId + 1)
      /\ \A x \in docs' \cup rebuilt.made :
            x.id > lastId \/ \E y \in docs \cup rebuilt.made : y.id = x.id /\ y.content = x.content
  BY <1>1, <1>2, ReplacedSound
<1>4. ASSUME NEW r \in Pods PROVE SweepSound(sweep[r], docs', rebuilt.made, lastId + 1)
  <2>1. SweepSound(sweep[r], docs, rebuilt.made, lastId) BY DEF IndexIInv
  <2>2. lastId + 1 \in Nat /\ lastId <= lastId + 1 BY <1>1
  <2> QED BY <1>1, <1>3, <2>1, <2>2, SweepOnward
<1>5. text' = [x \in Sources |-> text'[x]] /\ \A x \in Sources : text'[x] = IF x = s THEN c ELSE text[x]
  BY DEF IndexIInv
<1>6. PICK new : new = NewDoc(lastId + 1, s, c) OBVIOUS
<1>7. new.source = s /\ new.content = c BY <1>6, NewDocIs
<1>8. \A d \in docs' : d.source \in Sources /\ ((d.source # s /\ d \in docs) \/ (d.source = s /\ d.content = c /\ c # Blank))
  BY <1>2, <1>3, <1>6, <1>7 DEF WrittenSound, DocsSound
<1>9. \A d \in docs : d.source # s => d \in docs' BY <1>2
<1>10. c # Blank => \E d \in docs' : d.source = s BY <1>2, <1>6, <1>7
<1>11. Follows(docs', text', adrift')
  <2> SUFFICES ASSUME NEW x \in Sources \ adrift'
               PROVE  /\ \A d \in docs' : d.source = x => d.content = text'[x] /\ text'[x] # Blank
                      /\ text'[x] # Blank => \E d \in docs' : d.source = x
    BY DEF Follows
  <2>1. CASE x = s BY <1>5, <1>8, <1>10, <2>1
  <2>2. CASE x # s
    <3>1. x \in Sources \ adrift /\ text'[x] = text[x] BY <1>5, <2>2
    <3>2. /\ \A d \in docs : d.source = x => d.content = text[x] /\ text[x] # Blank
          /\ text[x] # Blank => \E d \in docs : d.source = x
      BY <3>1 DEF IndexIInv, Follows
    <3> QED BY <1>8, <1>9, <2>2, <3>1, <3>2
  <2> QED BY <2>1, <2>2
<1>12. BuildSound(rebuilt, docs', text')
  <2>1. BuildSound(rebuilt, docs, text) BY DEF IndexIInv
  <2>2. ASSUME NEW d \in docs', d.id \notin rebuilt.doomed, d.source \in rebuilt.done
        PROVE  /\ d.content = text'[d.source] /\ text'[d.source] # Blank
               /\ \A m \in rebuilt.made : m.source # d.source
    <3>1. CASE d.source # s /\ d \in docs
      <4>1. /\ d.content = text[d.source] /\ text[d.source] # Blank
            /\ \A m \in rebuilt.made : m.source # d.source
        BY <2>1, <2>2, <3>1 DEF BuildSound
      <4> QED BY <1>5, <1>8, <3>1, <4>1
    <3>2. CASE d.source = s /\ d.content = c /\ c # Blank
      <4>1. rebuilt.open
        <5>1. rebuilt.done # {} BY <2>2
        <5>2. Search!NoBuild.done = {} BY DEF Search!NoBuild
        <5> QED BY <2>1, <5>1, <5>2 DEF BuildSound
      <4>2. \A m \in rebuilt.made : m.source # s BY <3>2, <4>1 DEF Search!Contested, Search!DocsOf
      <4> QED BY <1>5, <3>2, <4>2
    <3> QED BY <1>8, <3>1, <3>2
  <2> QED BY <2>1, <2>2 DEF BuildSound
<1>13. AsksSound' BY DEF AsksSound, IndexIInv
<1>14. sweep' = [r \in Pods |-> sweep'[r]] BY DEF IndexIInv
<1> QED BY <1>3, <1>4, <1>5, <1>11, <1>12, <1>13, <1>14 DEF IndexIInv

LEMMA WriteKeeps ==
  ASSUME IndexIInv, NEW s \in Sources, NEW c, Search!Write(s, c)
  PROVE  IndexIInv'
<1>1. CASE Search!Contested(s, c)
  <2>1. UNCHANGED <<text, docs, lastId, adrift, rebuilt, model, sweep, asking, remembered>> BY <1>1 DEF Search!Write
  <2> QED BY <2>1 DEF IndexIInv, AsksSound
<1>2. CASE ~ Search!Contested(s, c)
  <2>1. /\ text' = [text EXCEPT ![s] = c] /\ docs' = Search!Replaced(docs, s, c) /\ lastId' = lastId + 1
        /\ adrift' = IF rebuilt.open THEN adrift \cup {s} ELSE adrift \ {s}
        /\ UNCHANGED <<rebuilt, model, sweep, asking, remembered>>
    BY <1>2 DEF Search!Write
  <2> QED BY <1>2, <2>1, UpsertKeeps
<1> QED BY <1>1, <1>2

LEMMA ResumeKeeps ==
  ASSUME IndexIInv, NEW s \in Sources, Search!Resume(s)
  PROVE  IndexIInv'
<1>1. PICK c : c = blocked[s].content OBVIOUS
<1>2. ~ rebuilt.open /\ UNCHANGED <<rebuilt, model, sweep, asking, remembered>> BY DEF Search!Resume
<1>3. \/ /\ text' = [text EXCEPT ![s] = c] /\ docs' = Search!Replaced(docs, s, c) /\ lastId' = lastId + 1
         /\ adrift' = adrift \ {s}
      \/ text' = [text EXCEPT ![s] = c] /\ adrift' = adrift \cup {s} /\ UNCHANGED <<docs, lastId>>
      \/ UNCHANGED <<text, docs, lastId, adrift>>
  BY <1>1 DEF Search!Resume
<1>4. CASE /\ text' = [text EXCEPT ![s] = c] /\ docs' = Search!Replaced(docs, s, c) /\ lastId' = lastId + 1
           /\ adrift' = adrift \ {s}
  <2>1. ~ Search!Contested(s, c) BY <1>2 DEF Search!Contested
  <2> QED BY <1>2, <1>4, <2>1, UpsertKeeps
<1>5. CASE text' = [text EXCEPT ![s] = c] /\ adrift' = adrift \cup {s} /\ UNCHANGED <<docs, lastId>>
  <2>1. text' = [x \in Sources |-> text'[x]] /\ \A x \in Sources : x # s => text'[x] = text[x]
    BY <1>5 DEF IndexIInv
  <2>2. Follows(docs, text, adrift) BY DEF IndexIInv
  <2>3. Follows(docs, text', adrift')
    <3> SUFFICES ASSUME NEW x \in Sources \ adrift'
                 PROVE  /\ \A d \in docs : d.source = x => d.content = text'[x] /\ text'[x] # Blank
                        /\ text'[x] # Blank => \E d \in docs : d.source = x
      BY DEF Follows
    <3>1. x \in Sources \ adrift /\ text'[x] = text[x] BY <1>5, <2>1
    <3> QED BY <2>2, <3>1 DEF Follows
  <2>4. BuildSound(rebuilt, docs, text')
    <3>1. BuildSound(rebuilt, docs, text) BY DEF IndexIInv
    <3>2. rebuilt = Search!NoBuild /\ Search!NoBuild.done = {} BY <1>2, <3>1 DEF BuildSound, Search!NoBuild
    <3>3. rebuilt.done = {} BY <3>2
    <3> QED BY <3>1, <3>3 DEF BuildSound
  <2> QED BY <1>2, <1>5, <2>1, <2>3, <2>4 DEF IndexIInv, AsksSound
<1>6. CASE UNCHANGED <<text, docs, lastId, adrift>> BY <1>2, <1>6 DEF IndexIInv, AsksSound
<1> QED BY <1>3, <1>4, <1>5, <1>6

\* A build that has made nothing and is done with nothing.
LEMMA BarelyBuilt ==
  ASSUME NEW o \in BOOLEAN, NEW dm, NEW rd, o \/ (dm = {} /\ rd = {}), NEW ds, NEW t,
         \A e, f \in rd : e.source = f.source => e = f,
         \A e \in rd : e.source \in Sources,
         rd # {} => \A s \in Sources : \E e \in rd : e.source = s
  PROVE  BuildSound([open |-> o, doomed |-> dm, read |-> rd, done |-> {}, made |-> {}], ds, t)
<1>1. PICK b : b = [open |-> o, doomed |-> dm, read |-> rd, done |-> {}, made |-> {}] OBVIOUS
<1>2. b.open = o /\ b.doomed = dm /\ b.read = rd /\ b.done = {} /\ b.made = {} BY <1>1
<1>3. ~ b.open => b = Search!NoBuild BY <1>1, <1>2 DEF Search!NoBuild
<1> QED BY <1>1, <1>2, <1>3 DEF BuildSound

\* A rebuild that begins, ends or reads has made nothing by then.
LEMMA MadeNothing ==
  ASSUME IndexIInv, NEW b, BuildSound(b, docs, text), b.made = {}, rebuilt' = b,
         UNCHANGED <<text, docs, lastId, model, sweep, asking, remembered, adrift>>
  PROVE  IndexIInv'
<1>1. WrittenSound(docs, rebuilt.made, lastId) /\ lastId \in Nat BY DEF IndexIInv, WrittenSound
<1>2. WrittenSound(docs, {}, lastId) BY <1>1 DEF WrittenSound, DocsSound
<1>3. ASSUME NEW r \in Pods PROVE SweepSound(sweep[r], docs, {}, lastId) BY DEF IndexIInv, SweepSound
<1> QED BY <1>2, <1>3 DEF IndexIInv, AsksSound

LEMMA RebuildKeeps ==
  ASSUME IndexIInv, Search!Rebuild \/ Search!Extract \/ Search!BuildFails
  PROVE  IndexIInv'
<1>1. UNCHANGED <<text, docs, lastId, model, sweep, asking, remembered, adrift>>
  BY DEF Search!Rebuild, Search!Extract, Search!BuildFails
<1>2. CASE Search!Rebuild
  <2>1. PICK dm : dm = {d.id : d \in docs} OBVIOUS
  <2>2. rebuilt' = [open |-> TRUE, doomed |-> dm, read |-> {}, done |-> {}, made |-> {}]
    BY <1>2, <2>1 DEF Search!Rebuild
  <2>3. BuildSound(rebuilt', docs, text) BY <2>2, BarelyBuilt
  <2>4. rebuilt'.made = {} BY <2>2
  <2> QED BY <1>1, <2>3, <2>4, MadeNothing
<1>3. CASE Search!BuildFails
  <2>1. rebuilt' = [open |-> FALSE, doomed |-> {}, read |-> {}, done |-> {}, made |-> {}]
    BY <1>3 DEF Search!BuildFails, Search!NoBuild
  <2>3. BuildSound(rebuilt', docs, text) BY <2>1, BarelyBuilt
  <2>4. rebuilt'.made = {} BY <2>1
  <2> QED BY <1>1, <2>3, <2>4, MadeNothing
<1>4. CASE Search!Extract
  <2>1. PICK rd : rd = {[source |-> s, content |-> text[s]] : s \in Sources} OBVIOUS
  <2>2. rebuilt.open /\ rebuilt.read = {} /\ rebuilt' = [rebuilt EXCEPT !.read = rd] BY <1>4, <2>1 DEF Search!Extract
  <2>3. BuildSound(rebuilt, docs, text) BY DEF IndexIInv
  <2>4. rebuilt.done = {} /\ rebuilt.made = {} BY <2>2, <2>3 DEF BuildSound
  <2>5. PICK dm : rebuilt = [open |-> TRUE, doomed |-> dm, read |-> {}, done |-> {}, made |-> {}]
    <3>1. rebuilt = [open |-> rebuilt.open, doomed |-> rebuilt.doomed, read |-> rebuilt.read, done |-> rebuilt.done,
                     made |-> rebuilt.made]
      BY <2>3 DEF BuildSound
    <3>2. rebuilt.open = TRUE
      <4>1. rebuilt.open \in BOOLEAN BY <2>3 DEF BuildSound
      <4> QED BY <2>2, <4>1
    <3> QED BY <2>2, <2>4, <3>1, <3>2
  <2>6. rebuilt' = [open |-> TRUE, doomed |-> dm, read |-> rd, done |-> {}, made |-> {}] BY <2>2, <2>5
  <2>7. /\ \A e, f \in rd : e.source = f.source => e = f
        /\ \A e \in rd : e.source \in Sources
        /\ \A s \in Sources : \E e \in rd : e.source = s
    <3> DEFINE row(s) == [source |-> s, content |-> text[s]]
    <3>1. rd = {row(s) : s \in Sources} BY <2>1
    <3>2. \A s : row(s).source = s OBVIOUS
    <3> HIDE DEF row
    <3> QED BY <3>1, <3>2
  <2>8. BuildSound(rebuilt', docs, text) BY <2>6, <2>7, BarelyBuilt
  <2>9. rebuilt'.made = {} BY <2>6
  <2> QED BY <1>1, <2>8, <2>9, MadeNothing
<1> QED BY <1>2, <1>3, <1>4

\* One source derived again, from what was read of it.
LEMMA DeriveKeeps ==
  ASSUME IndexIInv, NEW e \in rebuilt.read, Search!Derive(e)
  PROVE  IndexIInv'
<1>1. BuildSound(rebuilt, docs, text) /\ WrittenSound(docs, rebuilt.made, lastId) /\ lastId \in Nat
  BY DEF IndexIInv, WrittenSound
<1>2. PICK s, c : s = e.source /\ c = e.content OBVIOUS
<1>3. s \in Sources /\ s \notin rebuilt.done /\ rebuilt.open BY <1>1, <1>2 DEF Search!Derive, BuildSound
<1>4. PICK dm : dm = rebuilt.doomed \cup {d.id : d \in Search!DocsOf(s, docs)} OBVIOUS
<1>5. PICK mk : mk = rebuilt.made \cup Search!Replaced({}, s, c) OBVIOUS
<1>6. rebuilt' = [rebuilt EXCEPT !.doomed = dm, !.done = @ \cup {s}, !.made = mk]
      /\ lastId' = lastId + 1 /\ UNCHANGED <<text, docs, model, sweep, asking, remembered, adrift>>
  BY <1>2, <1>4, <1>5 DEF Search!Derive
<1>7. rebuilt' = [open |-> rebuilt.open, doomed |-> dm, read |-> rebuilt.read, done |-> rebuilt.done \cup {s}, made |-> mk]
  <2>1. rebuilt = [open |-> rebuilt.open, doomed |-> rebuilt.doomed, read |-> rebuilt.read, done |-> rebuilt.done,
                   made |-> rebuilt.made]
    BY <1>1 DEF BuildSound
  <2>2. PICK o, d, rd, dn, m : rebuilt = [open |-> o, doomed |-> d, read |-> rd, done |-> dn, made |-> m] BY <2>1
  <2> QED BY <1>6, <2>2
<1>8. /\ rebuilt'.open = rebuilt.open /\ rebuilt'.doomed = dm /\ rebuilt'.read = rebuilt.read
      /\ rebuilt'.done = rebuilt.done \cup {s} /\ rebuilt'.made = mk
  BY <1>7
<1>9. \A m \in rebuilt.made : m.source # s BY <1>1, <1>3 DEF BuildSound
<1>10. \A x : x \in mk <=> \/ x \in rebuilt.made /\ x.source # s
                           \/ c # Blank /\ x = NewDoc(lastId + 1, s, c)
  <2>1. \A x : x \in Search!Replaced({}, s, c) <=> c # Blank /\ x = NewDoc(lastId + 1, s, c) BY ReplacedIs
  <2> QED BY <1>5, <1>9, <2>1
<1>11. WrittenSound(rebuilt.made, docs, lastId) BY <1>1 DEF WrittenSound
<1>12. /\ WrittenSound(mk, docs, lastId + 1)
       /\ \A x \in mk \cup docs : x.id > lastId \/ \E y \in rebuilt.made \cup docs : y.id = x.id /\ y.content = x.content
  BY <1>1, <1>3, <1>10, <1>11, ReplacedSound
<1>13. WrittenSound(docs, mk, lastId + 1) BY <1>12 DEF WrittenSound
<1>14. ASSUME NEW r \in Pods PROVE SweepSound(sweep[r], docs, mk, lastId + 1)
  <2>1. SweepSound(sweep[r], docs, rebuilt.made, lastId) BY DEF IndexIInv
  <2>2. lastId + 1 \in Nat /\ lastId <= lastId + 1 BY <1>1
  <2>3. \A x \in docs \cup mk : x.id > lastId \/ \E y \in docs \cup rebuilt.made : y.id = x.id /\ y.content = x.content
    BY <1>12
  <2> QED BY <1>1, <2>1, <2>2, <2>3, SweepOnward
<1>15. BuildSound(rebuilt', docs, text)
  <2>1. PICK new : new = NewDoc(lastId + 1, s, c) OBVIOUS
  <2>2. new.source = s /\ new.content = c BY <2>1, NewDocIs
  <2>3. \A m \in mk : (m \in rebuilt.made /\ m.source # s) \/ (m.source = s /\ m.content = c /\ c # Blank)
    BY <1>10, <2>1, <2>2
  <2>4. c # Blank => \E m \in mk : m.source = s BY <1>10, <2>1, <2>2
  <2>5. \A m \in rebuilt.made : m \in mk BY <1>5
  <2>6. \A f \in rebuilt.read : f.source = s => f = e BY <1>1, <1>2 DEF BuildSound
  <2>7. ASSUME NEW f \in rebuilt.read, f.source \in rebuilt.done \cup {s}
        PROVE  /\ \A m \in mk : m.source = f.source => m.content = f.content /\ f.content # Blank
               /\ f.content # Blank => \E m \in mk : m.source = f.source
    <3>1. CASE f.source = s BY <1>2, <2>3, <2>4, <2>6, <3>1
    <3>2. CASE f.source # s
      <4>1. /\ \A m \in rebuilt.made : m.source = f.source => m.content = f.content /\ f.content # Blank
            /\ f.content # Blank => \E m \in rebuilt.made : m.source = f.source
        BY <1>1, <2>7, <3>2 DEF BuildSound
      <4> QED BY <2>3, <2>5, <3>2, <4>1
    <3> QED BY <3>1, <3>2
  <2>8. ASSUME NEW d \in docs, d.id \notin dm, d.source \in rebuilt.done \cup {s}
        PROVE  /\ d.content = text[d.source] /\ text[d.source] # Blank
               /\ \A m \in mk : m.source # d.source
    <3>1. d.source # s /\ d.id \notin rebuilt.doomed BY <1>4, <2>8 DEF Search!DocsOf
    <3>2. /\ d.content = text[d.source] /\ text[d.source] # Blank
          /\ \A m \in rebuilt.made : m.source # d.source
      BY <1>1, <2>8, <3>1 DEF BuildSound
    <3> QED BY <2>3, <3>1, <3>2
  <2>9. \A m \in mk : m.source \in rebuilt.done \cup {s} BY <1>1, <2>3 DEF BuildSound
  <2>10. \A x \in rebuilt.done \cup {s} : \E f \in rebuilt.read : f.source = x BY <1>1, <1>2 DEF BuildSound
  <2>11. rebuilt' = [open |-> rebuilt'.open, doomed |-> rebuilt'.doomed, read |-> rebuilt'.read, done |-> rebuilt'.done,
                     made |-> rebuilt'.made]
    BY <1>7, <1>8
  <2>12. /\ rebuilt.open \in BOOLEAN /\ rebuilt.done \cup {s} \subseteq Sources
         /\ \A x, f \in rebuilt.read : x.source = f.source => x = f
         /\ \A f \in rebuilt.read : f.source \in Sources
         /\ rebuilt.read # {} => \A x \in Sources : \E f \in rebuilt.read : f.source = x
    BY <1>1, <1>3 DEF BuildSound
  <2> QED BY <1>3, <1>8, <2>7, <2>8, <2>9, <2>10, <2>11, <2>12 DEF BuildSound
<1> QED BY <1>6, <1>8, <1>13, <1>14, <1>15 DEF IndexIInv, AsksSound

\* The commit of a rebuild.
LEMMA BuiltKeeps ==
  ASSUME IndexIInv, Search!Built
  PROVE  IndexIInv'
<1>1. BuildSound(rebuilt, docs, text) /\ WrittenSound(docs, rebuilt.made, lastId) /\ lastId \in Nat
  BY DEF IndexIInv, WrittenSound
<1>2. PICK kept : kept = {d \in docs : d.id \notin rebuilt.doomed} OBVIOUS
<1>3. /\ rebuilt.open /\ rebuilt.read # {} /\ rebuilt.done = Sources
      /\ docs' = kept \cup rebuilt.made
      /\ rebuilt' = Search!NoBuild
      /\ UNCHANGED <<text, lastId, model, sweep, asking, remembered>>
  BY <1>2 DEF Search!Built
<1>4. PICK late : late = {f \in rebuilt.read : f.content # text[f.source]} OBVIOUS
<1>5. adrift' = {e.source : e \in late} BY <1>4 DEF Search!Built
<1>6. DocsSound(docs, lastId) /\ DocsSound(rebuilt.made, lastId) /\ \A d \in docs, m \in rebuilt.made : d.id # m.id
  BY <1>1 DEF WrittenSound
<1>7. \A d \in kept : d \in docs /\ d.id \notin rebuilt.doomed BY <1>2
<1>8. \A d \in kept : d.source \in Sources /\ d.content = text[d.source] /\ text[d.source] # Blank
                      /\ \A m \in rebuilt.made : m.source # d.source
  <2>1. \A d \in docs : d.source \in Sources BY <1>6 DEF DocsSound
  <2> QED BY <1>1, <1>3, <1>7, <2>1 DEF BuildSound
<1>9. DocsSound(docs', lastId)
  <2>1. ASSUME NEW d \in docs'
        PROVE  /\ d = [id |-> d.id, source |-> d.source, content |-> d.content, vector |-> d.vector]
               /\ d.id \in 1..lastId /\ d.source \in Sources
               /\ d.vector # Absent => d.vector.of = d.content
    BY <1>3, <1>6, <1>7 DEF DocsSound
  <2>2. ASSUME NEW d \in docs', NEW e \in docs', d.id = e.id \/ d.source = e.source PROVE d = e
    <3>1. CASE d \in docs /\ e \in docs BY <1>6, <2>2, <3>1 DEF DocsSound
    <3>2. CASE d \in rebuilt.made /\ e \in rebuilt.made BY <1>6, <2>2, <3>2 DEF DocsSound
    <3>3. CASE d \in kept /\ e \in rebuilt.made BY <1>6, <1>7, <1>8, <2>2, <3>3
    <3>4. CASE e \in kept /\ d \in rebuilt.made BY <1>6, <1>7, <1>8, <2>2, <3>4
    <3> QED BY <1>3, <1>7, <3>1, <3>2, <3>3, <3>4
  <2> QED BY <2>1, <2>2 DEF DocsSound
<1>10. rebuilt' = [open |-> FALSE, doomed |-> {}, read |-> {}, done |-> {}, made |-> {}] BY <1>3 DEF Search!NoBuild
<1>11. rebuilt'.made = {} BY <1>10
<1>12. WrittenSound(docs', rebuilt'.made, lastId) BY <1>1, <1>9, <1>11 DEF WrittenSound, DocsSound
<1>13. ASSUME NEW r \in Pods PROVE SweepSound(sweep[r], docs', rebuilt'.made, lastId)
  <2>1. SweepSound(sweep[r], docs, rebuilt.made, lastId) BY DEF IndexIInv
  <2>2. \A x \in docs' \cup rebuilt'.made : x \in docs \cup rebuilt.made BY <1>3, <1>7, <1>11
  <2> QED BY <2>1, <2>2 DEF SweepSound
<1>14. Follows(docs', text, adrift')
  <2> SUFFICES ASSUME NEW x \in Sources \ adrift'
               PROVE  /\ \A d \in docs' : d.source = x => d.content = text[x] /\ text[x] # Blank
                      /\ text[x] # Blank => \E d \in docs' : d.source = x
    BY DEF Follows
  <2>1. PICK e \in rebuilt.read : e.source = x BY <1>1, <1>3 DEF BuildSound
  <2>2. e.content = text[x] BY <1>4, <1>5, <2>1
  <2>3. /\ \A m \in rebuilt.made : m.source = x => m.content = e.content /\ e.content # Blank
        /\ e.content # Blank => \E m \in rebuilt.made : m.source = x
    BY <1>1, <1>3, <2>1 DEF BuildSound
  <2> QED BY <1>3, <1>8, <2>2, <2>3
<1>15. BuildSound(rebuilt', docs', text) BY <1>10, BarelyBuilt
<1> QED BY <1>3, <1>12, <1>13, <1>14, <1>15 DEF IndexIInv, AsksSound

\* The document as a sweep sees it: the old one, or the old one with a vector of its text.
LEMMA SeenByIs ==
  ASSUME IndexIInv, NEW r \in Pods
  PROVE  /\ \A x \in Search!SeenBy(r) : \E d \in docs :
              /\ x = [id |-> d.id, source |-> d.source, content |-> d.content, vector |-> x.vector]
              /\ x.vector # Absent => x.vector.of = d.content
         /\ \A d \in docs : \E x \in Search!SeenBy(r) : x.id = d.id /\ x.source = d.source /\ x.content = d.content
         /\ \A x, y \in Search!SeenBy(r) : x.id = y.id => x = y
<1>1. DocsSound(docs, lastId) /\ SweepSound(sweep[r], docs, rebuilt.made, lastId) BY DEF IndexIInv, WrittenSound
<1> DEFINE of(d) == IF d.id \in Search!SetBy(r)
                    THEN [d EXCEPT !.vector = (CHOOSE v \in sweep[r].set : v.id = d.id).vector] ELSE d
<1>2. Search!SeenBy(r) = {of(d) : d \in docs} BY DEF Search!SeenBy
<1>3. ASSUME NEW d \in docs
      PROVE  /\ of(d) = [id |-> d.id, source |-> d.source, content |-> d.content, vector |-> of(d).vector]
             /\ of(d).vector # Absent => of(d).vector.of = d.content
  <2>1. PICK i, s, c, w : d = [id |-> i, source |-> s, content |-> c, vector |-> w] BY <1>1 DEF DocsSound
  <2>2. CASE d.id \notin Search!SetBy(r)
    <3>1. of(d) = d BY <2>2
    <3>2. d.vector # Absent => d.vector.of = d.content BY <1>1 DEF DocsSound
    <3> HIDE DEF of
    <3> QED BY <2>1, <3>1, <3>2
  <2>3. CASE d.id \in Search!SetBy(r)
    <3>1. \E v \in sweep[r].set : v.id = d.id BY <2>3 DEF Search!SetBy
    <3>2. PICK v : v = CHOOSE u \in sweep[r].set : u.id = d.id OBVIOUS
    <3>3. v \in sweep[r].set /\ v.id = d.id BY <3>1, <3>2
    <3>4. d.content = v.vector.of BY <1>1, <3>3 DEF SweepSound
    <3>5. of(d) = [d EXCEPT !.vector = v.vector] BY <2>3, <3>2
    <3> HIDE DEF of
    <3>6. of(d) = [id |-> i, source |-> s, content |-> c, vector |-> v.vector] BY <2>1, <3>5
    <3> QED BY <2>1, <3>4, <3>6
  <2> QED BY <2>2, <2>3
<1> HIDE DEF of
<1>4. \A d \in docs : of(d).id = d.id /\ of(d).source = d.source /\ of(d).content = d.content
  <2> SUFFICES ASSUME NEW d \in docs PROVE of(d).id = d.id /\ of(d).source = d.source /\ of(d).content = d.content OBVIOUS
  <2>1. PICK w : of(d) = [id |-> d.id, source |-> d.source, content |-> d.content, vector |-> w] BY <1>3
  <2> QED BY <2>1
<1>5. ASSUME NEW x \in Search!SeenBy(r), NEW y \in Search!SeenBy(r), x.id = y.id PROVE x = y
  <2>1. PICK d \in docs : x = of(d) BY <1>2
  <2>2. PICK e \in docs : y = of(e) BY <1>2
  <2>3. d.id = e.id BY <1>4, <1>5, <2>1, <2>2
  <2>4. d = e BY <1>1, <2>3 DEF DocsSound
  <2> QED BY <2>1, <2>2, <2>4
<1>6. ASSUME NEW x \in Search!SeenBy(r)
      PROVE  \E d \in docs : /\ x = [id |-> d.id, source |-> d.source, content |-> d.content, vector |-> x.vector]
                             /\ x.vector # Absent => x.vector.of = d.content
  <2>1. PICK d \in docs : x = of(d) BY <1>2
  <2> QED BY <1>3, <2>1
<1>7. ASSUME NEW d \in docs
      PROVE \E x \in Search!SeenBy(r) : x.id = d.id /\ x.source = d.source /\ x.content = d.content
  <2>1. of(d) \in Search!SeenBy(r) BY <1>2
  <2> QED BY <1>4, <2>1
<1> QED BY <1>5, <1>6, <1>7

\* Only one sweep has moved, and is still right.
LEMMA SweepMoves ==
  ASSUME IndexIInv, NEW r \in Pods, NEW w, SweepSound(w, docs, rebuilt.made, lastId),
         sweep' = [sweep EXCEPT ![r] = w],
         UNCHANGED <<text, docs, lastId, rebuilt, model, asking, remembered, adrift>>
  PROVE  IndexIInv'
<1>1. sweep' = [q \in Pods |-> sweep'[q]] /\ \A q \in Pods : sweep'[q] = IF q = r THEN w ELSE sweep[q] BY DEF IndexIInv
<1>2. \A q \in Pods : SweepSound(sweep'[q], docs, rebuilt.made, lastId) BY <1>1 DEF IndexIInv
<1> QED BY <1>1, <1>2 DEF IndexIInv, AsksSound

LEMMA IdleSound == ASSUME NEW ds, NEW mk, NEW n PROVE SweepSound(Search!Idle, ds, mk, n)
<1>1. Search!Idle.batch = {} /\ Search!Idle.set = {} BY DEF Search!Idle
<1> QED BY <1>1 DEF SweepSound

\* The sweep reads a batch, or commits what it has set.
LEMMA SweepReadsKeeps ==
  ASSUME IndexIInv, NEW r \in Pods, Search!SweepReads(r)
  PROVE  IndexIInv'
<1>1. WrittenSound(docs, rebuilt.made, lastId) /\ DocsSound(docs, lastId) /\ SweepSound(sweep[r], docs, rebuilt.made, lastId)
  BY DEF IndexIInv, WrittenSound
<1>2. /\ \A x \in Search!SeenBy(r) : \E d \in docs : x.id = d.id /\ x.source = d.source /\ x.content = d.content
      /\ \A d \in docs : \E x \in Search!SeenBy(r) : x.id = d.id /\ x.source = d.source /\ x.content = d.content
  BY SeenByIs
<1>3. CASE Search!Pending(r) # {}
  <2>1. PICK w : w = [sweep[r] EXCEPT !.open = TRUE, !.batch = Search!Pending(r)] OBVIOUS
  <2>2. sweep' = [sweep EXCEPT ![r] = w] /\ UNCHANGED <<text, docs, lastId, rebuilt, model, asking, remembered, adrift>>
    BY <1>3, <2>1 DEF Search!SweepReads
  <2>3. w.batch = Search!Pending(r) \/ w.batch = sweep[r].batch BY <2>1
  <2>4. w.set = sweep[r].set BY <2>1
  <2>5. ASSUME NEW b \in Search!Pending(r)
        PROVE b.id \in 1..lastId /\ \A d \in docs \cup rebuilt.made : d.id = b.id => d.content = b.content
    <3>1. b \in Search!SeenBy(r) BY DEF Search!Pending
    <3>2. PICK d \in docs : b.id = d.id /\ b.content = d.content BY <1>2, <3>1
    <3>3. d.id \in 1..lastId /\ \A e \in docs : e.id = d.id => e = d BY <1>1 DEF DocsSound
    <3>4. \A m \in rebuilt.made : d.id # m.id BY <1>1 DEF WrittenSound
    <3> QED BY <3>2, <3>3, <3>4
  <2>6. SweepSound(w, docs, rebuilt.made, lastId) BY <1>1, <2>3, <2>4, <2>5 DEF SweepSound
  <2> QED BY <2>2, <2>6, SweepMoves
<1>4. CASE Search!Pending(r) = {}
  <2>1. docs' = Search!SeenBy(r) /\ sweep' = [sweep EXCEPT ![r] = Search!Idle]
        /\ UNCHANGED <<text, lastId, rebuilt, model, asking, remembered, adrift>>
    BY <1>4 DEF Search!SweepReads
  <2>2. WrittenSound(docs', rebuilt.made, lastId)
    <3>1. ASSUME NEW x \in docs'
          PROVE  /\ x = [id |-> x.id, source |-> x.source, content |-> x.content, vector |-> x.vector]
                 /\ x.id \in 1..lastId /\ x.source \in Sources
                 /\ x.vector # Absent => x.vector.of = x.content
      <4>1. PICK d \in docs : /\ x = [id |-> d.id, source |-> d.source, content |-> d.content, vector |-> x.vector]
                              /\ x.vector # Absent => x.vector.of = d.content
        BY <2>1, SeenByIs
      <4>2. x.id = d.id /\ x.source = d.source /\ x.content = d.content BY <4>1
      <4>3. d.id \in 1..lastId /\ d.source \in Sources BY <1>1 DEF DocsSound
      <4> QED BY <4>1, <4>2, <4>3
    <3>2. ASSUME NEW x \in docs', NEW y \in docs', x.id = y.id \/ x.source = y.source PROVE x = y
      <4>1. PICK d \in docs : x.id = d.id /\ x.source = d.source BY <1>2, <2>1
      <4>2. PICK e \in docs : y.id = e.id /\ y.source = e.source BY <1>2, <2>1
      <4>3. d = e BY <1>1, <3>2, <4>1, <4>2 DEF DocsSound
      <4>4. x.id = y.id BY <4>1, <4>2, <4>3
      <4> QED BY <2>1, <4>4, SeenByIs
    <3>3. \A x \in docs', m \in rebuilt.made : x.id # m.id BY <1>1, <1>2, <2>1 DEF WrittenSound
    <3> QED BY <1>1, <3>1, <3>2, <3>3 DEF WrittenSound, DocsSound
  <2>3. ASSUME NEW q \in Pods PROVE SweepSound(sweep'[q], docs', rebuilt.made, lastId)
    <3>1. sweep'[q] = IF q = r THEN Search!Idle ELSE sweep[q] BY <2>1 DEF IndexIInv
    <3>2. CASE q = r BY <3>1, <3>2, IdleSound
    <3>3. CASE q # r
      <4>1. SweepSound(sweep[q], docs, rebuilt.made, lastId) /\ lastId \in Nat BY DEF IndexIInv, WrittenSound
      <4>2. \A x \in docs' \cup rebuilt.made :
              x.id > lastId \/ \E y \in docs \cup rebuilt.made : y.id = x.id /\ y.content = x.content
        BY <1>2, <2>1
      <4>3. lastId <= lastId BY <4>1
      <4> QED BY <3>1, <3>3, <4>1, <4>2, <4>3, SweepOnward
    <3> QED BY <3>2, <3>3
  <2>4. Follows(docs', text, adrift)
    <3>1. Follows(docs, text, adrift) BY DEF IndexIInv
    <3> QED BY <1>2, <2>1, <3>1 DEF Follows
  <2>5. BuildSound(rebuilt, docs', text)
    <3>1. BuildSound(rebuilt, docs, text) BY DEF IndexIInv
    <3>2. ASSUME NEW x \in docs', x.id \notin rebuilt.doomed, x.source \in rebuilt.done
          PROVE  /\ x.content = text[x.source] /\ text[x.source] # Blank
                 /\ \A m \in rebuilt.made : m.source # x.source
      <4>1. PICK d \in docs : x.id = d.id /\ x.source = d.source /\ x.content = d.content BY <1>2, <2>1
      <4> QED BY <3>1, <3>2, <4>1 DEF BuildSound
    <3> QED BY <3>1, <3>2 DEF BuildSound
  <2>6. sweep' = [q \in Pods |-> sweep'[q]] BY <2>1 DEF IndexIInv
  <2> QED BY <2>1, <2>2, <2>3, <2>4, <2>5, <2>6 DEF IndexIInv, AsksSound
<1> QED BY <1>3, <1>4

LEMMA SweepWritesKeeps ==
  ASSUME IndexIInv, NEW r \in Pods, Search!SweepSets(r) \/ Search!SweepFails(r)
  PROVE  IndexIInv'
<1>1. UNCHANGED <<text, docs, lastId, rebuilt, model, asking, remembered, adrift>>
  BY DEF Search!SweepSets, Search!SweepFails
<1>2. CASE Search!SweepFails(r)
  <2>1. sweep' = [sweep EXCEPT ![r] = Search!Idle] BY <1>2 DEF Search!SweepFails
  <2> QED BY <1>1, <2>1, IdleSound, SweepMoves
<1>3. CASE Search!SweepSets(r)
  <2>1. PICK new : new = {v \in Search!Embedded(r) : \E d \in docs : d.id = v.id} OBVIOUS
  <2>2. PICK ids : ids = {v.id : v \in new} OBVIOUS
  <2>3. PICK st : st = {v \in sweep[r].set : v.id \notin ids} \cup new OBVIOUS
  <2>4. PICK w : w = [open |-> TRUE, batch |-> {}, set |-> st] OBVIOUS
  <2>5. sweep' = [sweep EXCEPT ![r] = w]
    <3>1. sweep[r] = [q \in Pods |-> sweep[q]][r] BY DEF IndexIInv
    <3> QED BY <1>3, <2>1, <2>2, <2>3, <2>4, <3>1 DEF Search!SweepSets, IndexIInv
  <2>6. SweepSound(sweep[r], docs, rebuilt.made, lastId) BY DEF IndexIInv
  <2>7. ASSUME NEW v \in st
        PROVE v.id \in 1..lastId /\ \A d \in docs \cup rebuilt.made : d.id = v.id => d.content = v.vector.of
    <3>1. CASE v \in sweep[r].set BY <2>6, <3>1 DEF SweepSound
    <3>2. CASE v \in new
      <4>1. PICK b \in sweep[r].batch : v = [id |-> b.id, vector |-> [of |-> b.content, model |-> model[r]]]
        BY <2>1, <3>2 DEF Search!Embedded
      <4>2. v.id = b.id /\ v.vector.of = b.content BY <4>1
      <4> QED BY <2>6, <4>2 DEF SweepSound
    <3> QED BY <2>3, <3>1, <3>2
  <2>8. w.batch = {} /\ w.set = st BY <2>4
  <2>9. SweepSound(w, docs, rebuilt.made, lastId) BY <2>7, <2>8 DEF SweepSound
  <2> QED BY <1>1, <2>5, <2>9, SweepMoves
<1> QED BY <1>2, <1>3

LEMMA AskKeeps ==
  ASSUME IndexIInv, NEW r \in Pods,
         Search!QueryVector(r) \/ Search!Answer(r) \/ \E m : Search!configure(r, m)
  PROVE  IndexIInv'
<1>1. UNCHANGED <<text, docs, lastId, rebuilt, sweep, adrift>>
  BY DEF Search!QueryVector, Search!Answer, Search!configure
<1>2. AsksSound BY DEF IndexIInv
<1>3. AsksSound'
  <2>1. CASE Search!QueryVector(r)
    <3>1. PICK a : a = IF remembered[r] # Absent THEN remembered[r] ELSE model[r] OBVIOUS
    <3>2. a \in {Absent, model[r]} BY <1>2, <3>1 DEF AsksSound
    <3>3. asking' = [asking EXCEPT ![r] = a] /\ model' = model BY <2>1, <3>1 DEF Search!QueryVector
    <3>4. asking'[r] = a BY <1>2, <3>3 DEF AsksSound
    <3>5. remembered' = [remembered EXCEPT ![r] = a] BY <2>1, <3>4 DEF Search!QueryVector
    <3> QED BY <1>2, <3>2, <3>3, <3>5 DEF AsksSound
  <2>2. CASE Search!Answer(r) BY <1>2, <2>2 DEF AsksSound, Search!Answer
  <2>3. ASSUME NEW m, Search!configure(r, m) PROVE AsksSound'
    <3>1. /\ asking[r] = Absent /\ model' = [model EXCEPT ![r] = m]
          /\ remembered' = [remembered EXCEPT ![r] = Absent] /\ asking' = asking
      BY <2>3 DEF Search!configure, Search!Forgotten
    <3> QED BY <1>2, <3>1 DEF AsksSound
  <2> QED BY <2>1, <2>2, <2>3
<1> QED BY <1>1, <1>3 DEF IndexIInv

LEMMA IndexStepIInv == IndexIInv /\ [Search!Next]_(Search!index) => IndexIInv'
<1> SUFFICES ASSUME IndexIInv, [Search!Next]_(Search!index) PROVE IndexIInv' OBVIOUS
<1>1. ASSUME NEW s \in Sources, Search!Resume(s) PROVE IndexIInv' BY <1>1, ResumeKeeps
<1>2. ASSUME NEW s \in Sources, NEW c \in Search!Contents, Search!Write(s, c) PROVE IndexIInv' BY <1>2, WriteKeeps
<1>3. CASE Search!Rebuild \/ Search!Extract \/ Search!BuildFails BY <1>3, RebuildKeeps
<1>4. CASE Search!Built BY <1>4, BuiltKeeps
<1>5. ASSUME NEW e \in rebuilt.read, Search!Derive(e) PROVE IndexIInv' BY <1>5, DeriveKeeps
<1>6. ASSUME NEW r \in Pods, Search!SweepReads(r) PROVE IndexIInv' BY <1>6, SweepReadsKeeps
<1>7. ASSUME NEW r \in Pods, Search!SweepSets(r) \/ Search!SweepFails(r) PROVE IndexIInv' BY <1>7, SweepWritesKeeps
<1>8. ASSUME NEW r \in Pods, Search!QueryVector(r) \/ Search!Answer(r) \/ \E m : Search!configure(r, m) PROVE IndexIInv'
  BY <1>8, AskKeeps
<1>9. CASE UNCHANGED Search!index BY <1>9 DEF Search!index, IndexIInv, AsksSound
<1> QED BY <1>1, <1>2, <1>3, <1>4, <1>5, <1>6, <1>7, <1>8, <1>9 DEF Search!Next

LEMMA IndexIInvImplies == IndexIInv => Search!IndexMatchesItsSources
<1> SUFFICES ASSUME IndexIInv PROVE Search!IndexMatchesItsSources OBVIOUS
<1>1. DocsSound(docs, lastId) /\ AsksSound /\ Follows(docs, text, adrift) BY DEF IndexIInv, WrittenSound
<1>2. Search!VectorsMatchTheirText
  <2>1. \A d \in docs : d.vector # Absent => d.vector.of = d.content BY <1>1 DEF DocsSound
  <2>2. ASSUME NEW r \in Pods, asking[r] # Absent, NEW d \in Search!Nearest(r) PROVE d.vector.model = asking[r]
    <3>1. asking[r] = model[r] BY <1>1, <2>2 DEF AsksSound
    <3>2. d.vector.model = model[r] BY DEF Search!Nearest
    <3> QED BY <3>1, <3>2
  <2> QED BY <2>1, <2>2 DEF Search!VectorsMatchTheirText
<1>3. Search!IndexFollowsItsSources
  <2>1. ASSUME NEW s \in Sources PROVE Search!Cardinality(Search!DocsOf(s, docs)) <= 1
    <3>1. PICK ds : ds = Search!DocsOf(s, docs) OBVIOUS
    <3>2. \A d, e \in ds : d = e BY <1>1, <3>1 DEF Search!DocsOf, DocsSound
    <3>3. CASE ds = {} BY <3>1, <3>3, FS_EmptySet, IndexCounts
    <3>4. CASE ds # {}
      <4>1. PICK d : d \in ds BY <3>4
      <4>2. ds = {d} BY <3>2, <4>1
      <4>3. Cardinality(ds) = 1 BY <4>2, FS_Singleton
      <4> QED BY <3>1, <4>3, IndexCounts
    <3> QED BY <3>3, <3>4
  <2>2. ASSUME NEW s \in Sources \ adrift PROVE {d.content : d \in Search!DocsOf(s, docs)} = {text[s]} \ {Blank}
    <3>1. /\ \A d \in docs : d.source = s => d.content = text[s] /\ text[s] # Blank
          /\ text[s] # Blank => \E d \in docs : d.source = s
      BY <1>1 DEF Follows
    <3>2. PICK ds : ds = Search!DocsOf(s, docs) OBVIOUS
    <3>3. /\ \A d \in ds : d.content = text[s] /\ text[s] # Blank
          /\ text[s] # Blank => \E d \in ds : TRUE
      BY <3>1, <3>2 DEF Search!DocsOf
    <3>4. {d.content : d \in ds} = {text[s]} \ {Blank} BY <3>3
    <3> QED BY <3>2, <3>4
  <2> QED BY <2>1, <2>2 DEF Search!IndexFollowsItsSources
<1>4. Search!HitsAreOfTheOrg
  <2> SUFFICES ASSUME NEW r \in Pods, NEW o, NEW s \in Search!Hits(r, o) \ adrift
               PROVE  text[s] # Blank /\ OrgOf[text[s]] = o
    BY DEF Search!HitsAreOfTheOrg
  <2>1. PICK d \in docs : d.source = s /\ OrgOf[d.content] = o BY DEF Search!Hits, Search!Lexical, Search!Nearest
  <2>2. s \in Sources BY <1>1, <2>1 DEF DocsSound
  <2>3. d.content = text[s] /\ text[s] # Blank BY <1>1, <2>1, <2>2 DEF Follows
  <2> QED BY <2>1, <2>3
<1> QED BY <1>2, <1>3, <1>4 DEF Search!IndexMatchesItsSources

-----------------------------------------------------------------------------
(* The seeding of lookups (LookupSeeding): rows gain and never lose, so what *)
(* a boot has made good stays so whoever writes beside it, and a version is  *)
(* unsure wherever one was left behind.                                      *)

LEMMA SeedsCount == \A X : Seeds!Cardinality(X) = Cardinality(X) /\ (Seeds!IsFiniteSet(X) <=> IsFiniteSet(X))
  BY DEF Seeds!Cardinality, Cardinality, Seeds!IsFiniteSet, IsFiniteSet

\* What a function takes a finite set to is finite.
LEMMA ImageFinite ==
  ASSUME NEW X, IsFiniteSet(X), NEW f, f = [x \in X |-> f[x]], NEW Y, \A y : y \in Y <=> \E x \in X : y = f[x]
  PROVE  IsFiniteSet(Y)
<1>1. f \in [X -> Y] OBVIOUS
<1>2. f \in Surjection(X, Y) BY <1>1, Fun_IsSurj
<1> QED BY <1>2, FS_Surjection

\* A row, with its key.
RowIs(r) ==
    /\ r = [id |-> r.id, org |-> r.org, code |-> r.code, label |-> r.label, meta |-> r.meta,
            parent |-> r.parent, next |-> r.next]
    /\ r.id \in Nat /\ r.id # 0

\* A row's pointers are to rows of its owner.
Homely(rows, r) == \A id \in {r.parent, r.next} \ {0} : \E w \in rows : w.id = id /\ w.org = r.org

RowsSound(rows) == IsFiniteSet(rows) /\ \A r \in rows : RowIs(r) /\ Homely(rows, r)

\* What a row keeps, whoever writes it.
Onward(r, q) ==
    /\ q.id = r.id /\ q.org = r.org /\ q.code = r.code
    /\ r.label # "none" => q.label # "none"
    /\ r.meta # "none" => q.meta # "none"
    /\ r.parent # 0 => q.parent # 0
    /\ r.next # 0 => q.next # 0
Later(rows, rows2) == \A r \in rows : \E q \in rows2 : Onward(r, q)

\* A value of a file that has its row, the row with its labels and its meta, and the row whole.
Standing(rows, v) == \E r \in rows : r.org = Seeds!Null /\ r.code = v.code
Filled(rows, v, healed) ==
    \E r \in rows : /\ r.org = Seeds!Null /\ r.code = v.code /\ r.label # "none"
                    /\ v.meta /\ v.code \notin healed => r.meta # "none"
Complete(rows, v, healed, o) ==
    \E r \in rows : /\ r.org = Seeds!Null /\ r.code = v.code
                    /\ v.parent # Seeds!Null => r.parent # 0
                    /\ v.next # Seeds!Null => r.next # 0
                    /\ ~ o => r.label # "none"
                    /\ ~ o /\ v.meta /\ v.code \notin healed => r.meta # "none"

\* A boot that has its type.
Begun(x) == x.at \in {"values", "links", "bump"}

\* A boot x, among these rows, of the ORM seeder or not.
BootSound(x, rows, o) ==
    /\ x = [at |-> x.at, file |-> x.file, i |-> x.i, changed |-> x.changed, healed |-> x.healed, loaded |-> x.loaded]
    /\ x.i \in Nat /\ x.i # 0 /\ x.loaded \in Nat /\ x.changed \in BOOLEAN
    /\ x.changed => Begun(x)
    /\ x.at = "type" => x.i = 1
    /\ x.at # "off" => x.file \in SeedFiles /\ Seeds!Loads(x.file)
    /\ x.at = "values" => ~ o /\ \A k \in DOMAIN x.file.values : k < x.i => Filled(rows, x.file.values[k], x.healed)
    /\ x.at = "links" => \A k \in DOMAIN x.file.values :
          Standing(rows, x.file.values[k]) /\ (~ o => Filled(rows, x.file.values[k], x.healed))
    /\ x.at = "bump" => \A k \in DOMAIN x.file.values : Complete(rows, x.file.values[k], x.healed, o)

\* Versions that were left behind by a list that is behind them are unsure.
VersionsSound(lv, rv, u) ==
    lv \in Nat /\ rv \in Nat /\ \A n \in Nat : lv < n /\ n <= rv => n \in u

\* What has begun and not committed: a version it has loaded, template rows it has read.
CopySound(x) == x.version \in Nat /\ IsFiniteSet(x.rows) /\ \A t \in x.rows : t.id \in Nat
PendingSound ==
    /\ copying = [o \in Tenants |-> copying[o]] /\ \A o \in Tenants : CopySound(copying[o])
    /\ amend.version \in Nat
Pending == amend.at = "open" \/ \E o \in Tenants : copying[o].at = "open"

\* The inductive invariant of LookupSeeding.
SeedingIInv ==
    /\ orm \in BOOLEAN
    /\ listed = [scope |-> listed.scope, version |-> listed.version]
    /\ listed.scope = Seeds!Null => listed.version = 0
    /\ RowsSound(seeded)
    /\ boot = [b \in Pods |-> boot[b]] /\ \A b \in Pods : BootSound(boot[b], seeded, orm)
    /\ \A b \in Pods : Begun(boot[b]) => listed.scope # Seeds!Null
    /\ PendingSound /\ (Pending => listed.scope # Seeds!Null)
    /\ VersionsSound(listed.version, reader.version, unsure)
    /\ Seeds!RevalidatedIsCurrent

LEMMA SeedingInitIInv == Seeds!Init => SeedingIInv
<1> SUFFICES ASSUME Seeds!Init PROVE SeedingIInv OBVIOUS
<1>1. /\ orm \in BOOLEAN /\ listed = [scope |-> Seeds!Null, version |-> 0] /\ seeded = {}
      /\ reader = [version |-> 0, shown |-> {}]
  BY DEF Seeds!Init
<1>2. boot = [b \in Pods |-> [at |-> "off", file |-> 0, i |-> 1, changed |-> FALSE, healed |-> {}, loaded |-> 0]]
  BY DEF Seeds!Init, Seeds!Off, Seeds!At
<1>3. RowsSound(seeded) BY <1>1, FS_EmptySet DEF RowsSound
<1>4. \A b \in Pods : BootSound(boot[b], seeded, orm) /\ ~ Begun(boot[b])
  <2>1. ASSUME NEW b \in Pods PROVE BootSound(boot[b], seeded, orm) /\ ~ Begun(boot[b])
    <3>1. PICK x : x = boot[b] OBVIOUS
    <3>2. /\ x = [at |-> x.at, file |-> x.file, i |-> x.i, changed |-> x.changed, healed |-> x.healed, loaded |-> x.loaded]
          /\ x.at = "off" /\ x.i = 1 /\ x.changed = FALSE /\ x.loaded = 0
      BY <1>2, <3>1
    <3>3. x.changed \in BOOLEAN /\ ~ x.changed /\ ~ Begun(x) BY <3>2 DEF Begun
    <3> QED BY <3>1, <3>2, <3>3 DEF BootSound
  <2> QED BY <2>1
<1>5. listed.version = 0 /\ reader.version = 0 /\ reader.shown = seeded BY <1>1
<1>6. VersionsSound(listed.version, reader.version, unsure) BY <1>5 DEF VersionsSound
<1>7. boot = [b \in Pods |-> boot[b]] BY <1>2
<1>8. listed = [scope |-> listed.scope, version |-> listed.version] BY <1>1
<1>9. /\ copying = [o \in Tenants |-> [at |-> "off", version |-> 0, rows |-> {}]]
      /\ amend = [at |-> "off", version |-> 0, id |-> 0, next |-> 0]
  BY DEF Seeds!Init, Seeds!NoCopy, Seeds!Copying, Seeds!NoAmend, Seeds!Amending
<1>10. PendingSound /\ ~ Pending BY <1>9, FS_EmptySet DEF PendingSound, CopySound, Pending
<1> QED BY <1>1, <1>3, <1>4, <1>5, <1>6, <1>7, <1>8, <1>10 DEF SeedingIInv, Seeds!RevalidatedIsCurrent

LEMMA PendingStays == PendingSound /\ UNCHANGED <<copying, amend>> => PendingSound' /\ (Pending' <=> Pending)
BY DEF PendingSound, Pending

\* What a boot has found to be there stays there.
LEMMA BootOnward ==
  ASSUME NEW rows, NEW rows2, Later(rows, rows2), NEW o \in BOOLEAN, NEW x, BootSound(x, rows, o)
  PROVE  BootSound(x, rows2, o)
<1>1. \A v : Standing(rows, v) => Standing(rows2, v) BY DEF Standing, Later, Onward
<1>2. \A v, h : Filled(rows, v, h) => Filled(rows2, v, h) BY DEF Filled, Later, Onward
<1>3. ASSUME NEW v, NEW h, Complete(rows, v, h, o) PROVE Complete(rows2, v, h, o)
  <2>1. PICK r \in rows : /\ r.org = Seeds!Null /\ r.code = v.code
                          /\ v.parent # Seeds!Null => r.parent # 0
                          /\ v.next # Seeds!Null => r.next # 0
                          /\ ~ o => r.label # "none"
                          /\ ~ o /\ v.meta /\ v.code \notin h => r.meta # "none"
    BY <1>3 DEF Complete
  <2>2. PICK q \in rows2 : Onward(r, q) BY DEF Later
  <2>3. /\ q.org = Seeds!Null /\ q.code = v.code
        /\ v.parent # Seeds!Null => q.parent # 0
        /\ v.next # Seeds!Null => q.next # 0
        /\ ~ o => q.label # "none"
        /\ ~ o /\ v.meta /\ v.code \notin h => q.meta # "none"
    BY <2>1, <2>2 DEF Onward
  <2> QED BY <2>3 DEF Complete
<1> QED BY <1>1, <1>2, <1>3 DEF BootSound

LEMMA LaterSame == ASSUME NEW rows PROVE Later(rows, rows)
BY DEF Later, Onward

\* A boot takes a step that leaves the version alone, and marks what it changed.
LEMMA BootMoves ==
  ASSUME SeedingIInv, NEW b \in Pods, NEW x, boot' = [boot EXCEPT ![b] = x],
         RowsSound(seeded'), Later(seeded, seeded'), BootSound(x, seeded', orm),
         Begun(x) => listed.scope # Seeds!Null, seeded' # seeded => x.changed, boot[b].changed => x.changed,
         UNCHANGED <<orm, listed, copying, amend, reader, unsure>>
  PROVE  SeedingIInv'
<1>1. boot' = [c \in Pods |-> boot'[c]] /\ \A c \in Pods : boot'[c] = IF c = b THEN x ELSE boot[c] BY DEF SeedingIInv
<1>2. \A c \in Pods : BootSound(boot[c], seeded', orm) BY BootOnward DEF SeedingIInv
<1>3. \A c \in Pods : BootSound(boot'[c], seeded', orm) BY <1>1, <1>2
<1>4. \A c \in Pods : boot[c].changed => boot'[c].changed BY <1>1
<1>5. seeded' # seeded => boot'[b].changed BY <1>1
<1>6. Seeds!RevalidatedIsCurrent'
  <2> SUFFICES ASSUME reader'.version = listed'.version, listed'.version \notin unsure', \A c \in Pods : ~ boot'[c].changed
               PROVE  reader'.shown = seeded'
    BY DEF Seeds!RevalidatedIsCurrent
  <2>1. \A c \in Pods : ~ boot[c].changed BY <1>4
  <2>2. seeded' = seeded BY <1>5
  <2> QED BY <2>1, <2>2 DEF SeedingIInv, Seeds!RevalidatedIsCurrent
<1>7. \A c \in Pods : Begun(boot'[c]) => listed'.scope # Seeds!Null BY <1>1 DEF SeedingIInv
<1>8. PendingSound' /\ (Pending' <=> Pending) BY PendingStays DEF SeedingIInv
<1> QED BY <1>1, <1>3, <1>6, <1>7, <1>8 DEF SeedingIInv

\* A step that gives the list a version no reader holds for sure.
LEMMA VersionMoves ==
  ASSUME SeedingIInv, NEW sc, sc # Seeds!Null, NEW n \in Nat, listed' = [scope |-> sc, version |-> n],
         \A m \in Nat : n <= m /\ m <= reader.version => m \in unsure',
         RowsSound(seeded'), boot' = [b \in Pods |-> boot'[b]], \A b \in Pods : BootSound(boot'[b], seeded', orm),
         PendingSound', UNCHANGED <<orm, reader>>
  PROVE  SeedingIInv'
<1>1. listed'.version = n /\ listed'.scope = sc /\ listed' = [scope |-> listed'.scope, version |-> listed'.version] OBVIOUS
<1>2. reader.version \in Nat /\ reader' = reader BY DEF SeedingIInv, VersionsSound
<1>3. ASSUME NEW m \in Nat, n <= m, m <= reader.version PROVE m \in unsure' BY <1>3
<1>4. VersionsSound(n, reader.version, unsure')
  <2>1. ASSUME NEW m \in Nat, n < m, m <= reader.version PROVE m \in unsure'
    <3>1. n <= m BY <2>1
    <3> QED BY <1>3, <2>1, <3>1
  <2> QED BY <1>2, <2>1 DEF VersionsSound
<1>5. reader.version = n => n \in unsure'
  <2>1. n <= n OBVIOUS
  <2> QED BY <1>3, <2>1
<1>6. listed'.version = n BY <1>1
<1>7. Seeds!RevalidatedIsCurrent' BY <1>2, <1>5, <1>6 DEF Seeds!RevalidatedIsCurrent
<1> QED BY <1>1, <1>2, <1>4, <1>6, <1>7 DEF SeedingIInv

\* A row keeps its owner, so a pointer into an owner's rows stays one.
LEMMA HomeStays ==
  ASSUME NEW rows, NEW rows2, Later(rows, rows2), NEW q, Homely(rows, q)
  PROVE  Homely(rows2, q)
BY DEF Homely, Later, Onward

LEMMA RowsGrow ==
  ASSUME NEW rows, NEW rows2, RowsSound(rows), Later(rows, rows2), IsFiniteSet(rows2),
         \A q \in rows2 : q \in rows \/ (RowIs(q) /\ (Homely(rows, q) \/ Homely(rows2, q)))
  PROVE  RowsSound(rows2)
BY HomeStays DEF RowsSound

LEMMA RowReplaced ==
  ASSUME NEW rows, RowsSound(rows), NEW r \in rows, NEW s, RowIs(s), Onward(r, s), Homely(rows, s)
  PROVE  /\ RowsSound((rows \ {r}) \cup {s})
         /\ Later(rows, (rows \ {r}) \cup {s})
<1> DEFINE rows2 == (rows \ {r}) \cup {s}
<1>1. IsFiniteSet(rows2)
  <2>1. IsFiniteSet(rows) BY DEF RowsSound
  <2>2. IsFiniteSet(rows \ {r}) BY <2>1, FS_RemoveElement
  <2> QED BY <2>2, FS_AddElement
<1>2. Later(rows, rows2) BY DEF Later, Onward
<1>3. \A q \in rows2 : q \in rows \/ (RowIs(q) /\ Homely(rows, q)) OBVIOUS
<1> HIDE DEF rows2
<1>4. RowsSound(rows2) BY <1>1, <1>2, <1>3, RowsGrow
<1> QED BY <1>2, <1>4 DEF rows2

LEMMA RowAdded ==
  ASSUME NEW rows, RowsSound(rows), NEW s, RowIs(s), s.parent = 0, s.next = 0
  PROVE  RowsSound(rows \cup {s}) /\ Later(rows, rows \cup {s})
<1> DEFINE rows2 == rows \cup {s}
<1>1. IsFiniteSet(rows2) BY FS_AddElement DEF RowsSound
<1>2. Later(rows, rows2) BY DEF Later, Onward
<1>3. Homely(rows, s) BY DEF Homely
<1>4. \A q \in rows2 : q \in rows \/ (RowIs(q) /\ Homely(rows, q)) BY <1>3
<1> HIDE DEF rows2
<1>5. RowsSound(rows2) BY <1>1, <1>2, <1>4, RowsGrow
<1> QED BY <1>2, <1>5 DEF rows2

\* The key of a new row is a number that no pointer takes for none.
LEMMA FreshIs ==
  ASSUME RowsSound(seeded), NEW n \in Nat, n # 0
  PROVE  Seeds!Fresh(n) \in Nat /\ Seeds!Fresh(n) # 0
<1>1. Cardinality(seeded) \in Nat BY FS_CardinalityType DEF RowsSound
<1> QED BY <1>1, SeedsCount DEF Seeds!Fresh

LEMMA LoadedIs ==
  ASSUME SeedingIInv, NEW b \in Pods PROVE Seeds!Version(b) \in Nat
BY DEF SeedingIInv, VersionsSound, BootSound, Seeds!Version

\* A file that loads: a list, a code to each value, pointers to codes of its own.
LEMMA LoadsIs ==
  ASSUME NEW f \in SeedFiles, Seeds!Loads(f)
  PROVE  /\ Len(f.values) \in Nat /\ DOMAIN f.values = 1 .. Len(f.values)
         /\ \A k \in DOMAIN f.values : f.values[k].langs # << >>
         /\ \A k \in DOMAIN f.values : \A c \in {f.values[k].parent, f.values[k].next} :
               c = Seeds!Null \/ \E j \in DOMAIN f.values : f.values[j].code = c
         /\ \A j, k \in DOMAIN f.values : f.values[j].code = f.values[k].code => j = k
<1> DEFINE vs == f.values
           N == 1 .. Len(vs)
           C == Seeds!CodesOf(f)
<1>1. vs \in Seq({vs[k] : k \in DOMAIN vs}) BY SeedingAssumption DEF SeedsAreLists
<1>2. Len(vs) \in Nat /\ DOMAIN vs = N BY <1>1
<1>3. \A k \in N : Seeds!ValueParses(vs[k]) /\ Seeds!PointersParse(f, vs[k]) BY <1>2 DEF Seeds!Loads
<1>4. \A k \in N : vs[k].langs # << >> BY <1>3 DEF Seeds!ValueParses
<1>5. \A c : c \in C <=> \E j \in N : vs[j].code = c BY <1>2 DEF Seeds!CodesOf
<1>6. \A k \in N : {vs[k].parent, vs[k].next} \subseteq C \cup {Seeds!Null} BY <1>3 DEF Seeds!PointersParse
<1>7. Cardinality(C) = Len(vs) BY SeedsCount DEF Seeds!Loads
<1> HIDE DEF C
<1>8. ASSUME NEW j \in N, NEW k \in N, vs[j].code = vs[k].code PROVE j = k
  <2> DEFINE g == [n \in N |-> vs[n].code]
  <2>1. g \in [N -> C] BY <1>5
  <2>2. g \in Surjection(N, C) BY <2>1, <1>5, Fun_IsSurj
  <2>3. IsFiniteSet(N) /\ Cardinality(N) = Len(vs) BY <1>2, FS_Interval
  <2>4. Cardinality(C) = Cardinality(N) <=> g \in Injection(N, C) BY <2>2, <2>3, FS_Surjection
  <2>5. g \in Injection(N, C) BY <2>3, <2>4, <1>7
  <2>6. \A n, m \in N : g[n] = g[m] => n = m BY <2>5 DEF Injection, IsInjective
  <2> QED BY <2>6, <1>8
<1> QED BY <1>2, <1>4, <1>5, <1>6, <1>8

LEMMA PlatformIs ==
  \A c, r : r \in Seeds!Platform(c) <=> r \in seeded /\ r.org = Seeds!Null /\ r.code = c
BY DEF Seeds!Platform

LEMMA AtIs ==
  ASSUME NEW s, NEW f, NEW i, NEW c, NEW h, NEW l, NEW x, x = Seeds!At(s, f, i, c, h, l)
  PROVE  /\ x = [at |-> x.at, file |-> x.file, i |-> x.i, changed |-> x.changed, healed |-> x.healed, loaded |-> x.loaded]
         /\ x.at = s /\ x.file = f /\ x.i = i /\ x.changed = c /\ x.healed = h /\ x.loaded = l
BY DEF Seeds!At

LEMMA OffIs == BootSound(Seeds!Off, seeded', orm) /\ ~ Seeds!Off.changed /\ ~ Begun(Seeds!Off)
BY DEF BootSound, Begun, Seeds!Off, Seeds!At

LEMMA SeedingBegins ==
  ASSUME SeedingIInv, NEW b \in Pods, NEW f \in SeedFiles, Seeds!BootBegins(b, f)
  PROVE  SeedingIInv'
<1>1. PICK x : x = Seeds!At("type", f, 1, FALSE, {}, 0) OBVIOUS
<1>2. /\ boot[b].at = "off" /\ Seeds!Loads(f) /\ boot' = [boot EXCEPT ![b] = x]
      /\ seeded' = seeded /\ UNCHANGED <<orm, listed, copying, amend, reader, unsure>>
  BY <1>1 DEF Seeds!BootBegins
<1>3. BootSound(x, seeded', orm) /\ ~ Begun(x) BY <1>1, <1>2 DEF BootSound, Begun, Seeds!At
<1>4. ~ boot[b].changed BY <1>2 DEF SeedingIInv, BootSound, Begun
<1>5. RowsSound(seeded') /\ Later(seeded, seeded') BY <1>2, LaterSame DEF SeedingIInv
<1> QED BY <1>2, <1>3, <1>4, <1>5, BootMoves

\* A type that is new has version 1, and no list a reader holds for sure has that version.
LEMMA TypeIsNew ==
  ASSUME SeedingIInv, listed.scope = Seeds!Null, NEW f
  PROVE  /\ Seeds!NewType(f) = [scope |-> Seeds!Declared(f), version |-> 1]
         /\ Seeds!Declared(f) # Seeds!Null
         /\ \A m \in Nat : 1 <= m /\ m <= reader.version => m \in unsure
<1>1. "platform" # Seeds!Null BY DEF Seeds!Null
<1>2. Seeds!Declared(f) # Seeds!Null BY <1>1 DEF Seeds!Declared
<1>3. listed.version = 0 BY DEF SeedingIInv
<1>4. \A m \in Nat : 1 <= m /\ m <= reader.version => m \in unsure BY <1>3 DEF SeedingIInv, VersionsSound
<1> QED BY <1>2, <1>4 DEF Seeds!NewType

LEMMA SeedingEnsuresType ==
  ASSUME SeedingIInv, NEW b \in Pods, Seeds!ensure_type(b)
  PROVE  SeedingIInv'
<1>1. /\ boot[b].at = "type" /\ ~ orm /\ seeded' = seeded /\ UNCHANGED <<orm, copying, amend, reader, unsure>>
  BY DEF Seeds!ensure_type
<1>2. PICK x : x = boot[b] OBVIOUS
<1>3. x.i = 1 /\ x.changed = FALSE /\ x.file \in SeedFiles /\ Seeds!Loads(x.file)
  BY <1>1, <1>2 DEF SeedingIInv, BootSound, Begun
<1> DEFINE y(l) == Seeds!At("values", x.file, x.i, x.changed, x.healed, l)
<1>5. \A k \in DOMAIN x.file.values : ~ k < 1
  BY <1>3, LoadsIs
<1>6. ASSUME NEW l \in Nat PROVE BootSound(y(l), seeded', orm) /\ ~ y(l).changed
  <2>1. PICK z : z = y(l) OBVIOUS
  <2>2. /\ z = [at |-> z.at, file |-> z.file, i |-> z.i, changed |-> z.changed, healed |-> z.healed, loaded |-> z.loaded]
        /\ z.at = "values" /\ z.file = x.file /\ z.i = 1 /\ z.changed = FALSE /\ z.loaded = l
    BY <1>3, <2>1, AtIs
  <2>3. z.changed \in BOOLEAN /\ ~ z.changed /\ Begun(z) BY <2>2 DEF Begun
  <2>4. \A k \in DOMAIN z.file.values : ~ k < z.i BY <1>5, <2>2
  <2> HIDE DEF y
  <2>5. BootSound(z, seeded', orm) BY <1>1, <1>3, <2>2, <2>3, <2>4 DEF BootSound
  <2> QED BY <2>1, <2>3, <2>5
<1>7. RowsSound(seeded') /\ Later(seeded, seeded') BY <1>1, LaterSame DEF SeedingIInv
<1>8. CASE listed.scope = Seeds!Null
  <2>1. listed' = Seeds!NewType(x.file) /\ boot' = [boot EXCEPT ![b] = y(1)]
    BY <1>2, <1>8 DEF Seeds!ensure_type
  <2>2. BootSound(y(1), seeded', orm) BY <1>6
  <2> HIDE DEF y
  <2>3. boot' = [c \in Pods |-> boot'[c]] /\ \A c \in Pods : boot'[c] = IF c = b THEN y(1) ELSE boot[c]
    BY <2>1 DEF SeedingIInv
  <2>4. \A c \in Pods : BootSound(boot'[c], seeded', orm') BY <1>1, <2>2, <2>3 DEF SeedingIInv
  <2> DEFINE sc == Seeds!Declared(x.file)
  <2>5. listed' = [scope |-> sc, version |-> 1] /\ sc # Seeds!Null /\ \A m \in Nat : 1 <= m /\ m <= reader.version => m \in unsure'
    BY <1>1, <1>8, <2>1, TypeIsNew
  <2> HIDE DEF sc
  <2>6. PendingSound' BY <1>1, PendingStays DEF SeedingIInv
  <2> QED BY <1>1, <1>7, <2>3, <2>4, <2>5, <2>6, VersionMoves
<1>9. CASE listed.scope # Seeds!Null
  <2>1. /\ listed' = listed
        /\ boot' = [boot EXCEPT ![b] = IF x.file.scope \in {Seeds!Null, listed.scope} THEN y(listed.version) ELSE Seeds!Off]
    BY <1>2, <1>9 DEF Seeds!ensure_type
  <2>2. BootSound(Seeds!Off, seeded', orm) BY OffIs
  <2>3. listed.version \in Nat BY DEF SeedingIInv, VersionsSound
  <2>4. BootSound(y(listed.version), seeded', orm) BY <1>6, <2>3
  <2> HIDE DEF y
  <2>5. PICK z : boot' = [boot EXCEPT ![b] = z] /\ BootSound(z, seeded', orm) BY <2>1, <2>2, <2>4
  <2> QED BY <1>1, <1>2, <1>3, <1>7, <1>9, <2>1, <2>5, BootMoves
<1> QED BY <1>8, <1>9

\* What a boot at its values knows of them, and of the one it is at.
LEMMA AtEntry ==
  ASSUME SeedingIInv, NEW b \in Pods, boot[b].at = "values"
  PROVE  /\ ~ orm /\ boot[b].file \in SeedFiles /\ Seeds!Loads(boot[b].file) /\ boot[b].i \in Nat
         /\ Begun(boot[b]) /\ listed.scope # Seeds!Null /\ boot[b].changed \in BOOLEAN
         /\ \A k \in DOMAIN boot[b].file.values : k < boot[b].i => Filled(seeded, boot[b].file.values[k], boot[b].healed)
         /\ \A k \in DOMAIN boot[b].file.values : k \in Nat /\ (k < boot[b].i + 1 => k < boot[b].i \/ k = boot[b].i)
<1>1. BootSound(boot[b], seeded, orm) /\ Begun(boot[b]) BY DEF SeedingIInv, Begun
<1>2. DOMAIN boot[b].file.values = 1 .. Len(boot[b].file.values) /\ Len(boot[b].file.values) \in Nat
  BY <1>1, LoadsIs DEF BootSound
<1>3. boot[b].i \in Nat BY <1>1 DEF BootSound
<1>4. ASSUME NEW k \in DOMAIN boot[b].file.values PROVE k \in Nat /\ (k < boot[b].i + 1 => k < boot[b].i \/ k = boot[b].i)
  BY <1>2, <1>3
<1> QED BY <1>1, <1>3, <1>4 DEF BootSound, SeedingIInv

\* A boot passes on from the value it is at, having filled its row.
LEMMA ValuePassed ==
  ASSUME SeedingIInv, NEW b \in Pods, Seeds!Seeds(b), NEW committed \in BOOLEAN, NEW healed,
         Seeds!Moved(b, "values", boot[b].i + 1, committed, healed),
         RowsSound(seeded'), Later(seeded, seeded'), seeded' # seeded => committed,
         Filled(seeded', Seeds!Entry(b), boot[b].healed \cup healed),
         UNCHANGED <<orm, listed, copying, amend, reader, unsure>>
  PROVE  SeedingIInv'
<1> DEFINE c == boot[b].changed \/ committed
           h == boot[b].healed \cup healed
           l == IF committed THEN 0 ELSE Seeds!Version(b)
           vs == boot[b].file.values
<1>1. boot[b].at = "values" BY DEF Seeds!Seeds
<1>2. PICK x : x = Seeds!At("values", boot[b].file, boot[b].i + 1, c, h, l) OBVIOUS
<1>3. boot' = [boot EXCEPT ![b] = x]
  <2>1. boot' = [boot EXCEPT ![b] = Seeds!At("values", boot[b].file, boot[b].i + 1, boot[b].changed \/ committed,
                                             boot[b].healed \cup healed, IF committed THEN 0 ELSE Seeds!Version(b))]
    BY Zenon DEF Seeds!Moved
  <2> QED BY <1>2, <2>1, Zenon
<1>4. c \in BOOLEAN /\ (boot[b].changed => c) /\ (committed => c) /\ l \in Nat BY <1>1, AtEntry, LoadedIs
<1>5. Seeds!Entry(b) = vs[boot[b].i] BY DEF Seeds!Entry
<1>6. ASSUME NEW k \in DOMAIN vs, k < boot[b].i + 1 PROVE Filled(seeded', vs[k], h)
  <2>1. CASE k < boot[b].i
    <3>1. Filled(seeded, vs[k], boot[b].healed) BY <1>1, <2>1, AtEntry
    <3> QED BY <3>1 DEF Filled, Later, Onward
  <2>2. CASE k = boot[b].i BY <1>5, <2>2
  <2> QED BY <1>1, <1>6, <2>1, <2>2, AtEntry
<1> HIDE DEF c, h, l
<1>7. /\ x = [at |-> x.at, file |-> x.file, i |-> x.i, changed |-> x.changed, healed |-> x.healed, loaded |-> x.loaded]
      /\ x.at = "values" /\ x.file = boot[b].file /\ x.i = boot[b].i + 1 /\ x.changed = c /\ x.healed = h /\ x.loaded = l
  BY <1>2, AtIs
<1>8. Begun(x) /\ x.i \in Nat BY <1>1, <1>7, AtEntry DEF Begun
<1>9. BootSound(x, seeded', orm) BY <1>1, <1>4, <1>6, <1>7, <1>8, AtEntry DEF BootSound
<1>10. seeded' # seeded => x.changed BY <1>4, <1>7
<1>11. boot[b].changed => x.changed BY <1>4, <1>7
<1>12. listed.scope # Seeds!Null BY <1>1, AtEntry
<1> QED BY <1>3, <1>9, <1>10, <1>11, <1>12, BootMoves

\* The value a boot is at is one of the file's.
LEMMA EntryIs ==
  ASSUME SeedingIInv, NEW b \in Pods, Seeds!Seeds(b)
  PROVE  Seeds!Entry(b).langs # << >> /\ Seeds!LabelOf(Seeds!Entry(b)) = "file"
<1>1. boot[b].at = "values" /\ boot[b].i <= Len(boot[b].file.values) BY DEF Seeds!Seeds
<1>2. BootSound(boot[b], seeded, orm) /\ boot[b].i \in Nat BY DEF SeedingIInv, BootSound
<1>3. boot[b].file \in SeedFiles /\ Seeds!Loads(boot[b].file) BY <1>1, AtEntry
<1>4. boot[b].i # 0 BY DEF SeedingIInv, BootSound
<1> QED BY <1>1, <1>2, <1>3, <1>4, LoadsIs DEF Seeds!Entry, Seeds!LabelOf

LEMMA NewRowIs ==
  ASSUME NEW id \in Nat, id # 0, NEW v, NEW r, r = Seeds!NewRow(id, v)
  PROVE  /\ RowIs(r) /\ r.org = Seeds!Null /\ r.code = v.code /\ r.parent = 0 /\ r.next = 0
         /\ r.label = Seeds!LabelOf(v) /\ (v.meta => r.meta # "none")
BY DEF Seeds!NewRow, Seeds!Row, RowIs

LEMMA SeedingInserts ==
  ASSUME SeedingIInv, NEW b \in Pods, Seeds!InsertValue(b)
  PROVE  SeedingIInv'
<1>1. /\ Seeds!Seeds(b) /\ UNCHANGED <<orm, listed, copying, amend, reader, unsure>>
      /\ Seeds!Moved(b, "values", boot[b].i + 1, TRUE, {})
  BY DEF Seeds!InsertValue
<1>2. PICK r : r = Seeds!NewRow(Seeds!Fresh(1), Seeds!Entry(b)) OBVIOUS
<1>3. seeded' = seeded \cup {r} BY <1>2 DEF Seeds!InsertValue
<1>4. RowsSound(seeded) BY DEF SeedingIInv
<1>5. Seeds!Fresh(1) \in Nat /\ Seeds!Fresh(1) # 0 BY <1>4, FreshIs
<1>6. /\ RowIs(r) /\ r.org = Seeds!Null /\ r.code = Seeds!Entry(b).code /\ r.parent = 0 /\ r.next = 0
      /\ r.label = "file" /\ (Seeds!Entry(b).meta => r.meta # "none")
  BY <1>1, <1>2, <1>5, NewRowIs, EntryIs
<1>7. RowsSound(seeded') /\ Later(seeded, seeded') BY <1>3, <1>4, <1>6, RowAdded
<1>8. Filled(seeded', Seeds!Entry(b), boot[b].healed \cup {}) BY <1>3, <1>6 DEF Filled
<1> QED BY <1>1, <1>7, <1>8, ValuePassed

LEMMA SeedingHeals ==
  ASSUME SeedingIInv, NEW b \in Pods, Seeds!HealValue(b)
  PROVE  SeedingIInv'
<1> DEFINE v == Seeds!Entry(b)
<1>1. /\ Seeds!Seeds(b) /\ UNCHANGED <<orm, listed, copying, amend, reader, unsure>>
      /\ Seeds!Moved(b, "values", boot[b].i + 1, TRUE, {v.code})
  BY DEF Seeds!HealValue
<1>2. PICK r \in Seeds!Platform(v.code) :
        r.label = "none" /\ seeded' = Seeds!Replaced(r, [r EXCEPT !.label = Seeds!LabelOf(v)])
  BY DEF Seeds!HealValue
<1>3. RowsSound(seeded) BY DEF SeedingIInv
<1>4. r \in seeded /\ r.org = Seeds!Null /\ r.code = v.code BY <1>2, PlatformIs
<1>5. RowIs(r) /\ Homely(seeded, r) BY <1>3, <1>4 DEF RowsSound
<1>6. PICK s : s = [r EXCEPT !.label = "file"] OBVIOUS
<1>7. s = [id |-> r.id, org |-> r.org, code |-> r.code, label |-> "file", meta |-> r.meta, parent |-> r.parent, next |-> r.next]
  BY <1>5, <1>6 DEF RowIs
<1>8. RowIs(s) /\ Onward(r, s) /\ Homely(seeded, s) /\ s.org = r.org /\ s.code = r.code /\ s.label = "file"
  BY <1>5, <1>7 DEF RowIs, Onward, Homely
<1>9. seeded' = (seeded \ {r}) \cup {s} BY <1>1, <1>2, <1>6, EntryIs DEF Seeds!Replaced
<1>10. RowsSound(seeded') /\ Later(seeded, seeded') BY <1>3, <1>4, <1>8, <1>9, RowReplaced
<1>11. Filled(seeded', v, boot[b].healed \cup {v.code}) BY <1>4, <1>8, <1>9 DEF Filled
<1> QED BY <1>1, <1>10, <1>11, ValuePassed

LEMMA SeedingKeeps ==
  ASSUME SeedingIInv, NEW b \in Pods, Seeds!KeepValue(b)
  PROVE  SeedingIInv'
<1> DEFINE v == Seeds!Entry(b)
<1>1. Seeds!Seeds(b) /\ UNCHANGED <<orm, listed, copying, amend, reader, unsure>> BY DEF Seeds!KeepValue
<1>2. PICK r \in Seeds!Platform(v.code) :
        /\ r.label # "none" /\ seeded' = Seeds!Replaced(r, Seeds!TopUp(r, v))
        /\ Seeds!Moved(b, "values", boot[b].i + 1, Seeds!TopUp(r, v) # r, {})
  BY DEF Seeds!KeepValue
<1>3. RowsSound(seeded) BY DEF SeedingIInv
<1>4. r \in seeded /\ r.org = Seeds!Null /\ r.code = v.code BY <1>2, PlatformIs
<1>5. RowIs(r) /\ Homely(seeded, r) BY <1>3, <1>4 DEF RowsSound
<1>6. PICK s : s = Seeds!TopUp(r, v) OBVIOUS
<1>7. RowIs(s) /\ Onward(r, s) /\ Homely(seeded, s) /\ s.org = r.org /\ s.code = r.code /\ s.label = r.label /\ (v.meta => s.meta # "none")
  <2>1. CASE v.meta /\ r.meta = "none"
    <3>1. s = [r EXCEPT !.meta = "file"] BY <1>6, <2>1 DEF Seeds!TopUp
    <3>2. s = [id |-> r.id, org |-> r.org, code |-> r.code, label |-> r.label, meta |-> "file", parent |-> r.parent, next |-> r.next]
      BY <1>5, <3>1 DEF RowIs
    <3> QED BY <1>5, <2>1, <3>2 DEF RowIs, Onward, Homely
  <2>2. CASE ~ (v.meta /\ r.meta = "none")
    <3>1. s = r BY <1>6, <2>2 DEF Seeds!TopUp
    <3> QED BY <1>5, <2>2, <3>1 DEF Onward
  <2> QED BY <2>1, <2>2
<1>8. seeded' = (seeded \ {r}) \cup {s} BY <1>2, <1>6 DEF Seeds!Replaced
<1>9. RowsSound(seeded') /\ Later(seeded, seeded') BY <1>3, <1>4, <1>7, <1>8, RowReplaced
<1>10. Filled(seeded', v, boot[b].healed \cup {}) BY <1>2, <1>4, <1>7, <1>8 DEF Filled
<1>11. PICK committed \in BOOLEAN : committed = (s # r) OBVIOUS
<1>12. Seeds!Moved(b, "values", boot[b].i + 1, committed, {}) BY <1>2, <1>6, <1>11
<1>13. seeded' # seeded => committed BY <1>4, <1>8, <1>11
<1> QED BY <1>1, <1>9, <1>10, <1>12, <1>13, ValuePassed

LEMMA SeedingEndsValues ==
  ASSUME SeedingIInv, NEW b \in Pods, Seeds!ValuesEnd(b)
  PROVE  SeedingIInv'
<1>1. /\ boot[b].at = "values" /\ boot[b].i > Len(boot[b].file.values) /\ seeded' = seeded
      /\ UNCHANGED <<orm, listed, copying, amend, reader, unsure>>
  BY DEF Seeds!ValuesEnd
<1>2. PICK y : y = boot[b] OBVIOUS
<1>3. PICK x : x = Seeds!At("links", y.file, y.i, y.changed, y.healed, y.loaded) OBVIOUS
<1>4. boot' = [boot EXCEPT ![b] = x] BY <1>2, <1>3, Zenon DEF Seeds!ValuesEnd
<1>5. BootSound(y, seeded, orm) /\ listed.scope # Seeds!Null BY <1>1, <1>2, AtEntry DEF SeedingIInv
<1>6. /\ x = [at |-> x.at, file |-> x.file, i |-> x.i, changed |-> x.changed, healed |-> x.healed, loaded |-> x.loaded]
      /\ x.at = "links" /\ x.file = y.file /\ x.i = y.i /\ x.changed = y.changed /\ x.healed = y.healed /\ x.loaded = y.loaded
  BY <1>3, AtIs
<1>7. y.file \in SeedFiles /\ Seeds!Loads(y.file) /\ y.i \in Nat BY <1>1, <1>2, AtEntry
<1>8. \A k \in DOMAIN y.file.values : Filled(seeded, y.file.values[k], y.healed)
  <2>1. \A k \in DOMAIN y.file.values : k < y.i BY <1>1, <1>2, <1>7, LoadsIs
  <2> QED BY <1>1, <1>2, <2>1, AtEntry
<1>9. \A k \in DOMAIN y.file.values : Standing(seeded, y.file.values[k]) BY <1>8 DEF Filled, Standing
<1>10. Begun(x) BY <1>6 DEF Begun
<1>11. BootSound(x, seeded', orm)
  <2>1. y.changed \in BOOLEAN /\ y.i \in Nat /\ y.i # 0 /\ y.loaded \in Nat BY <1>5 DEF BootSound
  <2>2. x.changed \in BOOLEAN BY <1>6, <2>1
  <2> QED BY <1>1, <1>6, <1>7, <1>8, <1>9, <1>10, <2>1, <2>2 DEF BootSound
<1>12. RowsSound(seeded') /\ Later(seeded, seeded') BY <1>1, LaterSame DEF SeedingIInv
<1> QED BY <1>1, <1>2, <1>4, <1>5, <1>6, <1>11, <1>12, BootMoves

\* The rows the ORM seeder adds for the values of a file that have none.
LEMMA RowsSeeded ==
  ASSUME RowsSound(seeded), NEW f \in SeedFiles, Seeds!Loads(f), NEW new, NEW nth, NEW rows2,
         \A k : k \in new <=> k \in DOMAIN f.values /\ Seeds!Platform(f.values[k].code) = {},
         \A k \in new : nth[k] \in Nat /\ nth[k] # 0, IsFiniteSet(new),
         \A r : r \in rows2 <=> r \in seeded \/ \E k \in new : r = Seeds!NewRow(Seeds!Fresh(nth[k]), f.values[k])
  PROVE  /\ RowsSound(rows2) /\ Later(seeded, rows2)
         /\ \A k \in DOMAIN f.values : Standing(rows2, f.values[k])
<1> DEFINE row(k) == Seeds!NewRow(Seeds!Fresh(nth[k]), f.values[k])
<1>1. ASSUME NEW k \in new
      PROVE  RowIs(row(k)) /\ row(k).org = Seeds!Null /\ row(k).code = f.values[k].code /\ row(k).parent = 0 /\ row(k).next = 0
  <2>1. Seeds!Fresh(nth[k]) \in Nat /\ Seeds!Fresh(nth[k]) # 0 BY FreshIs
  <2> QED BY <2>1, NewRowIs
<1> DEFINE g == [k \in new |-> row(k)]
           made == {row(k) : k \in new}
<1>2. IsFiniteSet(rows2)
  <2>1. g = [k \in new |-> g[k]] /\ \A r : r \in made <=> \E k \in new : r = g[k] OBVIOUS
  <2> HIDE DEF g
  <2>2. \A r : r \in made <=> \E k \in new : r = g[k] BY <2>1
  <2> HIDE DEF made
  <2>3. IsFiniteSet(made) BY <2>1, <2>2, ImageFinite
  <2> USE DEF made
  <2>4. rows2 = seeded \cup made OBVIOUS
  <2> HIDE DEF made
  <2> QED BY <2>3, <2>4, FS_Union DEF RowsSound
<1> HIDE DEF row, g, made
<1>3. \A r : r \in rows2 <=> r \in seeded \/ \E k \in new : r = row(k) BY DEF row
<1>4. Later(seeded, rows2) BY <1>3 DEF Later, Onward
<1>5. \A r \in rows2 : r \in seeded \/ (RowIs(r) /\ Homely(seeded, r)) BY <1>1, <1>3 DEF Homely
<1>6. RowsSound(rows2) BY <1>2, <1>4, <1>5, RowsGrow
<1>7. ASSUME NEW k \in DOMAIN f.values PROVE Standing(rows2, f.values[k])
  <2>1. CASE k \in new BY <1>1, <1>3, <2>1 DEF Standing
  <2>2. CASE k \notin new
    <3>1. PICK r : r \in Seeds!Platform(f.values[k].code) BY <2>2
    <3>2. r \in seeded /\ r.org = Seeds!Null /\ r.code = f.values[k].code BY <3>1, PlatformIs
    <3> QED BY <1>3, <3>2 DEF Standing
  <2> QED BY <2>1, <2>2
<1> QED BY <1>4, <1>6, <1>7

LEMMA SeedingSeedsType ==
  ASSUME SeedingIInv, NEW b \in Pods, Seeds!seed_type(b)
  PROVE  SeedingIInv'
<1> DEFINE f == boot[b].file
           new == {k \in DOMAIN f.values : Seeds!Platform(f.values[k].code) = {}}
           nth(k) == Seeds!Cardinality({j \in new : j <= k})
<1>1. boot[b].at = "type" /\ orm /\ UNCHANGED <<orm, copying, amend, reader, unsure>>
  BY DEF Seeds!seed_type
<1>2. listed' = IF listed.scope = Seeds!Null THEN Seeds!NewType(f) ELSE listed BY Zenon DEF Seeds!seed_type
<1>3. seeded' = seeded \cup {Seeds!NewRow(Seeds!Fresh(nth(k)), f.values[k]) : k \in new} BY Zenon DEF Seeds!seed_type
<1>4. boot' = [boot EXCEPT ![b] = Seeds!At("links", f, boot[b].i, new # {}, boot[b].healed, listed'.version)]
  BY Zenon DEF Seeds!seed_type
<1>5. boot[b].i = 1 /\ f \in SeedFiles /\ Seeds!Loads(f) /\ ~ boot[b].changed
  BY <1>1 DEF SeedingIInv, BootSound, Begun
<1>6. \A k : k \in new <=> k \in DOMAIN f.values /\ Seeds!Platform(f.values[k].code) = {} OBVIOUS
<1>7. IsFiniteSet(new)
  <2>1. PICK n \in Nat : DOMAIN f.values = 1 .. n BY <1>5, LoadsIs
  <2>2. n \in Int /\ 1 \in Int BY <2>1
  <2>3. IsFiniteSet(1 .. n) BY <2>2, FS_Interval
  <2>4. new \in SUBSET (1 .. n) BY <2>1
  <2> QED BY <2>3, <2>4, FS_Subset
<1>8. ASSUME NEW k \in new PROVE nth(k) \in Nat /\ nth(k) # 0
  <2>1. DOMAIN f.values = 1 .. Len(f.values) /\ Len(f.values) \in Nat BY <1>5, LoadsIs
  <2>2. k \in Nat BY <2>1
  <2>3. k <= k BY <2>2
  <2>4. k \in {j \in new : j <= k} /\ {j \in new : j <= k} \in SUBSET new BY <2>3
  <2>5. IsFiniteSet({j \in new : j <= k}) BY <1>7, <2>4, FS_Subset
  <2>6. Cardinality({j \in new : j <= k}) \in Nat /\ Cardinality({j \in new : j <= k}) # 0
    BY <2>4, <2>5, FS_CardinalityType, FS_EmptySet
  <2> QED BY <2>6, SeedsCount
<1>9. \A r : r \in seeded' <=> r \in seeded \/ \E k \in new : r = Seeds!NewRow(Seeds!Fresh(nth(k)), f.values[k]) BY <1>3
<1> DEFINE count == [k \in new |-> nth(k)]
<1>10. \A k \in new : count[k] \in Nat /\ count[k] # 0 BY <1>8
<1>11. \A r : r \in seeded' <=> r \in seeded \/ \E k \in new : r = Seeds!NewRow(Seeds!Fresh(count[k]), f.values[k])
  BY <1>9
<1>12. PICK c \in BOOLEAN : c = (new # {}) OBVIOUS
<1>13. seeded' # seeded => c BY <1>9, <1>12
<1>14. RowsSound(seeded) BY DEF SeedingIInv
<1> HIDE DEF nth, new, count
<1>15. /\ RowsSound(seeded') /\ Later(seeded, seeded')
       /\ \A k \in DOMAIN f.values : Standing(seeded', f.values[k])
  BY <1>5, <1>6, <1>7, <1>14, <1>10, <1>11, RowsSeeded
<1>16. PICK x : x = Seeds!At("links", f, boot[b].i, c, boot[b].healed, listed'.version) OBVIOUS
<1>17. boot' = [boot EXCEPT ![b] = x] BY <1>4, <1>12, <1>16
<1>18. /\ x = [at |-> x.at, file |-> x.file, i |-> x.i, changed |-> x.changed, healed |-> x.healed, loaded |-> x.loaded]
       /\ x.at = "links" /\ x.file = f /\ x.i = boot[b].i /\ x.changed = c /\ x.healed = boot[b].healed /\ x.loaded = listed'.version
  BY <1>16, AtIs
<1>19. Begun(x) /\ x.changed \in BOOLEAN BY <1>12, <1>18 DEF Begun
<1>20. listed'.version \in Nat => BootSound(x, seeded', orm) BY <1>1, <1>5, <1>15, <1>18, <1>19 DEF BootSound
<1>21. CASE listed.scope # Seeds!Null
  <2>1. listed' = listed BY <1>2, <1>21
  <2>2. BootSound(x, seeded', orm) BY <1>20, <2>1 DEF SeedingIInv, VersionsSound
  <2>3. (seeded' # seeded => x.changed) /\ (boot[b].changed => x.changed) BY <1>5, <1>13, <1>18
  <2> QED BY <1>1, <1>15, <1>17, <1>21, <2>1, <2>2, <2>3, BootMoves
<1>22. CASE listed.scope = Seeds!Null
  <2> DEFINE sc == Seeds!Declared(f)
  <2>1. listed' = [scope |-> sc, version |-> 1] /\ sc # Seeds!Null /\ \A m \in Nat : 1 <= m /\ m <= reader.version => m \in unsure'
    BY <1>1, <1>2, <1>22, TypeIsNew
  <2> HIDE DEF sc
  <2>2. BootSound(x, seeded', orm) BY <1>20, <2>1
  <2>3. boot' = [d \in Pods |-> boot'[d]] /\ \A d \in Pods : boot'[d] = IF d = b THEN x ELSE boot[d]
    BY <1>17 DEF SeedingIInv
  <2>4. orm \in BOOLEAN /\ orm' = orm BY <1>1 DEF SeedingIInv
  <2>5. \A d \in Pods : BootSound(boot[d], seeded', orm) BY <1>15, <2>4, BootOnward DEF SeedingIInv
  <2>6. \A d \in Pods : BootSound(boot'[d], seeded', orm') BY <2>2, <2>3, <2>4, <2>5
  <2>7. PendingSound' BY <1>1, PendingStays DEF SeedingIInv
  <2> QED BY <1>1, <1>15, <2>1, <2>3, <2>6, <2>7, VersionMoves
<1> QED BY <1>21, <1>22

\* A boot leaves, and with it, if it changed something, whatever version stands is unsure.
LEMMA SeedingDies ==
  ASSUME SeedingIInv, NEW b \in Pods, Seeds!BootDies(b)
  PROVE  SeedingIInv'
<1>1. /\ boot' = [boot EXCEPT ![b] = Seeds!Off] /\ seeded' = seeded /\ UNCHANGED <<orm, listed, copying, amend, reader>>
      /\ unsure' = IF boot[b].changed THEN unsure \cup {listed.version} ELSE unsure
  BY DEF Seeds!BootDies
<1>2. RowsSound(seeded') /\ Later(seeded, seeded') BY <1>1, LaterSame DEF SeedingIInv
<1>3. PICK x : x = Seeds!Off OBVIOUS
<1>4. BootSound(x, seeded', orm) /\ ~ x.changed /\ ~ Begun(x) BY <1>3, OffIs
<1>5. CASE ~ boot[b].changed BY <1>1, <1>2, <1>3, <1>4, <1>5, BootMoves
<1>6. CASE boot[b].changed
  <2>1. listed.scope # Seeds!Null BY <1>6 DEF SeedingIInv, BootSound
  <2>2. listed' = [scope |-> listed.scope, version |-> listed.version] /\ listed.version \in Nat
    BY <1>1 DEF SeedingIInv, VersionsSound
  <2>3. \A m \in Nat : listed.version <= m /\ m <= reader.version => m \in unsure'
    <3>1. unsure' = unsure \cup {listed.version} BY <1>1, <1>6
    <3>2. \A m \in Nat : listed.version < m /\ m <= reader.version => m \in unsure BY DEF SeedingIInv, VersionsSound
    <3>3. \A m \in Nat : listed.version <= m => m = listed.version \/ listed.version < m BY <2>2
    <3> QED BY <3>1, <3>2, <3>3
  <2>4. boot' = [d \in Pods |-> boot'[d]] /\ \A d \in Pods : boot'[d] = IF d = b THEN x ELSE boot[d]
    BY <1>1, <1>3 DEF SeedingIInv
  <2>5. \A d \in Pods : BootSound(boot'[d], seeded', orm')
    BY <1>1, <1>4, <2>4 DEF SeedingIInv
  <2>6. PendingSound' BY <1>1, PendingStays DEF SeedingIInv
  <2> QED BY <1>1, <1>2, <2>1, <2>2, <2>3, <2>4, <2>5, <2>6, VersionMoves
<1> QED BY <1>5, <1>6

LEMMA SeedingBumps ==
  ASSUME SeedingIInv, NEW b \in Pods, Seeds!bump_version_if(b)
  PROVE  SeedingIInv'
<1>1. boot[b].at = "bump" /\ boot' = [boot EXCEPT ![b] = Seeds!Off] /\ seeded' = seeded /\ UNCHANGED <<orm, copying, amend, reader>>
  BY DEF Seeds!bump_version_if
<1>2. RowsSound(seeded') /\ Later(seeded, seeded') BY <1>1, LaterSame DEF SeedingIInv
<1>3. PICK x : x = Seeds!Off OBVIOUS
<1>4. BootSound(x, seeded', orm) /\ ~ x.changed /\ ~ Begun(x) BY <1>3, OffIs
<1>5. CASE ~ boot[b].changed
  <2>1. UNCHANGED <<listed, unsure>> BY <1>5 DEF Seeds!bump_version_if, Seeds!Bumps
  <2> QED BY <1>1, <1>2, <1>3, <1>4, <1>5, <2>1, BootMoves
<1>6. CASE boot[b].changed
  <2> DEFINE n == Seeds!Version(b) + 1
  <2>1. listed' = [listed EXCEPT !.version = n] /\ unsure' = unsure \cup (n .. listed.version)
    BY <1>6 DEF Seeds!bump_version_if, Seeds!Bumps, Seeds!Writes
  <2>2. n \in Nat /\ listed.version \in Nat BY LoadedIs DEF SeedingIInv, VersionsSound
  <2>3. listed.scope # Seeds!Null BY <1>6 DEF SeedingIInv, BootSound
  <2> HIDE DEF n
  <2>4. listed' = [scope |-> listed.scope, version |-> n] BY <2>1 DEF SeedingIInv
  <2>5. \A m \in Nat : n <= m /\ m <= reader.version => m \in unsure'
    <3>1. \A m \in Nat : listed.version < m /\ m <= reader.version => m \in unsure BY DEF SeedingIInv, VersionsSound
    <3>2. \A m \in Nat : n <= m => m \in n .. listed.version \/ listed.version < m BY <2>2
    <3> QED BY <2>1, <3>1, <3>2
  <2>6. boot' = [d \in Pods |-> boot'[d]] /\ \A d \in Pods : boot'[d] = IF d = b THEN x ELSE boot[d]
    BY <1>1, <1>3 DEF SeedingIInv
  <2>7. \A d \in Pods : BootSound(boot'[d], seeded', orm') BY <1>1, <1>4, <2>6 DEF SeedingIInv
  <2>8. PendingSound' BY <1>1, PendingStays DEF SeedingIInv
  <2> QED BY <1>1, <1>2, <2>2, <2>3, <2>4, <2>5, <2>6, <2>7, <2>8, VersionMoves
<1> QED BY <1>5, <1>6

LEMMA PointersAre ==
  ASSUME NEW r, r = [id |-> r.id, org |-> r.org, code |-> r.code, label |-> r.label, meta |-> r.meta,
                     parent |-> r.parent, next |-> r.next], NEW p, NEW n
  PROVE  [r EXCEPT !.parent = p, !.next = n]
         = [id |-> r.id, org |-> r.org, code |-> r.code, label |-> r.label, meta |-> r.meta, parent |-> p, next |-> n]
<1>1. PICK w : w = [r EXCEPT !.parent = p] OBVIOUS
<1>2. w = [id |-> r.id, org |-> r.org, code |-> r.code, label |-> r.label, meta |-> r.meta, parent |-> p, next |-> r.next]
  BY <1>1
<1>3. /\ w = [id |-> w.id, org |-> w.org, code |-> w.code, label |-> w.label, meta |-> w.meta, parent |-> w.parent, next |-> w.next]
      /\ w.id = r.id /\ w.org = r.org /\ w.code = r.code /\ w.label = r.label /\ w.meta = r.meta /\ w.parent = p
  BY <1>2
<1>4. [w EXCEPT !.next = n]
      = [id |-> w.id, org |-> w.org, code |-> w.code, label |-> w.label, meta |-> w.meta, parent |-> w.parent, next |-> n]
  BY <1>3
<1>5. [r EXCEPT !.parent = p, !.next = n] = [[r EXCEPT !.parent = p] EXCEPT !.next = n] OBVIOUS
<1> QED BY <1>1, <1>3, <1>4, <1>5

\* The row of a code that has one is of the platform, and is not taken for none.
LEMMA IdIs ==
  ASSUME RowsSound(seeded), NEW c, c = Seeds!Null \/ \E r \in seeded : r.org = Seeds!Null /\ r.code = c
  PROVE  IF c = Seeds!Null THEN Seeds!IdOf(c) = 0
         ELSE Seeds!IdOf(c) # 0 /\ \E w \in seeded : w.id = Seeds!IdOf(c) /\ w.org = Seeds!Null
<1> DEFINE ids == {r.id : r \in Seeds!Platform(c)}
<1>1. CASE c = Seeds!Null BY <1>1 DEF Seeds!IdOf
<1>2. CASE c # Seeds!Null
  <2>1. Seeds!IdOf(c) = CHOOSE id \in ids : TRUE BY <1>2 DEF Seeds!IdOf
  <2>2. PICK r \in seeded : r.org = Seeds!Null /\ r.code = c BY <1>2
  <2>3. r \in Seeds!Platform(c) BY <2>2, PlatformIs
  <2>4. ids # {} BY <2>3
  <2>5. Seeds!IdOf(c) \in ids BY <2>1, <2>4
  <2>6. PICK w \in Seeds!Platform(c) : w.id = Seeds!IdOf(c) BY <2>5
  <2>7. w \in seeded /\ w.org = Seeds!Null BY <2>6, PlatformIs
  <2>8. w.id # 0 BY <2>7 DEF RowsSound, RowIs
  <2> QED BY <1>2, <2>6, <2>7, <2>8
<1> QED BY <1>1, <1>2

LEMMA LinkedIs ==
  ASSUME RowsSound(seeded), NEW f \in SeedFiles, Seeds!Loads(f),
         \A k \in DOMAIN f.values : Standing(seeded, f.values[k]),
         NEW r \in seeded, NEW s, s = Seeds!Linked(r, f)
  PROVE  /\ RowIs(s) /\ Onward(r, s) /\ Homely(seeded, s) /\ s.label = r.label /\ s.meta = r.meta
         /\ \A k \in DOMAIN f.values : r.org = Seeds!Null /\ r.code = f.values[k].code =>
               (f.values[k].parent # Seeds!Null => s.parent # 0) /\ (f.values[k].next # Seeds!Null => s.next # 0)
<1>1. RowIs(r) /\ Homely(seeded, r) BY DEF RowsSound
<1> DEFINE K == Seeds!EntryOf(f, r.code)
<1>2. \A k : k \in K <=> k \in DOMAIN f.values /\ f.values[k].code = r.code BY DEF Seeds!EntryOf
<1>3. CASE r.org # Seeds!Null \/ K = {}
  <2>1. s = r BY <1>3 DEF Seeds!Linked
  <2>2. ASSUME NEW k \in DOMAIN f.values, r.org = Seeds!Null, r.code = f.values[k].code PROVE FALSE BY <1>2, <1>3, <2>2
  <2> QED BY <1>1, <2>1, <2>2 DEF Onward
<1>4. CASE r.org = Seeds!Null /\ K # {}
  <2> DEFINE k0 == CHOOSE k \in K : TRUE
             v == f.values[k0]
             p == IF r.parent = 0 THEN Seeds!IdOf(v.parent) ELSE r.parent
             n == IF r.next = 0 THEN Seeds!IdOf(v.next) ELSE r.next
  <2>1. k0 \in K BY <1>4
  <2>2. s = Seeds!Pointed(r, v) BY <1>4 DEF Seeds!Linked
  <2>3. s = [r EXCEPT !.parent = p, !.next = n] BY <2>2, Zenon DEF Seeds!Pointed
  <2> HIDE DEF k0, p, n
  <2>4. s = [id |-> r.id, org |-> r.org, code |-> r.code, label |-> r.label, meta |-> r.meta, parent |-> p, next |-> n]
    BY <1>1, <2>3, PointersAre DEF RowIs
  <2>5. k0 \in DOMAIN f.values /\ v.code = r.code BY <1>2, <2>1
  <2>6. \A c \in {v.parent, v.next} : c = Seeds!Null \/ \E q \in seeded : q.org = Seeds!Null /\ q.code = c
    <3>1. ASSUME NEW c \in {v.parent, v.next}, c # Seeds!Null PROVE \E q \in seeded : q.org = Seeds!Null /\ q.code = c
      <4>1. PICK j \in DOMAIN f.values : f.values[j].code = c BY <2>5, <3>1, LoadsIs
      <4> QED BY <4>1 DEF Standing
    <3> QED BY <3>1
  <2>7. \A c \in {v.parent, v.next} : IF c = Seeds!Null THEN Seeds!IdOf(c) = 0
           ELSE Seeds!IdOf(c) # 0 /\ \E w \in seeded : w.id = Seeds!IdOf(c) /\ w.org = Seeds!Null
    BY <2>6, IdIs
  <2>8. /\ p # 0 => p = r.parent \/ \E w \in seeded : w.id = p /\ w.org = Seeds!Null
        /\ n # 0 => n = r.next \/ \E w \in seeded : w.id = n /\ w.org = Seeds!Null
        /\ r.parent # 0 \/ v.parent # Seeds!Null => p # 0
        /\ r.next # 0 \/ v.next # Seeds!Null => n # 0
    BY <2>7 DEF p, n
  <2>9. s.id = r.id /\ s.org = r.org /\ s.code = r.code /\ s.label = r.label /\ s.meta = r.meta /\ s.parent = p /\ s.next = n
    BY <2>4
  <2>10. RowIs(s) BY <1>1, <2>4, <2>9 DEF RowIs
  <2>11. Onward(r, s) BY <2>8, <2>9 DEF Onward
  <2>12. Homely(seeded, s) BY <1>1, <1>4, <2>8, <2>9 DEF Homely
  <2>13. ASSUME NEW k \in DOMAIN f.values, r.code = f.values[k].code PROVE f.values[k] = v
    <3>1. k = k0 BY <2>5, <2>13, LoadsIs
    <3> QED BY <3>1
  <2> QED BY <2>8, <2>9, <2>10, <2>11, <2>12, <2>13
<1> QED BY <1>3, <1>4

LEMMA SeedingLinks ==
  ASSUME SeedingIInv, NEW b \in Pods, Seeds!LinkPass(b)
  PROVE  SeedingIInv'
<1> DEFINE f == boot[b].file
           linked == [r \in seeded |-> Seeds!Linked(r, f)]
<1>1. boot[b].at = "links" /\ UNCHANGED <<orm, listed, copying, amend, reader, unsure>> BY DEF Seeds!LinkPass
<1>2. \A s : s \in seeded' <=> \E r \in seeded : s = Seeds!Linked(r, f) BY DEF Seeds!LinkPass
<1>3. PICK committed \in BOOLEAN : committed = (seeded' # seeded) OBVIOUS
<1>4. boot' = [boot EXCEPT ![b] = Seeds!At("bump", f, boot[b].i, boot[b].changed \/ committed,
                                           boot[b].healed \cup {}, IF committed THEN 0 ELSE Seeds!Version(b))]
  <2>1. Seeds!Moved(b, "bump", boot[b].i, committed, {}) BY <1>3 DEF Seeds!LinkPass
  <2> QED BY <2>1, Zenon DEF Seeds!Moved
<1>5. PICK y : y = boot[b] OBVIOUS
<1>6. /\ BootSound(y, seeded, orm) /\ Begun(y) /\ listed.scope # Seeds!Null /\ RowsSound(seeded) /\ f = y.file /\ orm \in BOOLEAN
      /\ Seeds!Version(b) \in Nat
  BY <1>1, <1>5, LoadedIs DEF SeedingIInv, Begun
<1>7. /\ f \in SeedFiles /\ Seeds!Loads(f) /\ y.changed \in BOOLEAN /\ y.i \in Nat /\ y.i # 0
      /\ \A k \in DOMAIN f.values : Standing(seeded, f.values[k]) /\ (~ orm => Filled(seeded, f.values[k], y.healed))
  BY <1>1, <1>5, <1>6 DEF BootSound
<1>8. ASSUME NEW r \in seeded
      PROVE  \E s \in seeded' :
               /\ RowIs(s) /\ Onward(r, s) /\ Homely(seeded, s) /\ s.label = r.label /\ s.meta = r.meta
               /\ \A k \in DOMAIN f.values : r.org = Seeds!Null /\ r.code = f.values[k].code =>
                     (f.values[k].parent # Seeds!Null => s.parent # 0) /\ (f.values[k].next # Seeds!Null => s.next # 0)
  <2>1. PICK s : s = Seeds!Linked(r, f) OBVIOUS
  <2>2. s \in seeded' BY <1>2, <2>1
  <2> HIDE DEF f
  <2>3. /\ RowIs(s) /\ Onward(r, s) /\ Homely(seeded, s) /\ s.label = r.label /\ s.meta = r.meta
        /\ \A k \in DOMAIN f.values : r.org = Seeds!Null /\ r.code = f.values[k].code =>
              (f.values[k].parent # Seeds!Null => s.parent # 0) /\ (f.values[k].next # Seeds!Null => s.next # 0)
    BY <1>6, <1>7, <2>1, LinkedIs
  <2> QED BY <2>2, <2>3
<1>9. Later(seeded, seeded') BY <1>8 DEF Later
<1>10. RowsSound(seeded')
  <2>1. linked = [r \in seeded |-> linked[r]] /\ \A s : s \in seeded' <=> \E r \in seeded : s = linked[r] BY <1>2
  <2>2. IsFiniteSet(seeded) BY <1>6 DEF RowsSound
  <2> HIDE DEF linked
  <2>3. IsFiniteSet(seeded') BY <2>1, <2>2, ImageFinite
  <2>4. \A s \in seeded' : RowIs(s) /\ Homely(seeded, s)
    <3>1. ASSUME NEW s \in seeded' PROVE RowIs(s) /\ Homely(seeded, s)
      <4>1. PICK r \in seeded : s = Seeds!Linked(r, f) BY <1>2
      <4> HIDE DEF f
      <4> QED BY <1>6, <1>7, <4>1, LinkedIs
    <3> QED BY <3>1
  <2> QED BY <1>6, <1>9, <2>3, <2>4, RowsGrow
<1>11. ASSUME NEW k \in DOMAIN f.values PROVE Complete(seeded', f.values[k], y.healed, orm)
  <2> DEFINE v == f.values[k]
  <2>1. PICK r \in seeded : /\ r.org = Seeds!Null /\ r.code = v.code
                            /\ ~ orm => r.label # "none" /\ (v.meta /\ v.code \notin y.healed => r.meta # "none")
    <3>1. CASE orm BY <1>7, <3>1 DEF Standing
    <3>2. CASE ~ orm BY <1>7, <3>2 DEF Filled
    <3> QED BY <1>6, <3>1, <3>2
  <2>2. PICK s \in seeded' : /\ Onward(r, s) /\ s.label = r.label /\ s.meta = r.meta
                             /\ (v.parent # Seeds!Null => s.parent # 0) /\ (v.next # Seeds!Null => s.next # 0)
    BY <1>8, <2>1
  <2> QED BY <2>1, <2>2 DEF Complete, Onward
<1> DEFINE c == y.changed \/ committed
           l == IF committed THEN 0 ELSE Seeds!Version(b)
<1>12. PICK x : x = Seeds!At("bump", f, y.i, c, y.healed \cup {}, l) OBVIOUS
<1>13. boot' = [boot EXCEPT ![b] = x] BY <1>4, <1>5, <1>12, Zenon
<1>14. c \in BOOLEAN /\ (y.changed => c) /\ (committed => c) /\ l \in Nat BY <1>6, <1>7
<1> HIDE DEF c, l, f
<1>15. /\ x = [at |-> x.at, file |-> x.file, i |-> x.i, changed |-> x.changed, healed |-> x.healed, loaded |-> x.loaded]
       /\ x.at = "bump" /\ x.file = f /\ x.i = y.i /\ x.changed = c /\ x.healed = y.healed \cup {} /\ x.loaded = l
  BY <1>12, AtIs
<1>16. x.healed = y.healed BY <1>15
<1>17. Begun(x) /\ x.changed \in BOOLEAN BY <1>14, <1>15 DEF Begun
<1>18. BootSound(x, seeded', orm) BY <1>7, <1>11, <1>14, <1>15, <1>16, <1>17 DEF BootSound
<1>19. seeded' # seeded => x.changed BY <1>3, <1>14, <1>15
<1>20. boot[b].changed => x.changed BY <1>5, <1>14, <1>15
<1> QED BY <1>1, <1>6, <1>9, <1>10, <1>13, <1>18, <1>19, <1>20, BootMoves

\* A version and the versions unsure that a step by somebody who is no boot may leave.
Ages(n, u) == unsure \subseteq u /\ \A m \in Nat : n <= m /\ m <= listed.version => m \in u

\* Somebody who is no boot gives the list another version, or leaves this one unsure.
LEMMA ListMoves ==
  ASSUME SeedingIInv, NEW n \in Nat, listed.scope # Seeds!Null, listed' = [listed EXCEPT !.version = n],
         RowsSound(seeded'), Later(seeded, seeded'), UNCHANGED <<orm, boot, reader>>, PendingSound',
         Ages(n, unsure')
  PROVE  SeedingIInv'
<1>1. listed' = [scope |-> listed.scope, version |-> n] /\ listed.version \in Nat BY DEF SeedingIInv, VersionsSound
<1>2. \A m \in Nat : n <= m /\ m <= reader.version => m \in unsure'
  <2>1. \A m \in Nat : listed.version < m /\ m <= reader.version => m \in unsure' BY DEF SeedingIInv, VersionsSound, Ages
  <2>2. \A m \in Nat : n <= m /\ m <= listed.version => m \in unsure' BY DEF Ages
  <2>3. \A m \in Nat : m <= listed.version \/ listed.version < m BY <1>1
  <2> QED BY <2>1, <2>2, <2>3
<1>3. boot' = [b \in Pods |-> boot'[b]] /\ \A b \in Pods : BootSound(boot[b], seeded, orm) BY DEF SeedingIInv
<1>4. orm \in BOOLEAN BY DEF SeedingIInv
<1>5. \A b \in Pods : BootSound(boot'[b], seeded', orm') BY <1>3, <1>4, BootOnward
<1> QED BY <1>1, <1>2, <1>3, <1>5, VersionMoves

\* A commit of what was loaded, and one: what others have given meanwhile is unsure.
LEMMA WritesMove ==
  ASSUME SeedingIInv, NEW v \in Nat, Seeds!Writes(v), listed.scope # Seeds!Null, RowsSound(seeded'), Later(seeded, seeded'),
         PendingSound', UNCHANGED <<orm, boot, reader>>
  PROVE  SeedingIInv'
<1>1. PICK n \in Nat : n = v + 1 OBVIOUS
<1>2. listed' = [listed EXCEPT !.version = n] /\ unsure' = unsure \cup (n .. listed.version) BY <1>1 DEF Seeds!Writes
<1>3. listed.version \in Nat BY DEF SeedingIInv, VersionsSound
<1>4. Ages(n, unsure') BY <1>2, <1>3 DEF Ages
<1> QED BY <1>2, <1>4, ListMoves

\* A request commits a row that keeps what its row had.
LEMMA RequestCommits ==
  ASSUME SeedingIInv, NEW r \in seeded, NEW s, Seeds!RequestCommits(r, s), RowIs(s), Onward(r, s), Homely(seeded, s)
  PROVE  SeedingIInv'
<1>1. /\ amend.at = "open" /\ seeded' = (seeded \ {r}) \cup {s} /\ Seeds!Writes(amend.version)
      /\ amend' = [at |-> "off", version |-> 0, id |-> 0, next |-> 0] /\ UNCHANGED <<orm, boot, copying, reader>>
  BY DEF Seeds!RequestCommits, Seeds!Replaced, Seeds!NoAmend, Seeds!Amending
<1>2. RowsSound(seeded) /\ PendingSound BY DEF SeedingIInv
<1>3. RowsSound((seeded \ {r}) \cup {s}) /\ Later(seeded, (seeded \ {r}) \cup {s}) BY <1>2, RowReplaced
<1>4. RowsSound(seeded') /\ Later(seeded, seeded') BY <1>1, <1>3
<1>5. amend.version \in Nat /\ listed.scope # Seeds!Null BY <1>1 DEF SeedingIInv, PendingSound, Pending
<1>6. PendingSound' BY <1>1, <1>2 DEF PendingSound
<1> QED BY <1>1, <1>4, <1>5, <1>6, WritesMove

LEMMA LabelsAre ==
  ASSUME NEW r, r = [id |-> r.id, org |-> r.org, code |-> r.code, label |-> r.label, meta |-> r.meta,
                     parent |-> r.parent, next |-> r.next], NEW l, NEW m
  PROVE  [r EXCEPT !.label = l, !.meta = m]
         = [id |-> r.id, org |-> r.org, code |-> r.code, label |-> l, meta |-> m, parent |-> r.parent, next |-> r.next]
<1>1. PICK w : w = [r EXCEPT !.label = l] OBVIOUS
<1>2. w = [id |-> r.id, org |-> r.org, code |-> r.code, label |-> l, meta |-> r.meta, parent |-> r.parent, next |-> r.next]
  BY <1>1
<1>3. /\ w = [id |-> w.id, org |-> w.org, code |-> w.code, label |-> w.label, meta |-> w.meta, parent |-> w.parent, next |-> w.next]
      /\ w.id = r.id /\ w.org = r.org /\ w.code = r.code /\ w.label = l /\ w.parent = r.parent /\ w.next = r.next
  BY <1>2
<1>4. [w EXCEPT !.meta = m]
      = [id |-> w.id, org |-> w.org, code |-> w.code, label |-> w.label, meta |-> m, parent |-> w.parent, next |-> w.next]
  BY <1>3
<1>5. [r EXCEPT !.label = l, !.meta = m] = [[r EXCEPT !.label = l] EXCEPT !.meta = m] OBVIOUS
<1> QED BY <1>1, <1>3, <1>4, <1>5

LEMMA SeedingEdits == ASSUME SeedingIInv, Seeds!Edit PROVE SeedingIInv'
<1>1. PICK r \in seeded : Seeds!RequestCommits(r, [r EXCEPT !.label = "admin", !.meta = "admin"]) BY DEF Seeds!Edit
<1>3. RowIs(r) /\ Homely(seeded, r) BY DEF SeedingIInv, RowsSound
<1>4. PICK s : s = [r EXCEPT !.label = "admin", !.meta = "admin"] OBVIOUS
<1>5. s = [id |-> r.id, org |-> r.org, code |-> r.code, label |-> "admin", meta |-> "admin", parent |-> r.parent, next |-> r.next]
  BY <1>3, <1>4, LabelsAre DEF RowIs
<1>6. RowIs(s) /\ Onward(r, s) /\ Homely(seeded, s) BY <1>3, <1>5 DEF RowIs, Onward, Homely
<1>7. Seeds!RequestCommits(r, s) BY <1>1, <1>4
<1> QED BY <1>6, <1>7, RequestCommits

\* A replacement is among its owner's rows.
LEMMA SeedingSupersedes == ASSUME SeedingIInv, Seeds!Supersede PROVE SeedingIInv'
<1>1. PICK r \in seeded : \E w \in {u \in seeded : u.org = r.org} :
        amend.next = w.id /\ Seeds!RequestCommits(r, [r EXCEPT !.next = w.id])
  BY DEF Seeds!Supersede
<1>2. PICK w \in seeded : w.org = r.org /\ Seeds!RequestCommits(r, [r EXCEPT !.next = w.id]) BY <1>1
<1>4. RowIs(r) /\ Homely(seeded, r) /\ w.id # 0 BY DEF SeedingIInv, RowsSound, RowIs
<1>5. PICK s : s = [r EXCEPT !.next = w.id] OBVIOUS
<1>6. s = [id |-> r.id, org |-> r.org, code |-> r.code, label |-> r.label, meta |-> r.meta, parent |-> r.parent, next |-> w.id]
  BY <1>4, <1>5 DEF RowIs
<1>7. RowIs(s) /\ Onward(r, s) /\ Homely(seeded, s) BY <1>2, <1>4, <1>6 DEF RowIs, Onward, Homely
<1>8. Seeds!RequestCommits(r, s) BY <1>2, <1>5
<1> QED BY <1>7, <1>8, RequestCommits

LEMMA SeedingCreates == ASSUME SeedingIInv, Seeds!CreateDies PROVE SeedingIInv'
<1>1. PICK c, o : /\ seeded' = seeded \cup {Seeds!Row(Seeds!Fresh(1), o, c, "none", "none")}
                  /\ unsure' = unsure \cup {listed.version} /\ listed.scope # Seeds!Null
                  /\ UNCHANGED <<orm, listed, boot, copying, amend, reader>>
  BY DEF Seeds!CreateDies
<1>2. RowsSound(seeded) /\ listed.version \in Nat BY DEF SeedingIInv, VersionsSound
<1>3. Seeds!Fresh(1) \in Nat /\ Seeds!Fresh(1) # 0 BY <1>2, FreshIs
<1>4. PICK s : s = Seeds!Row(Seeds!Fresh(1), o, c, "none", "none") OBVIOUS
<1>5. RowIs(s) /\ s.parent = 0 /\ s.next = 0 BY <1>3, <1>4 DEF Seeds!Row, RowIs
<1>6. RowsSound(seeded \cup {s}) /\ Later(seeded, seeded \cup {s}) BY <1>2, <1>5, RowAdded
<1>7. RowsSound(seeded') /\ Later(seeded, seeded') BY <1>1, <1>4, <1>6
<1>8. PICK n \in Nat : n = listed.version BY <1>2
<1>9. listed' = [listed EXCEPT !.version = n] BY <1>1, <1>8 DEF SeedingIInv
<1>10. Ages(n, unsure') BY <1>1, <1>2, <1>8 DEF Ages
<1>11. PendingSound' BY <1>1, PendingStays DEF SeedingIInv
<1> QED BY <1>1, <1>7, <1>9, <1>10, <1>11, ListMoves

\* What begins, or is given up, writes nothing.
LEMMA PendingMoves ==
  ASSUME SeedingIInv, UNCHANGED <<orm, listed, seeded, boot, reader, unsure>>, PendingSound', listed.scope # Seeds!Null
  PROVE  SeedingIInv'
BY DEF SeedingIInv, Seeds!RevalidatedIsCurrent

LEMMA RequestBegins == ASSUME SeedingIInv, Seeds!RequestReads PROVE SeedingIInv'
<1>1. listed.version \in Nat BY DEF SeedingIInv, VersionsSound
<1>2. PICK id, next : amend' = [at |-> "open", version |-> listed.version, id |-> id, next |-> next]
  BY DEF Seeds!RequestReads, Seeds!Amending
<1>3. amend'.version \in Nat BY <1>1, <1>2
<1>4. UNCHANGED <<orm, listed, seeded, boot, copying, reader, unsure>> /\ listed.scope # Seeds!Null
  BY DEF Seeds!RequestReads
<1>5. PendingSound' BY <1>3, <1>4 DEF SeedingIInv, PendingSound
<1> QED BY <1>4, <1>5, PendingMoves

LEMMA CopyMoves ==
  ASSUME PendingSound, NEW o \in Tenants, NEW x, CopySound(x), copying' = [copying EXCEPT ![o] = x], amend' = amend
  PROVE  PendingSound'
<1>1. copying' = [p \in Tenants |-> copying'[p]] /\ \A p \in Tenants : copying'[p] = IF p = o THEN x ELSE copying[p]
  BY DEF PendingSound
<1> QED BY <1>1 DEF PendingSound

LEMMA NoCopyIs == CopySound(Seeds!NoCopy)
BY FS_EmptySet DEF CopySound, Seeds!NoCopy, Seeds!Copying

LEMMA CopyingBegins ==
  ASSUME SeedingIInv, NEW o \in Tenants, Seeds!SeedingReads(o)
  PROVE  SeedingIInv'
<1> DEFINE mine == {r \in seeded : r.org = o}
           missing == {t \in seeded : t.org = Seeds!Null /\ ~ \E r \in mine : r.code = t.code}
           x == Seeds!Copying("open", listed.version, missing)
<1>1. copying' = [copying EXCEPT ![o] = x] /\ UNCHANGED <<orm, listed, seeded, boot, amend, reader, unsure>>
  BY Zenon DEF Seeds!SeedingReads
<1>2. listed.scope = "org" BY Zenon DEF Seeds!SeedingReads
<1>3. RowsSound(seeded) /\ listed.version \in Nat /\ PendingSound BY DEF SeedingIInv, VersionsSound
<1>4. missing \in SUBSET seeded OBVIOUS
<1> HIDE DEF missing
<1>5. IsFiniteSet(missing) /\ \A t \in missing : t.id \in Nat BY <1>3, <1>4, FS_Subset DEF RowsSound, RowIs
<1>6. x.version = listed.version /\ x.rows = missing BY DEF Seeds!Copying
<1> HIDE DEF x
<1>7. CopySound(x) BY <1>3, <1>5, <1>6 DEF CopySound
<1>8. PendingSound' BY <1>1, <1>3, <1>7, CopyMoves
<1>9. listed.scope # Seeds!Null
  <2>1. "org" # Seeds!Null BY DEF Seeds!Null
  <2> QED BY <1>2, <2>1
<1> QED BY <1>1, <1>8, <1>9, PendingMoves

LEMMA CopyingFails ==
  ASSUME SeedingIInv, NEW o \in Tenants, Seeds!SeedingFails(o)
  PROVE  SeedingIInv'
<1>1. /\ copying[o].at = "open" /\ copying' = [copying EXCEPT ![o] = Seeds!NoCopy]
      /\ UNCHANGED <<orm, listed, seeded, boot, amend, reader, unsure>>
  BY DEF Seeds!SeedingFails
<1>2. PendingSound' BY <1>1, NoCopyIs, CopyMoves DEF SeedingIInv
<1>3. listed.scope # Seeds!Null BY <1>1 DEF SeedingIInv, Pending
<1> QED BY <1>1, <1>2, <1>3, PendingMoves

\* A client that asks again holds the list as it stands.
LEMMA SeedingReads == ASSUME SeedingIInv, Seeds!Reads PROVE SeedingIInv'
<1>1. reader' = [version |-> listed.version, shown |-> seeded] /\ UNCHANGED <<orm, listed, seeded, boot, copying, amend, unsure>>
  BY DEF Seeds!Reads
<1>2. reader'.version = listed.version /\ reader'.shown = seeded BY <1>1
<1>3. listed.version \in Nat BY DEF SeedingIInv, VersionsSound
<1>4. VersionsSound(listed'.version, reader'.version, unsure')
  <2>1. \A m \in Nat : ~ (listed.version < m /\ m <= listed.version) BY <1>3
  <2> QED BY <1>1, <1>2, <1>3, <2>1 DEF VersionsSound
<1>5. Seeds!RevalidatedIsCurrent' BY <1>1, <1>2 DEF Seeds!RevalidatedIsCurrent
<1>6. PendingSound' /\ (Pending' <=> Pending) BY <1>1, PendingStays DEF SeedingIInv
<1> QED BY <1>1, <1>4, <1>5, <1>6 DEF SeedingIInv

LEMMA SeedingCopies ==
  ASSUME SeedingIInv, NEW o \in Tenants, Seeds!seed_org_lookups(o)
  PROVE  SeedingIInv'
<1> DEFINE mine == {r \in seeded : r.org = o}
           missing == copying[o].rows
           key(t) == Seeds!Fresh(Seeds!Cardinality({u \in missing : u.id <= t.id}))
           copy(t) == Seeds!Row(key(t), o, t.code, t.label, t.meta)
           own == mine \cup {copy(t) : t \in missing}
           pointed(t) == [copy(t) EXCEPT !.parent = Seeds!OwnRow(own, t.parent), !.next = Seeds!OwnRow(own, t.next)]
<1>1. /\ copying[o].at = "open" /\ Seeds!Writes(copying[o].version)
      /\ copying' = [copying EXCEPT ![o] = Seeds!NoCopy] /\ UNCHANGED <<orm, boot, amend, reader>>
  BY Zenon DEF Seeds!seed_org_lookups
<1>2. seeded' = seeded \cup {pointed(t) : t \in missing} BY Zenon DEF Seeds!seed_org_lookups
<1>3. RowsSound(seeded) /\ listed.version \in Nat /\ PendingSound BY DEF SeedingIInv, VersionsSound
<1>4. IsFiniteSet(missing) /\ \A t \in missing : t.id \in Nat BY <1>3 DEF PendingSound, CopySound
<1>5. \A r : r \in mine <=> r \in seeded /\ r.org = o OBVIOUS
<1>6. IsFiniteSet(missing) BY <1>4
<1> HIDE DEF missing, mine
<1>7. ASSUME NEW t \in missing PROVE key(t) \in Nat /\ key(t) # 0
  <2> DEFINE before == {u \in missing : u.id <= t.id}
  <2>1. t.id \in Nat BY <1>4
  <2>2. t.id <= t.id BY <2>1
  <2>3. t \in before /\ before \in SUBSET missing BY <2>2
  <2> HIDE DEF before
  <2>4. IsFiniteSet(before) BY <1>6, <2>3, FS_Subset
  <2>5. Cardinality(before) \in Nat /\ Cardinality(before) # 0 BY <2>3, <2>4, FS_CardinalityType, FS_EmptySet
  <2>6. Seeds!Cardinality(before) \in Nat /\ Seeds!Cardinality(before) # 0 BY <2>5, SeedsCount
  <2>7. Seeds!Fresh(Seeds!Cardinality(before)) \in Nat /\ Seeds!Fresh(Seeds!Cardinality(before)) # 0 BY <1>3, <2>6, FreshIs
  <2> QED BY <2>7 DEF before
<1> HIDE DEF key
<1>8. ASSUME NEW t \in missing
      PROVE  copy(t) = [id |-> key(t), org |-> o, code |-> t.code, label |-> t.label, meta |-> t.meta, parent |-> 0, next |-> 0]
  BY DEF Seeds!Row
<1>9. \A u : u \in own <=> u \in mine \/ \E t \in missing : u = copy(t) OBVIOUS
<1> HIDE DEF own
<1>10. ASSUME NEW t \in missing
       PROVE  pointed(t) = [id |-> key(t), org |-> o, code |-> t.code, label |-> t.label, meta |-> t.meta,
                            parent |-> Seeds!OwnRow(own, t.parent), next |-> Seeds!OwnRow(own, t.next)]
  <2>1. PICK c : c = copy(t) OBVIOUS
  <2>2. c = [id |-> key(t), org |-> o, code |-> t.code, label |-> t.label, meta |-> t.meta, parent |-> 0, next |-> 0]
    BY <1>8, <2>1
  <2> HIDE DEF copy
  <2>3. /\ c = [id |-> c.id, org |-> c.org, code |-> c.code, label |-> c.label, meta |-> c.meta, parent |-> c.parent, next |-> c.next]
        /\ c.id = key(t) /\ c.org = o /\ c.code = t.code /\ c.label = t.label /\ c.meta = t.meta
    BY <2>2
  <2>4. PICK p, n : p = Seeds!OwnRow(own, t.parent) /\ n = Seeds!OwnRow(own, t.next) OBVIOUS
  <2>5. [c EXCEPT !.parent = p, !.next = n]
        = [id |-> c.id, org |-> c.org, code |-> c.code, label |-> c.label, meta |-> c.meta, parent |-> p, next |-> n]
    BY <2>3, PointersAre
  <2>6. pointed(t) = [c EXCEPT !.parent = p, !.next = n] BY <2>1, <2>4
  <2> HIDE DEF pointed
  <2> QED BY <2>3, <2>4, <2>5, <2>6
<1>11. \A r : r \in seeded' <=> r \in seeded \/ \E t \in missing : r = pointed(t) BY <1>2
<1>12. ASSUME NEW t \in missing
       PROVE  pointed(t) \in seeded' /\ pointed(t).id = key(t) /\ pointed(t).org = o /\ copy(t).id = key(t)
  BY <1>8, <1>10, <1>11
<1>13. ASSUME NEW u \in own PROVE \E w \in seeded' : w.id = u.id /\ w.org = o
  <2>1. CASE u \in mine BY <1>5, <1>11, <2>1
  <2>2. CASE \E t \in missing : u = copy(t) BY <1>12, <2>2
  <2> QED BY <1>9, <2>1, <2>2
<1>14. ASSUME NEW id PROVE Seeds!OwnRow(own, id) = 0 \/ \E w \in seeded' : w.id = Seeds!OwnRow(own, id) /\ w.org = o
  <2> DEFINE ids == Seeds!Namesakes(own, id)
  <2>1. \A i \in ids : \E u \in own : i = u.id BY DEF Seeds!Namesakes
  <2>2. Seeds!OwnRow(own, id) = IF ids = {} THEN 0 ELSE CHOOSE i \in ids : TRUE BY DEF Seeds!OwnRow
  <2> HIDE DEF ids
  <2>3. Seeds!OwnRow(own, id) = 0 \/ Seeds!OwnRow(own, id) \in ids BY <2>2
  <2> QED BY <1>13, <2>1, <2>3
<1>15. ASSUME NEW t \in missing PROVE RowIs(pointed(t)) /\ Homely(seeded', pointed(t))
  <2>1. PICK q : q = pointed(t) OBVIOUS
  <2>2. q = [id |-> key(t), org |-> o, code |-> t.code, label |-> t.label, meta |-> t.meta,
             parent |-> Seeds!OwnRow(own, t.parent), next |-> Seeds!OwnRow(own, t.next)]
    BY <1>10, <2>1
  <2> HIDE DEF pointed
  <2>3. /\ q = [id |-> q.id, org |-> q.org, code |-> q.code, label |-> q.label, meta |-> q.meta, parent |-> q.parent, next |-> q.next]
        /\ q.id = key(t) /\ q.org = o /\ q.parent = Seeds!OwnRow(own, t.parent) /\ q.next = Seeds!OwnRow(own, t.next)
    BY <2>2
  <2>4. RowIs(q) BY <1>7, <2>3 DEF RowIs
  <2>5. Homely(seeded', q) BY <1>14, <2>3 DEF Homely
  <2> QED BY <2>1, <2>4, <2>5
<1> HIDE DEF pointed
<1>16. Later(seeded, seeded') BY <1>11 DEF Later, Onward
<1>17. IsFiniteSet(seeded')
  <2> DEFINE g == [t \in missing |-> pointed(t)]
             made == {pointed(t) : t \in missing}
  <2>1. g = [t \in missing |-> g[t]] /\ \A r : r \in made <=> \E t \in missing : r = g[t] OBVIOUS
  <2>2. seeded' = seeded \cup made BY <1>2
  <2> HIDE DEF g, made
  <2>3. IsFiniteSet(made) BY <1>6, <2>1, ImageFinite
  <2> QED BY <1>3, <2>2, <2>3, FS_Union DEF RowsSound
<1>18. \A r \in seeded' : r \in seeded \/ (RowIs(r) /\ Homely(seeded', r)) BY <1>11, <1>15
<1>19. RowsSound(seeded') BY <1>3, <1>16, <1>17, <1>18, RowsGrow
<1>20. listed.scope # Seeds!Null /\ copying[o].version \in Nat BY <1>1, <1>3 DEF SeedingIInv, Pending, PendingSound, CopySound
<1>21. PendingSound' BY <1>1, <1>3, NoCopyIs, CopyMoves
<1> QED BY <1>1, <1>16, <1>19, <1>20, <1>21, WritesMove

LEMMA SeedingStepIInv == SeedingIInv /\ [Seeds!Next]_(Seeds!seeding) => SeedingIInv'
<1> SUFFICES ASSUME SeedingIInv, [Seeds!Next]_(Seeds!seeding) PROVE SeedingIInv' OBVIOUS
<1>1. ASSUME NEW b \in Pods, NEW f \in SeedFiles, Seeds!BootBegins(b, f) PROVE SeedingIInv' BY <1>1, SeedingBegins
<1>2. ASSUME NEW b \in Pods, Seeds!ensure_type(b) PROVE SeedingIInv' BY <1>2, SeedingEnsuresType
<1>3. ASSUME NEW b \in Pods, Seeds!InsertValue(b) PROVE SeedingIInv' BY <1>3, SeedingInserts
<1>4. ASSUME NEW b \in Pods, Seeds!HealValue(b) PROVE SeedingIInv' BY <1>4, SeedingHeals
<1>5. ASSUME NEW b \in Pods, Seeds!KeepValue(b) PROVE SeedingIInv' BY <1>5, SeedingKeeps
<1>6. ASSUME NEW b \in Pods, Seeds!ValuesEnd(b) PROVE SeedingIInv' BY <1>6, SeedingEndsValues
<1>7. ASSUME NEW b \in Pods, Seeds!seed_type(b) PROVE SeedingIInv' BY <1>7, SeedingSeedsType
<1>8. ASSUME NEW b \in Pods, Seeds!LinkPass(b) PROVE SeedingIInv' BY <1>8, SeedingLinks
<1>9. ASSUME NEW b \in Pods, Seeds!bump_version_if(b) PROVE SeedingIInv' BY <1>9, SeedingBumps
<1>10. ASSUME NEW b \in Pods, Seeds!BootDies(b) PROVE SeedingIInv' BY <1>10, SeedingDies
<1>11. ASSUME NEW o \in Tenants, Seeds!seed_org_lookups(o) PROVE SeedingIInv' BY <1>11, SeedingCopies
<1>14. ASSUME NEW o \in Tenants, Seeds!SeedingReads(o) \/ Seeds!SeedingFails(o) PROVE SeedingIInv'
  BY <1>14, CopyingBegins, CopyingFails
<1>12. CASE Seeds!RequestReads \/ Seeds!Edit \/ Seeds!Supersede \/ Seeds!CreateDies \/ Seeds!Reads
  BY <1>12, RequestBegins, SeedingEdits, SeedingSupersedes, SeedingCreates, SeedingReads
<1>13. CASE UNCHANGED Seeds!seeding
  <2>1. UNCHANGED <<orm, listed, seeded, boot, copying, amend, reader, unsure>> BY <1>13 DEF Seeds!seeding
  <2>2. PendingSound' /\ (Pending' <=> Pending) BY <2>1, PendingStays DEF SeedingIInv
  <2> QED BY <2>1, <2>2 DEF SeedingIInv, Seeds!RevalidatedIsCurrent
<1> QED BY <1>1, <1>2, <1>3, <1>4, <1>5, <1>6, <1>7, <1>8, <1>9, <1>10, <1>11, <1>12, <1>13, <1>14 DEF Seeds!Next

LEMMA SeedingIInvImplies == SeedingIInv => Seeds!BootsLeaveItWhole
<1> SUFFICES ASSUME SeedingIInv PROVE Seeds!BootsLeaveItWhole OBVIOUS
<1>1. Seeds!BootMakesGood
  <2>1. ASSUME NEW b \in Pods, boot[b].at = "bump", NEW k \in DOMAIN boot[b].file.values
        PROVE  Seeds!Holds(b, boot[b].file.values[k])
    <3> DEFINE v == boot[b].file.values[k]
    <3>1. Complete(seeded, v, boot[b].healed, orm) BY <2>1 DEF SeedingIInv, BootSound
    <3> HIDE DEF v
    <3>2. PICK r \in seeded : /\ r.org = Seeds!Null /\ r.code = v.code
                              /\ v.parent # Seeds!Null => r.parent # 0
                              /\ v.next # Seeds!Null => r.next # 0
                              /\ ~ orm => r.label # "none"
                              /\ ~ orm /\ v.meta /\ v.code \notin boot[b].healed => r.meta # "none"
      BY <3>1 DEF Complete
    <3>3. r \in Seeds!Platform(v.code) BY <3>2, PlatformIs
    <3>4. Seeds!Holds(b, v) BY <3>2, <3>3 DEF Seeds!Holds
    <3> QED BY <3>4 DEF v
  <2> QED BY <2>1 DEF Seeds!BootMakesGood
<1>2. Seeds!CopiesStayHome BY DEF SeedingIInv, RowsSound, Homely, Seeds!CopiesStayHome
<1>3. Seeds!RevalidatedIsCurrent BY DEF SeedingIInv
<1> QED BY <1>1, <1>2, <1>3 DEF Seeds!BootsLeaveItWhole

-----------------------------------------------------------------------------
(* A behavior of MCPlatform is a behavior of one component.                 *)

LEMMA PartKept == [Next]_all => part' = part
<1>1. Next => part' = part BY DEF Next
<1>2. UNCHANGED all => part' = part BY DEF all
<1> QED BY <1>1, <1>2

LEMMA ReadsSteps == part = "reads" /\ [Next]_all => [Client!Next]_(Client!oracle)
<1>1. part = "reads" /\ Next => Client!Next BY DEF Next
<1>2. UNCHANGED all => UNCHANGED Client!oracle BY DEF all, readsVars, Client!oracle
<1> QED BY <1>1, <1>2

LEMMA TenancySteps == part = "tenancy" /\ [Next]_all => [Isolation!Next]_(Isolation!tenancy)
<1>1. part = "tenancy" /\ Next => Isolation!Next BY DEF Next
<1>2. UNCHANGED all => UNCHANGED Isolation!tenancy BY DEF all, tenancyVars, Isolation!tenancy
<1> QED BY <1>1, <1>2

\* However reads, writes, token renewals and retries interleave, a read begun after a write
\* returned shows it, and a write lands once.
THEOREM WritesTheorem == Spec => []WritesAreSeen
<1> DEFINE Inv == part = "reads" => ReadsIInv
<1>1. Init => Inv BY ReadsInitIInv, ReadsAssumption DEF Init
<1>2. Inv /\ [Next]_all => Inv'
  <2> SUFFICES ASSUME Inv, [Next]_all, part' = "reads" PROVE ReadsIInv' OBVIOUS
  <2>1. part = "reads" BY PartKept
  <2> QED BY <2>1, ReadsSteps, ReadsStepIInv
<1>3. Inv => WritesAreSeen BY DEF ReadsIInv, WritesAreSeen, Client!WritesAreSeen, Client!WritesAreRead, Client!WriteLandsOnce, Reading, Landing
<1> QED BY <1>1, <1>2, <1>3, PTL DEF Spec

\* For every set of tenants and any number of migrations: whoever works when, over reused
\* connections, rollbacks, sweeps and migrations that die, tenants stay apart on a protected
\* table, no finished data migration missed a row and the conformance checks mean what they say.
THEOREM TenantsTheorem == Spec => []TenantsStayApart
<1> DEFINE Inv == part = "tenancy" => TenancyIInv
<1>1. Init => Inv BY TenancyInitIInv, TenantsAssumption DEF Init
<1>2. Inv /\ [Next]_all => Inv'
  <2> SUFFICES ASSUME Inv, [Next]_all, part' = "tenancy" PROVE TenancyIInv' OBVIOUS
  <2>1. part = "tenancy" BY PartKept
  <2> QED BY <2>1, TenancySteps, TenancyStepIInv
<1>3. Inv => TenantsStayApart BY TenancyIInvImplies DEF TenantsStayApart
<1> QED BY <1>1, <1>2, <1>3, PTL DEF Spec

LEMMA IndexSteps == part = "index" /\ [Next]_all => [Search!Next]_(Search!index)
<1>1. part = "index" /\ Next => Search!Next BY DEF Next
<1>2. UNCHANGED all => UNCHANGED Search!index BY DEF all, indexVars, Search!index
<1> QED BY <1>1, <1>2

\* For any sources, texts, models, replicas, and numbers of writes and rebuilds: a document never
\* carries a vector of another text, a query is compared with vectors of its own model only, and
\* but for the sources adrift a source has one document that says what it says, or none when it is
\* blank, so that a search of an org finds rows of that org.
THEOREM IndexTheorem == Spec => []IndexMatchesItsSources
<1> DEFINE Inv == part = "index" => IndexIInv
<1>1. Init => Inv BY IndexInitIInv DEF Init
<1>2. Inv /\ [Next]_all => Inv'
  <2> SUFFICES ASSUME Inv, [Next]_all, part' = "index" PROVE IndexIInv' OBVIOUS
  <2>1. part = "index" BY PartKept
  <2> QED BY <2>1, IndexSteps, IndexStepIInv
<1>3. Inv => IndexMatchesItsSources BY IndexIInvImplies DEF IndexMatchesItsSources
<1> QED BY <1>1, <1>2, <1>3, PTL DEF Spec

LEMMA SeedingSteps == part = "seeding" /\ [Next]_all => [Seeds!Next]_(Seeds!seeding)
<1>1. part = "seeding" /\ Next => Seeds!Next BY DEF Next
<1>2. UNCHANGED all => UNCHANGED Seeds!seeding BY DEF all, seedingVars, Seeds!seeding
<1> QED BY <1>1, <1>2

\* For any replicas, files whose values are lists, orgs and numbers of boots and edits: whatever
\* died, was edited or raced, a boot that comes to its end has every value of its file in place, a
\* client that revalidates holds the list, but for the versions left unsure, and no org's row
\* points outside the org.
THEOREM SeedingTheorem == Spec => []BootsLeaveItWhole
<1> DEFINE Inv == part = "seeding" => SeedingIInv
<1>1. Init => Inv BY SeedingInitIInv DEF Init
<1>2. Inv /\ [Next]_all => Inv'
  <2> SUFFICES ASSUME Inv, [Next]_all, part' = "seeding" PROVE SeedingIInv' OBVIOUS
  <2>1. part = "seeding" BY PartKept
  <2> QED BY <2>1, SeedingSteps, SeedingStepIInv
<1>3. Inv => BootsLeaveItWhole BY SeedingIInvImplies DEF BootsLeaveItWhole
<1> QED BY <1>1, <1>2, <1>3, PTL DEF Spec

LEMMA LookupsSteps == part = "lookups" /\ [Next]_all => [Values!Next]_(Values!lookups)
<1>1. part = "lookups" /\ Next => Values!Next BY DEF Next
<1>2. UNCHANGED all => UNCHANGED Values!lookups BY DEF all, lookupsVars, Values!lookups
<1> QED BY <1>1, <1>2

LEMMA ClearanceSteps == part = "clearance" /\ [Next]_all => [Mac!Next]_(Mac!clearance)
<1>1. part = "clearance" /\ Next => Mac!Next BY DEF Next
<1>2. UNCHANGED all => UNCHANGED Mac!clearance BY DEF all, clearanceVars, Mac!clearance
<1> QED BY <1>1, <1>2

LEMMA PermissionsSteps == part = "permissions" /\ [Next]_all => [Grants!Next]_(Grants!permissions)
<1>1. part = "permissions" /\ Next => Grants!Next BY DEF Next
<1>2. UNCHANGED all => UNCHANGED Grants!permissions BY DEF all, permissionsVars, Grants!permissions
<1> QED BY <1>1, <1>2

LEMMA NamesSteps == part = "names" /\ [Next]_all => [Names!Next]_(Names!names_vars)
<1>1. part = "names" /\ Next => Names!Next BY DEF Next
<1>2. UNCHANGED all => UNCHANGED Names!names_vars BY DEF all, namesVars, Names!names_vars
<1> QED BY <1>1, <1>2

LEMMA DefinitionsSteps == part = "definitions" /\ [Next]_all => [Processes!Next]_(Processes!definitions)
<1>1. part = "definitions" /\ Next => Processes!Next BY DEF Next
<1>2. UNCHANGED all => UNCHANGED Processes!definitions BY DEF all, definitionsVars, Processes!definitions
<1> QED BY <1>1, <1>2

LEMMA GraphsSteps == part = "graphs" /\ [Next]_all => [Graph!Next]_(Graph!graph)
<1>1. part = "graphs" /\ Next => Graph!Next BY DEF Next
<1>2. UNCHANGED all => UNCHANGED Graph!graph BY DEF all, graphsVars, Graph!graph
<1> QED BY <1>1, <1>2

LEMMA LookupsInvariant == Spec => [](part = "lookups" => LookupsIInv)
<1> DEFINE Inv == part = "lookups" => LookupsIInv
<1>1. Init => Inv BY LookupsInitIInv DEF Init
<1>2. Inv /\ [Next]_all => Inv'
  <2> SUFFICES ASSUME Inv, [Next]_all, part' = "lookups" PROVE LookupsIInv' OBVIOUS
  <2>1. part = "lookups" BY PartKept
  <2> QED BY <2>1, LookupsSteps, LookupsStep, LookupsAssumption
<1> QED BY <1>1, <1>2, PTL DEF Spec

\* A 304 is never false, whoever writes when: a list kept under the current ETag is what the
\* client's context sees, but for the versions two overlapping writers both wrote and the
\* one a new value is committed under before its labels.
THEOREM NotModifiedTheorem == Spec => []NotModifiedIsTrue
<1>1. (part = "lookups" => LookupsIInv) => NotModifiedIsTrue BY DEF LookupsIInv, NotModifiedIsTrue
<1> QED BY <1>1, LookupsInvariant, PTL

\* For any orgs, sessions and codes: what an org's administrator commits changes no list, label,
\* resolved code or followed replacement of another org, and nothing at all on a platform type.
THEOREM OthersTheorem == Spec => OthersSeeNothing
<1> DEFINE Inv == part = "lookups" => LookupsIInv
<1>1. Spec => []Inv BY LookupsInvariant
<1>2. Inv /\ [Next]_all => [part = "lookups" => Values!OthersStepUnseen]_all
  <2> SUFFICES ASSUME Inv, [Next]_all, part = "lookups" PROVE Values!OthersStepUnseen OBVIOUS
  <2> QED BY LookupsSteps, LookupsStep, LookupsAssumption
<1> HIDE DEF Inv
<1> QED BY <1>1, <1>2, PTL DEF Spec, OthersSeeNothing

\* For any orgs, ladders and markings, and a catalog kept as long as the process likes: no
\* stamp, lost marking, failing source, new session or level struck from the catalog shows a
\* record to a known subject who did not see it, but for the exceptions StepRestricts names;
\* and nobody anonymous sees one that carries a level, or a stamp of the org the decision
\* runs under that its session has not overlooked.
THEOREM RestrictsTheorem == Spec => RestrictsOnly
<1> DEFINE Inv == part = "clearance" => MacIInv
<1>1. Init => Inv BY MacInitIInv DEF Init
<1>2. Inv /\ [Next]_all => Inv'
  <2> SUFFICES ASSUME Inv, [Next]_all, part' = "clearance" PROVE MacIInv' OBVIOUS
  <2>1. part = "clearance" BY PartKept
  <2> QED BY <2>1, ClearanceSteps, MacStepIInv
<1>3. Inv /\ [Next]_all => [part = "clearance" => Mac!StepRestricts]_all
  <2> SUFFICES ASSUME Inv, [Next]_all, part = "clearance" PROVE Mac!StepRestricts OBVIOUS
  <2> QED BY ClearanceSteps, MacRestricts, ClearanceAssumption
<1> HIDE DEF Inv
<1> QED BY <1>1, <1>2, <1>3, PTL DEF Spec, RestrictsOnly

LEMMA PermissionsInvariant == Spec => [](part = "permissions" => GrantsIInv)
<1> DEFINE Inv == part = "permissions" => GrantsIInv
<1>1. Init => Inv BY GrantsInitIInv DEF Init
<1>2. Inv /\ [Next]_all => Inv'
  <2> SUFFICES ASSUME Inv, [Next]_all, part' = "permissions" PROVE GrantsIInv' OBVIOUS
  <2>1. part = "permissions" BY PartKept
  <2> QED BY <2>1, PermissionsSteps, GrantsStepIInv
<1> QED BY <1>1, <1>2, PTL DEF Spec

\* However rows and groups are edited and policy caches filled: a reserved principal is held by
\* a role or a relationship only, a source that raises grants nothing, an admin is never shut
\* out, and a cache that differs from the table is owed its invalidation or was filled across one.
THEOREM RightsTheorem == Spec => []RightsAreEarned
<1>1. (part = "permissions" => GrantsIInv) => RightsAreEarned BY GrantsIInvImplies DEF RightsAreEarned
<1> QED BY <1>1, PermissionsInvariant, PTL

\* Whatever rows an org's administrators store, no user of another org is answered differently;
\* leaving a group adds no right and joining one takes none away.
THEOREM EditsTheorem == Spec => EditsStayInTheirOrg
<1> DEFINE Inv == part = "permissions" => GrantsIInv
<1>1. Spec => []Inv BY PermissionsInvariant
<1>2. Inv /\ [Next]_all => [part = "permissions" => Grants!EditStaysInItsOrg]_all
  <2> SUFFICES ASSUME Inv, [Next]_all, part = "permissions" PROVE Grants!EditStaysInItsOrg OBVIOUS
  <2> QED BY PermissionsSteps, GrantsStepStays, GrantsAssumption
<1> HIDE DEF Inv
<1> QED BY <1>1, <1>2, PTL DEF Spec, EditsStayInTheirOrg

\* However asks, renames and the ends of processes interleave, what an ask saves as fresh is
\* what Oracle said after the ask began.
THEOREM RefreshTheorem == Spec => RefreshedFromOracle
<1> DEFINE Inv == part = "names" => NamesIInv
<1>1. Init => Inv BY NamesInitIInv DEF Init
<1>2. Inv /\ [Next]_all => Inv'
  <2> SUFFICES ASSUME Inv, [Next]_all, part' = "names" PROVE NamesIInv' OBVIOUS
  <2>1. part = "names" BY PartKept
  <2> QED BY <2>1, NamesSteps, NamesStepIInv
<1>3. Inv /\ [Next]_all => [part = "names" => Names!StepRefreshes]_all
  <2> SUFFICES ASSUME Inv, [Next]_all, part = "names" PROVE Names!StepRefreshes OBVIOUS
  <2> QED BY NamesSteps, NamesStepRefreshes
<1> HIDE DEF Inv
<1> QED BY <1>1, <1>2, <1>3, PTL DEF Spec, RefreshedFromOracle

\* For any specs published by any number of overlapping replicas: a process opens on the newest
\* version of a key, of the purpose's own definition or of a variant that serves it.
THEOREM OpensTheorem == Spec => OpensOnTheNewestVariant
<1> DEFINE Inv == part = "definitions" => DefinitionsIInv
<1>1. Init => Inv BY DefinitionsInitIInv DEF Init
<1>2. Inv /\ [Next]_all => Inv'
  <2> SUFFICES ASSUME Inv, [Next]_all, part' = "definitions" PROVE DefinitionsIInv' OBVIOUS
  <2>1. part = "definitions" BY PartKept
  <2> QED BY <2>1, DefinitionsSteps, DefinitionsStepIInv, SpecsAssumption
<1>3. Inv /\ [Next]_all => [part = "definitions" => Processes!OpensOnTheNewest]_all
  <2> SUFFICES ASSUME Inv, [Next]_all, part = "definitions" PROVE Processes!OpensOnTheNewest OBVIOUS
  <2> QED BY DefinitionsSteps, DefinitionsOpen, SpecsAssumption
<1> HIDE DEF Inv
<1> QED BY <1>1, <1>2, <1>3, PTL DEF Spec, OpensOnTheNewestVariant

\* For a graph of any size that the validation accepts: a walk errs only at an approval, and is
\* never inside a set of nodes that holds neither an end nor an approval and that no edge leaves.
THEOREM GraphsTheorem == Spec => []AcceptedGraphsFinish
<1> DEFINE Inv == part = "graphs" => GraphsIInv
<1>1. Init => Inv BY GraphsInitIInv DEF Init
<1>2. Inv /\ [Next]_all => Inv'
  <2> SUFFICES ASSUME Inv, [Next]_all, part' = "graphs" PROVE GraphsIInv' OBVIOUS
  <2>1. part = "graphs" BY PartKept
  <2> QED BY <2>1, GraphsSteps, GraphsStepIInv
<1>3. Inv => AcceptedGraphsFinish BY GraphsIInvImplies, GraphsAssumption DEF AcceptedGraphsFinish
<1> QED BY <1>1, <1>2, <1>3, PTL DEF Spec
=============================================================================
