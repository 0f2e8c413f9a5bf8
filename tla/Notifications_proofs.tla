-------------------------- MODULE Notifications_proofs --------------------------
(***************************************************************************)
(* Proofs about the components of MCNotifications, for every value of its  *)
(* constants, each by an inductive invariant of its component.             *)
(***************************************************************************)
EXTENDS MCNotifications, WellFoundedInduction, FunctionTheorems, FiniteSetTheorems, SequenceTheorems, TLAPS

-----------------------------------------------------------------------------
(* What the components' proofs need of numbers, sets and sequences.         *)

LEMMA CountsAlike ==
    \A X : Adopt!Cardinality(X) = Cardinality(X) /\ Bell!Cardinality(X) = Cardinality(X)
  BY DEF Adopt!Cardinality, Bell!Cardinality, Cardinality, Adopt!IsFiniteSet, Bell!IsFiniteSet, IsFiniteSet

LEMMA LeastNatural ==
    ASSUME NEW T, T \subseteq Nat, T # {}
    PROVE  \E n \in T : \A m \in T : n <= m
<1> DEFINE R == {ss \in Nat \X Nat : ss[1] < ss[2]}
<1>1. IsWellFoundedOn(R, Nat) BY NatLessThanWellFounded DEF OpToRel
<1>2. \E x \in T : \A y \in T : ~ (<<y, x>> \in R)
  <2> HIDE DEF R
  <2> QED BY <1>1, WFMin
<1>3. PICK x \in T : \A y \in T : ~ (<<y, x>> \in R) BY <1>2
<1>4. ASSUME NEW m \in T PROVE x <= m
  <2>1. <<m, x>> \notin R BY <1>3
  <2>2. x \in Nat /\ m \in Nat OBVIOUS
  <2>3. ~ (m < x) BY <2>1, <2>2
  <2> QED BY <2>2, <2>3
<1> QED BY <1>4

LEMMA SameCount ==
    ASSUME NEW X, NEW Y, IsFiniteSet(X), NEW f \in [X -> Y],
           \A a, b \in X : f[a] = f[b] => a = b, \A y \in Y : \E a \in X : f[a] = y
    PROVE  IsFiniteSet(Y) /\ Cardinality(Y) = Cardinality(X)
<1>1. f \in Bijection(X, Y) BY Fun_IsBij
<1>2. ExistsBijection(X, Y) BY <1>1, Fun_ExistsBij
<1> QED BY <1>2, FS_Bijection

\* An injective enumeration as long as its set leaves nothing out.
LEMMA EnumeratesAll ==
    ASSUME NEW X, IsFiniteSet(X), NEW f \in [1 .. Cardinality(X) -> X],
           \A i, j \in DOMAIN f : f[i] = f[j] => i = j
    PROVE  Cardinality(X) \in Nat /\ \A x \in X : \E i \in 1 .. Cardinality(X) : f[i] = x
<1>1. Cardinality(X) \in Nat BY FS_CardinalityType
<1>2. Cardinality(1 .. Cardinality(X)) = Cardinality(X) BY <1>1, FS_Interval
<1>3. f \in Injection(1 .. Cardinality(X), X) BY Fun_IsInj
<1>4. f \in Surjection(1 .. Cardinality(X), X) BY <1>2, <1>3, FS_Injection
<1> QED BY <1>1, <1>4, Fun_SurjectionProperties

LEMMA FunctionIsSeq ==
    ASSUME NEW X, NEW n \in Nat, NEW f \in [1 .. n -> X]
    PROVE  f \in Seq(X) /\ Len(f) = n
  OBVIOUS

\* The sequence h is f, of length n, followed by g, of length k.
IsAppend(h, f, n, g, k, X) ==
    /\ h \in Seq(X) /\ Len(h) = n + k
    /\ \A i \in 1 .. n : h[i] = f[i]
    /\ \A i \in 1 .. k : h[n + i] = g[i]

LEMMA Appended ==
    ASSUME NEW X, NEW n \in Nat, NEW k \in Nat, NEW f \in [1 .. n -> X], NEW g \in [1 .. k -> X]
    PROVE  IsAppend(f \o g, f, n, g, k, X)
<1>1. f \in Seq(X) /\ g \in Seq(X) /\ Len(f) = n /\ Len(g) = k BY FunctionIsSeq
<1>2. /\ f \o g \in Seq(X) /\ Len(f \o g) = n + k
      /\ \A i \in 1 .. n + k : (f \o g)[i] = IF i <= n THEN f[i] ELSE g[i - n]
  BY <1>1, ConcatProperties
<1>3. ASSUME NEW i \in 1 .. k PROVE (f \o g)[n + i] = g[i]
  <2>1. n + i \in 1 .. n + k /\ ~(n + i <= n) /\ n + i - n = i OBVIOUS
  <2> QED BY <1>2, <2>1
<1> QED BY <1>2, <1>3 DEF IsAppend

-----------------------------------------------------------------------------
(* The inbox: an emit looks, and writes when its transaction commits.  What *)
(* the others did to the rows meanwhile shows in their histories.           *)

Row == [user : Users, org : Orgs, key : Keys \cup {NoKey}, event : Nat, created_at : Nat,
        read : BOOLEAN, archived : BOOLEAN]

InboxTypeInv ==
    /\ rows \in Seq(Row) /\ emits \in Nat
    /\ left \in Seq(Nat) /\ back \in Seq(Nat) /\ born \in Seq(Nat)
    /\ Len(left) = Len(rows) /\ Len(back) = Len(rows) /\ Len(born) = Len(rows)
    /\ pc \in [Producers -> {"idle", "emitted"}] /\ DOMAIN local = Producers
    /\ \A d \in deliveries : d.row \in Bell!Ids

\* Nothing is dated later than the clock.
ClockAhead ==
    \A r \in Bell!Ids : /\ rows[r].event <= emits /\ rows[r].created_at <= emits
                        /\ back[r] <= emits /\ born[r] <= emits

\* What an emit holds between its reads and its commit: no row bears its event yet; a row it
\* will fold into is one of its recipient's, org's and key's, and if it left the inbox, it
\* did since the emit looked; and where it found nothing to fold into, whatever is live by
\* now came since.
Held(l) ==
    /\ l.event \in 1 .. emits /\ l.org \in Orgs /\ l.key \in Keys \cup {NoKey}
    /\ l.insert \subseteq Users /\ DOMAIN l.fold \subseteq Users /\ l.insert \cap DOMAIN l.fold = {}
    /\ \A r \in Bell!Ids : rows[r].event # l.event
    /\ \A u \in DOMAIN l.fold :
          /\ l.fold[u] \in Bell!Ids /\ Bell!SameKey(l.fold[u], u, l.org, l.key)
          /\ Bell!Live(l.fold[u]) \/ left[l.fold[u]] >= l.event
    /\ l.coalesce =>
          \A u \in l.insert, r \in Bell!Ids :
              Bell!SameKey(r, u, l.org, l.key) /\ Bell!Live(r) => back[r] >= l.event

Emitting == {p \in Producers : pc[p] = "emitted"}
EmitsHold == \A p \in Emitting : Held(local[p])
EventsApart == \A p, q \in Emitting : p # q => local[p].event # local[q].event

SameAs(r, q) == rows[r].user = rows[q].user /\ rows[r].org = rows[q].org /\ rows[r].key = rows[q].key

\* Beside a row that an emit inserted because it found nothing live, even after that row has
\* left the inbox, only what came since is live.
LiveCameSince ==
    \A r, q \in Bell!Ids : Bell!Live(r) /\ born[q] # 0 /\ SameAs(r, q) => back[r] >= born[q]

InboxIInv == InboxTypeInv /\ ClockAhead /\ EmitsHold /\ EventsApart /\ LiveCameSince

LEMMA InboxInitIInv == Bell!Init => InboxIInv
<1> SUFFICES ASSUME Bell!Init PROVE InboxIInv OBVIOUS
<1> USE DEF Bell!Init
<1>1. <<>> \in Seq(Row) /\ <<>> \in Seq(Nat) /\ Len(<<>>) = 0 BY EmptySeq
<1>2. Bell!Ids = {} BY <1>1 DEF Bell!Ids
<1>3. InboxTypeInv BY <1>1 DEF InboxTypeInv
<1>4. Emitting = {} BY DEF Emitting
<1> QED BY <1>2, <1>3, <1>4 DEF InboxIInv, ClockAhead, EmitsHold, EventsApart, LiveCameSince

\* What every step leaves of the rows that were there, and of its own: whose a row is and
\* when it was born do not change, and one that comes into the inbox or leaves it does so now.
Onward ==
    /\ emits' \in Nat /\ emits <= emits' /\ Len(rows') \in Nat /\ Len(rows) <= Len(rows')
    /\ \A r \in Bell!Ids :
          /\ rows'[r].user = rows[r].user /\ rows'[r].org = rows[r].org /\ rows'[r].key = rows[r].key
          /\ born'[r] = born[r] /\ back'[r] \in {back[r], emits} /\ left'[r] \in {left[r], emits}
          /\ Bell!Live(r)' => Bell!Live(r) \/ back'[r] = emits
          /\ Bell!Live(r) => Bell!Live(r)' \/ left'[r] = emits
    /\ \A r \in Bell!Ids' \ Bell!Ids : back'[r] = emits

LEMMA IdsOf == InboxTypeInv =>
    /\ Len(rows) \in Nat /\ Bell!Ids = 1 .. Len(rows) /\ Bell!Ids \subseteq Nat
    /\ \A r \in Bell!Ids : rows[r] \in Row /\ left[r] \in Nat /\ back[r] \in Nat /\ born[r] \in Nat
<1> SUFFICES ASSUME InboxTypeInv
             PROVE  /\ Len(rows) \in Nat /\ Bell!Ids = 1 .. Len(rows) /\ Bell!Ids \subseteq Nat
                    /\ \A r \in Bell!Ids : rows[r] \in Row /\ left[r] \in Nat /\ back[r] \in Nat /\ born[r] \in Nat
  OBVIOUS
<1>1. Len(rows) \in Nat BY LenProperties DEF InboxTypeInv
<1>2. \A r \in 1 .. Len(rows) : rows[r] \in Row /\ left[r] \in Nat /\ back[r] \in Nat /\ born[r] \in Nat
  BY ElementOfSeq DEF InboxTypeInv
<1> QED BY <1>1, <1>2 DEF Bell!Ids

\* An emit that is not the step's own still holds what it held.
LEMMA HeldOnward ==
    ASSUME InboxTypeInv, InboxTypeInv', ClockAhead, Onward, NEW l, Held(l),
           \A r \in Bell!Ids' : rows'[r].event # l.event
    PROVE  Held(l)'
<1>1. /\ Bell!Ids \subseteq Bell!Ids' /\ Bell!Ids = 1 .. Len(rows) /\ Bell!Ids' = 1 .. Len(rows')
  BY IdsOf DEF Onward, Bell!Ids
<1>2. emits \in Nat /\ emits' \in Nat /\ emits <= emits' /\ l.event \in 1 .. emits
  BY DEF InboxTypeInv, Onward, Held
<1>3. ASSUME NEW u \in DOMAIN l.fold
      PROVE  /\ l.fold[u] \in Bell!Ids' /\ Bell!SameKey(l.fold[u], u, l.org, l.key)'
             /\ Bell!Live(l.fold[u])' \/ left'[l.fold[u]] >= l.event
  <2>1. PICK r \in Bell!Ids : r = l.fold[u] BY DEF Held
  <2>2. r \in Bell!Ids' BY <1>1
  <2>3. Bell!SameKey(r, u, l.org, l.key)' BY <2>1 DEF Held, Onward, Bell!SameKey
  <2>4. Bell!Live(r)' \/ left'[r] >= l.event
    <3>1. Bell!Live(r) \/ left[r] >= l.event BY <2>1 DEF Held
    <3>2. left'[r] \in {left[r], emits} BY DEF Onward
    <3>3. Bell!Live(r) => Bell!Live(r)' \/ left'[r] = emits BY DEF Onward
    <3>4. left[r] \in Nat BY IdsOf
    <3> QED BY <1>2, <3>1, <3>2, <3>3, <3>4
  <2> QED BY <2>1, <2>2, <2>3, <2>4
<1>4. ASSUME l.coalesce, NEW u \in l.insert, NEW r \in Bell!Ids', Bell!SameKey(r, u, l.org, l.key)', Bell!Live(r)'
      PROVE  back'[r] >= l.event
  <2>1. CASE r \in Bell!Ids
    <3>1. Bell!SameKey(r, u, l.org, l.key) BY <1>4, <2>1 DEF Onward, Bell!SameKey
    <3>2. Bell!Live(r) => back[r] >= l.event BY <1>4, <2>1, <3>1 DEF Held
    <3>3. back'[r] \in {back[r], emits} /\ (Bell!Live(r) \/ back'[r] = emits) BY <1>4, <2>1 DEF Onward
    <3>4. back[r] \in Nat BY <2>1, IdsOf
    <3> QED BY <1>2, <3>2, <3>3, <3>4
  <2>2. CASE r \notin Bell!Ids
    <3>1. back'[r] = emits BY <2>2 DEF Onward
    <3> QED BY <1>2, <3>1
  <2> QED BY <2>1, <2>2
<1>5. l.event \in 1 .. emits' BY <1>2
<1> QED BY <1>3, <1>4, <1>5 DEF Held

\* Of the rows that were there, those that are live still came since the ones beside them.
LEMMA SinceOnward ==
    ASSUME InboxTypeInv, ClockAhead, Onward, LiveCameSince,
           NEW r \in Bell!Ids', NEW q \in Bell!Ids, Bell!Live(r)', born'[q] # 0, SameAs(r, q)'
    PROVE  back'[r] >= born'[q]
<1>1. born'[q] = born[q] /\ born[q] <= emits /\ born[q] \in Nat /\ emits \in Nat
  BY IdsOf DEF Onward, ClockAhead, InboxTypeInv
<1>2. CASE r \in Bell!Ids
  <2>1. SameAs(r, q) BY <1>2 DEF SameAs, Onward
  <2>2. Bell!Live(r) => back[r] >= born[q] BY <1>1, <1>2, <2>1 DEF LiveCameSince
  <2>3. back'[r] \in {back[r], emits} /\ (Bell!Live(r) \/ back'[r] = emits) BY <1>2 DEF Onward
  <2>4. back[r] \in Nat BY <1>2, IdsOf
  <2> QED BY <1>1, <2>2, <2>3, <2>4
<1>3. CASE r \notin Bell!Ids
  <2>1. back'[r] = emits BY <1>3 DEF Onward
  <2> QED BY <1>1, <2>1
<1> QED BY <1>2, <1>3

\* A step that leaves the emits to themselves: all of them still hold.
LEMMA OthersOnward ==
    ASSUME InboxIInv, InboxTypeInv', Onward, NEW p, pc' = [pc EXCEPT ![p] = "idle"],
           \A q \in Emitting \ {p} : local'[q] = local[q],
           \A q \in Emitting \ {p} : \A r \in Bell!Ids' : rows'[r].event # local[q].event
    PROVE  EmitsHold' /\ EventsApart'
<1>1. Emitting' \subseteq Emitting \ {p} BY DEF Emitting, InboxIInv, InboxTypeInv
<1>2. \A q \in Emitting' : local'[q] = local[q] BY <1>1
<1>3. ASSUME NEW q \in Emitting' PROVE Held(local[q])'
  <2>1. PICK l : l = local[q] OBVIOUS
  <2>2. Held(l) BY <1>1, <2>1 DEF InboxIInv, EmitsHold
  <2>3. \A r \in Bell!Ids' : rows'[r].event # l.event BY <1>1, <2>1
  <2>4. Held(l)' BY <2>2, <2>3, HeldOnward DEF InboxIInv
  <2> QED BY <1>2, <2>1, <2>4
<1> QED BY <1>1, <1>2, <1>3 DEF EmitsHold, EventsApart, InboxIInv

\* The recipients' operations, by what they have in common: they mark rows of one recipient,
\* in the org of the request, and never make a row unread.
MarksOwn(u, o, R, read, archived) ==
    /\ Bell!Marked(u, o, R, read, archived)
    /\ \A r \in R : r \in Bell!Ids /\ Bell!Owned(r, u, o)
    /\ \A r \in Bell!Ids : read[r] \in BOOLEAN /\ archived[r] \in BOOLEAN /\ (rows[r].read => read[r])

LEMMA RecipientMarks ==
    ASSUME InboxTypeInv, NEW u, NEW o, Bell!RecipientStep(u, o)
    PROVE  \E R, read, archived : MarksOwn(u, o, R, read, archived)
<1>1. \A r \in Bell!Ids : rows[r].read \in BOOLEAN /\ rows[r].archived \in BOOLEAN BY IdsOf DEF Row
<1>2. \A r \in Bell!Ids : /\ Bell!Reads[r] = rows[r].read /\ Bell!Archives[r] = rows[r].archived
                          /\ Bell!AllTrue[r] = TRUE /\ Bell!AllFalse[r] = FALSE
  BY DEF Bell!Reads, Bell!Archives, Bell!AllTrue, Bell!AllFalse
<1>3. CASE Bell!mark_read(u, o)
  <2>1. PICK r \in Bell!Ids : Bell!Owned(r, u, o) /\ Bell!Marked(u, o, {r}, Bell!AllTrue, Bell!Archives)
    BY <1>3 DEF Bell!mark_read
  <2>2. MarksOwn(u, o, {r}, Bell!AllTrue, Bell!Archives) BY <1>1, <1>2, <2>1 DEF MarksOwn
  <2> QED BY <2>2
<1>4. CASE Bell!archive(u, o)
  <2>1. PICK r \in Bell!Ids : Bell!Owned(r, u, o) /\ Bell!Marked(u, o, {r}, Bell!Reads, Bell!AllTrue)
    BY <1>4 DEF Bell!archive
  <2>2. MarksOwn(u, o, {r}, Bell!Reads, Bell!AllTrue) BY <1>1, <1>2, <2>1 DEF MarksOwn
  <2> QED BY <2>2
<1>5. CASE Bell!unarchive(u, o)
  <2>1. PICK r \in Bell!Ids : Bell!Owned(r, u, o) /\ Bell!Marked(u, o, {r}, Bell!Reads, Bell!AllFalse)
    BY <1>5 DEF Bell!unarchive
  <2>2. MarksOwn(u, o, {r}, Bell!Reads, Bell!AllFalse) BY <1>1, <1>2, <2>1 DEF MarksOwn
  <2> QED BY <2>2
<1>6. CASE Bell!mark_all_read(u, o)
  <2>1. PICK R : /\ R = {r \in Bell!Ids : Bell!Owned(r, u, o) /\ ~ rows[r].read}
                 /\ Bell!Marked(u, o, R, Bell!AllTrue, Bell!Archives)
    BY <1>6 DEF Bell!mark_all_read
  <2>2. MarksOwn(u, o, R, Bell!AllTrue, Bell!Archives) BY <1>1, <1>2, <2>1 DEF MarksOwn
  <2> QED BY <2>2
<1>7. CASE Bell!archive_read(u, o)
  <2>1. PICK R : /\ R = {r \in Bell!Ids : Bell!Owned(r, u, o) /\ rows[r].read /\ ~ rows[r].archived}
                 /\ Bell!Marked(u, o, R, Bell!Reads, Bell!AllTrue)
    BY <1>7 DEF Bell!archive_read
  <2>2. MarksOwn(u, o, R, Bell!Reads, Bell!AllTrue) BY <1>1, <1>2, <2>1 DEF MarksOwn
  <2> QED BY <2>2
<1> QED BY <1>3, <1>4, <1>5, <1>6, <1>7 DEF Bell!RecipientStep

LEMMA MarkedWrites ==
    ASSUME InboxTypeInv, NEW u, NEW o, NEW R, NEW read, NEW archived, MarksOwn(u, o, R, read, archived)
    PROVE  /\ InboxTypeInv' /\ Onward /\ Len(rows') = Len(rows)
           /\ \A r \in Bell!Ids : /\ rows'[r].event = rows[r].event /\ rows'[r].created_at = rows[r].created_at
                                  /\ r \notin R => rows'[r] = rows[r]
           /\ UNCHANGED <<deliveries, emits, pc, local>> /\ by' = [who |-> "recipient", user |-> u, org |-> o]
<1> DEFINE n == Len(rows)
<1>1. n \in Nat /\ Bell!Ids = 1 .. n /\ \A r \in 1 .. n : rows[r] \in Row /\ left[r] \in Nat /\ back[r] \in Nat
  BY IdsOf
<1>2. /\ rows' = [r \in 1 .. n |-> IF r \in R THEN [rows[r] EXCEPT !.read = read[r], !.archived = archived[r]]
                                  ELSE rows[r]]
      /\ left' = [r \in 1 .. n |-> IF r \in R /\ (read[r] \/ archived[r]) THEN emits ELSE left[r]]
      /\ back' = [r \in 1 .. n |-> IF r \in R /\ rows[r].archived /\ ~ archived[r] THEN emits ELSE back[r]]
      /\ UNCHANGED <<deliveries, emits, pc, local, born>> /\ by' = [who |-> "recipient", user |-> u, org |-> o]
  BY <1>1 DEF Bell!Marked, MarksOwn
<1>3. \A r \in 1 .. n : read[r] \in BOOLEAN /\ archived[r] \in BOOLEAN /\ (rows[r].read => read[r])
  BY <1>1 DEF MarksOwn
<1>4. emits \in Nat BY DEF InboxTypeInv
<1> HIDE DEF n
<1>5. rows' \in [1 .. n -> Row] BY <1>1, <1>2, <1>3 DEF Row
<1>6. left' \in [1 .. n -> Nat] /\ back' \in [1 .. n -> Nat] BY <1>1, <1>2, <1>4
<1>7. rows' \in Seq(Row) /\ Len(rows') = n BY <1>1, <1>5, FunctionIsSeq
<1>8. left' \in Seq(Nat) /\ back' \in Seq(Nat) /\ Len(left') = n /\ Len(back') = n BY <1>1, <1>6, FunctionIsSeq
<1>9. Bell!Ids' = Bell!Ids BY <1>1, <1>7 DEF Bell!Ids
<1>10. InboxTypeInv' BY <1>2, <1>7, <1>8, <1>9 DEF InboxTypeInv, n
<1>11. ASSUME NEW r \in Bell!Ids
       PROVE  /\ rows'[r].user = rows[r].user /\ rows'[r].org = rows[r].org /\ rows'[r].key = rows[r].key
              /\ rows'[r].event = rows[r].event /\ rows'[r].created_at = rows[r].created_at
              /\ r \notin R => rows'[r] = rows[r]
              /\ rows'[r].read = IF r \in R THEN read[r] ELSE rows[r].read
              /\ rows'[r].archived = IF r \in R THEN archived[r] ELSE rows[r].archived
  <2>1. PICK row \in Row : row = rows[r] BY <1>1, <1>11
  <2>2. rows'[r] = IF r \in R THEN [row EXCEPT !.read = read[r], !.archived = archived[r]] ELSE row
    BY <1>1, <1>2, <2>1
  <2> QED BY <2>1, <2>2 DEF Row
<1>12. ASSUME NEW r \in Bell!Ids
       PROVE  /\ back'[r] \in {back[r], emits} /\ left'[r] \in {left[r], emits}
              /\ Bell!Live(r)' => Bell!Live(r) \/ back'[r] = emits
              /\ Bell!Live(r) => Bell!Live(r)' \/ left'[r] = emits
  <2>1. rows[r].read \in BOOLEAN /\ rows[r].archived \in BOOLEAN BY <1>1 DEF Row
  <2>2. CASE r \in R
    <3>1. rows'[r].read = read[r] /\ rows'[r].archived = archived[r] BY <1>11, <2>2
    <3> QED BY <1>1, <1>2, <1>3, <2>1, <2>2, <3>1 DEF Bell!Live
  <2>3. CASE r \notin R
    <3>1. rows'[r] = rows[r] BY <1>11, <2>3
    <3> QED BY <1>1, <1>2, <2>3, <3>1 DEF Bell!Live
  <2> QED BY <2>2, <2>3
<1>13. Onward
  <2>1. emits' = emits /\ born' = born /\ Len(rows') = Len(rows) /\ Len(rows) \in Nat
    BY <1>1, <1>2, <1>7 DEF n
  <2> QED BY <1>4, <1>9, <1>11, <1>12, <2>1 DEF Onward
<1> QED BY <1>2, <1>7, <1>10, <1>11, <1>13 DEF n

LEMMA RecipientKeeps ==
    ASSUME InboxIInv, NEW u, NEW o, Bell!RecipientStep(u, o)
    PROVE  InboxIInv' /\ Bell!EmitIsWhole /\ Bell!RewriteStaysHome
<1> USE DEF InboxIInv
<1>1. PICK R, read, archived : MarksOwn(u, o, R, read, archived) BY RecipientMarks
<1>2. /\ InboxTypeInv' /\ Onward /\ Len(rows') = Len(rows)
      /\ \A r \in Bell!Ids : /\ rows'[r].event = rows[r].event /\ rows'[r].created_at = rows[r].created_at
                             /\ r \notin R => rows'[r] = rows[r]
      /\ UNCHANGED <<deliveries, emits, pc, local>> /\ by' = [who |-> "recipient", user |-> u, org |-> o]
  BY <1>1, MarkedWrites
<1>3. Bell!Ids' = Bell!Ids BY <1>2 DEF Bell!Ids
<1>4. EmitsHold'
  <2> SUFFICES ASSUME NEW q \in Emitting' PROVE Held(local[q])' BY DEF EmitsHold
  <2>1. PICK l : l = local[q] OBVIOUS
  <2>2. Held(l) BY <1>2, <2>1 DEF EmitsHold, Emitting
  <2>3. \A r \in Bell!Ids' : rows'[r].event # l.event BY <1>2, <1>3, <2>2 DEF Held
  <2>4. Held(l)' BY <1>2, <2>2, <2>3, HeldOnward
  <2> QED BY <1>2, <2>1, <2>4
<1>5. EventsApart' BY <1>2 DEF EventsApart, Emitting
<1>6. LiveCameSince' BY <1>2, <1>3, SinceOnward DEF LiveCameSince
<1>7. ClockAhead'
  <2>1. \A r \in Bell!Ids : back'[r] \in {back[r], emits} /\ born'[r] = born[r] BY <1>2 DEF Onward
  <2>2. emits \in Nat /\ emits' = emits BY <1>2 DEF InboxTypeInv
  <2> QED BY <1>2, <1>3, <2>1, <2>2 DEF ClockAhead
<1>8. Bell!EmitIsWhole BY <1>2 DEF Bell!EmitIsWhole
<1>9. Bell!RewriteStaysHome
  <2>1. \A r \in R : rows[r].user = u /\ o \in {rows[r].org, NoOrg} BY <1>1 DEF Bell!Owned, MarksOwn
  <2> QED BY <1>2, <2>1 DEF Bell!RewriteStaysHome, Bell!Content, Bell!MarksOf
<1> QED BY <1>2, <1>4, <1>5, <1>6, <1>7, <1>8, <1>9

LEMMA NewestIsOne ==
    ASSUME InboxTypeInv, ClockAhead, NEW X, X \subseteq Bell!Ids, X # {}
    PROVE  Bell!Newest(X) \in X
<1> DEFINE Age(r) == emits - rows[r].created_at
           T == {Age(r) : r \in X}
<1>1. emits \in Nat /\ \A r \in X : rows[r].created_at \in Nat /\ rows[r].created_at <= emits
  BY IdsOf DEF InboxTypeInv, ClockAhead, Row
<1>2. T \subseteq Nat /\ T # {} BY <1>1
<1>3. PICK a \in T : \A b \in T : a <= b
  <2> HIDE DEF T
  <2> QED BY <1>2, LeastNatural
<1>4. PICK r \in X : a = Age(r) BY <1>3
<1>5. ASSUME NEW q \in X PROVE rows[q].created_at <= rows[r].created_at
  <2>1. Age(r) <= Age(q) BY <1>3, <1>4
  <2>2. emits \in Int /\ rows[q].created_at \in Int /\ rows[r].created_at \in Int BY <1>1
  <2> QED BY <2>1, <2>2
<1> HIDE DEF T
<1>6. \E x \in X : \A q \in X : rows[q].created_at <= rows[x].created_at BY <1>5
<1> QED BY <1>6 DEF Bell!Newest

LEMMA NotifyKeeps ==
    ASSUME InboxIInv, NEW p \in Producers, NEW o \in Orgs, NEW k \in Keys \cup {NoKey}, NEW ids \in Bell!Recipients,
           NEW external, NEW asked \in BOOLEAN, Bell!Notify(p, o, k, ids, external, asked)
    PROVE  InboxIInv' /\ Bell!EmitIsWhole /\ Bell!RewriteStaysHome
<1> USE DEF InboxIInv
<1> DEFINE known == IF Bell!Coalesces(asked, k, external)
                    THEN {u \in ids : Bell!Candidates(u, o, k) # {}} ELSE {}
<1>1. /\ emits' = emits + 1 /\ pc' = [pc EXCEPT ![p] = "emitted"] /\ by' = [who |-> "producer"]
      /\ UNCHANGED <<rows, deliveries, left, back, born, marks>>
  BY DEF Bell!Notify
<1>2. PICK l : /\ l = [event |-> emits + 1, org |-> o, key |-> k, coalesce |-> Bell!Coalesces(asked, k, external),
                       fold |-> [u \in known |-> Bell!Newest(Bell!Candidates(u, o, k))],
                       insert |-> ids \ known, external |-> external]
               /\ local' = [local EXCEPT ![p] = l]
  BY <1>1 DEF Bell!Notify
<1>3. /\ l.event = emits + 1 /\ l.org = o /\ l.key = k /\ l.insert = ids \ known
      /\ l.coalesce = Bell!Coalesces(asked, k, external)
      /\ DOMAIN l.fold = known /\ \A u \in known : l.fold[u] = Bell!Newest(Bell!Candidates(u, o, k))
  BY <1>2
<1>4. emits \in Nat /\ Bell!Ids' = Bell!Ids BY <1>1 DEF InboxTypeInv, Bell!Ids
<1>5. ids \subseteq Users BY DEF Bell!Recipients
<1>6. InboxTypeInv' BY <1>1, <1>2, <1>4 DEF InboxTypeInv
<1>7. ClockAhead'
  <2>1. \A r \in Bell!Ids : /\ rows[r].event \in Nat /\ rows[r].created_at \in Nat
                            /\ back[r] \in Nat /\ born[r] \in Nat
    BY IdsOf DEF Row
  <2> QED BY <1>1, <1>4, <2>1 DEF ClockAhead
<1>8. LiveCameSince' BY <1>1, <1>4 DEF LiveCameSince, Bell!Live, SameAs
<1>9. Onward
  <2>1. emits' \in Nat /\ emits <= emits' BY <1>1, <1>4
  <2>2. Len(rows) \in Nat BY IdsOf
  <2> QED BY <1>1, <1>4, <2>1, <2>2 DEF Onward, Bell!Live
<1>10. Held(l)'
  <2>1. l.event \in 1 .. emits' BY <1>1, <1>3, <1>4
  <2>2. \A r \in Bell!Ids : rows[r].event # l.event
    <3>1. \A r \in Bell!Ids : rows[r].event \in Nat /\ rows[r].event <= emits BY IdsOf DEF Row, ClockAhead
    <3> QED BY <1>3, <1>4, <3>1
  <2>3. ASSUME NEW u \in known
        PROVE  l.fold[u] \in Bell!Ids /\ Bell!SameKey(l.fold[u], u, o, k) /\ Bell!Live(l.fold[u])
    <3>1. Bell!Candidates(u, o, k) # {} /\ Bell!Candidates(u, o, k) \subseteq Bell!Ids BY <2>3 DEF Bell!Candidates
    <3>2. Bell!Newest(Bell!Candidates(u, o, k)) \in Bell!Candidates(u, o, k) BY <3>1, NewestIsOne
    <3> QED BY <1>3, <2>3, <3>2 DEF Bell!Candidates
  <2>4. ASSUME l.coalesce, NEW u \in l.insert, NEW r \in Bell!Ids
        PROVE  ~ (Bell!SameKey(r, u, o, k) /\ Bell!Live(r))
    <3>1. Bell!Candidates(u, o, k) = {} BY <1>3, <2>4
    <3> QED BY <3>1 DEF Bell!Candidates
  <2>5. l.insert \subseteq Users /\ known \subseteq Users /\ l.insert \cap known = {} BY <1>3, <1>5
  <2> HIDE DEF known
  <2>6. \A u \in known : l.fold[u] \in Bell!Ids' /\ Bell!SameKey(l.fold[u], u, o, k)' /\ Bell!Live(l.fold[u])'
    BY <1>1, <1>4, <2>3 DEF Bell!SameKey, Bell!Live
  <2>7. l.coalesce => \A u \in l.insert, r \in Bell!Ids' : ~ (Bell!SameKey(r, u, o, k)' /\ Bell!Live(r)')
    BY <1>1, <1>4, <2>4 DEF Bell!SameKey, Bell!Live
  <2> QED BY <1>1, <1>3, <1>4, <2>1, <2>2, <2>5, <2>6, <2>7 DEF Held
<1> HIDE DEF known
<1>11. /\ Emitting' = Emitting \cup {p} /\ p \notin Emitting
       /\ local'[p] = l /\ \A q \in Emitting : local'[q] = local[q]
  <2>1. pc[p] = "idle" BY DEF Bell!Notify
  <2>2. pc \in [Producers -> {"idle", "emitted"}] /\ DOMAIN local = Producers BY DEF InboxTypeInv
  <2>3. Emitting' = Emitting \cup {p} /\ p \notin Emitting BY <1>1, <2>1, <2>2 DEF Emitting
  <2>4. local'[p] = l /\ \A q \in Producers \ {p} : local'[q] = local[q] BY <1>2, <2>2
  <2> QED BY <2>3, <2>4 DEF Emitting
<1>12. EmitsHold'
  <2> SUFFICES ASSUME NEW q \in Emitting' PROVE Held(local[q])' BY DEF EmitsHold
  <2>1. CASE q = p BY <1>10, <1>11, <2>1
  <2>2. CASE q # p
    <3>1. PICK h : h = local[q] OBVIOUS
    <3>2. Held(h) BY <1>11, <2>2, <3>1 DEF EmitsHold
    <3>3. \A r \in Bell!Ids' : rows'[r].event # h.event BY <1>1, <1>4, <3>2 DEF Held
    <3>4. Held(h)' BY <1>6, <1>9, <3>2, <3>3, HeldOnward
    <3> QED BY <1>11, <2>2, <3>1, <3>4
  <2> QED BY <2>1, <2>2
<1>13. EventsApart'
  <2>1. \A q \in Emitting : local'[q].event # l.event
    <3>1. \A q \in Emitting : local[q].event \in 1 .. emits BY DEF EmitsHold, Held
    <3> QED BY <1>3, <1>4, <1>11, <3>1
  <2> QED BY <1>11, <2>1 DEF EventsApart
<1>14. Bell!EmitIsWhole
  <2>1. by'.who # "commit" BY <1>1
  <2> QED BY <2>1 DEF Bell!EmitIsWhole
<1>15. Bell!RewriteStaysHome BY <1>1 DEF Bell!RewriteStaysHome, Bell!Content, Bell!MarksOf
<1> QED BY <1>6, <1>7, <1>8, <1>12, <1>13, <1>14, <1>15

LEMMA RollbackKeeps ==
    ASSUME InboxIInv, NEW p \in Producers, Bell!Rollback(p)
    PROVE  InboxIInv' /\ Bell!EmitIsWhole /\ Bell!RewriteStaysHome
<1> USE DEF InboxIInv
<1>1. /\ pc' = [pc EXCEPT ![p] = "idle"] /\ local' = [local EXCEPT ![p] = Bell!Idle] /\ by' = [who |-> "producer"]
      /\ UNCHANGED <<rows, deliveries, emits, left, back, born, marks>>
  BY DEF Bell!Rollback
<1>2. Bell!Ids' = Bell!Ids BY <1>1 DEF Bell!Ids
<1>3. InboxTypeInv' BY <1>1, <1>2 DEF InboxTypeInv
<1>4. ClockAhead' /\ LiveCameSince' BY <1>1, <1>2 DEF ClockAhead, LiveCameSince, Bell!Live, SameAs
<1>5. Onward
  <2>1. emits \in Nat /\ Len(rows) \in Nat BY IdsOf DEF InboxTypeInv
  <2> QED BY <1>1, <1>2, <2>1 DEF Onward, Bell!Live
<1>6. \A q \in Emitting \ {p} : local'[q] = local[q] BY <1>1 DEF Emitting, InboxTypeInv
<1>7. \A q \in Emitting \ {p} : \A r \in Bell!Ids' : rows'[r].event # local[q].event
  BY <1>1, <1>2 DEF EmitsHold, Held
<1>8. EmitsHold' /\ EventsApart' BY <1>1, <1>3, <1>5, <1>6, <1>7, OthersOnward
<1>9. Bell!EmitIsWhole
  <2>1. by'.who # "commit" BY <1>1
  <2> QED BY <2>1 DEF Bell!EmitIsWhole
<1>10. Bell!RewriteStaysHome BY <1>1 DEF Bell!RewriteStaysHome, Bell!Content, Bell!MarksOf
<1> QED BY <1>3, <1>4, <1>8, <1>9, <1>10

Queued(l, k) == {[row |-> Len(rows) + i, channel |-> c] : i \in 1 .. k, c \in l.external}

\* What the commit of an emit writes, with its new rows in the order the database numbers them.
CommitWrites(l, k, order) ==
    /\ k \in Nat /\ order \in [1 .. k -> l.insert]
    /\ \A i, j \in 1 .. k : order[i] = order[j] => i = j
    /\ \A u \in l.insert : \E i \in 1 .. k : order[i] = u
    /\ rows' \in Seq(Row) /\ left' \in Seq(Nat) /\ back' \in Seq(Nat) /\ born' \in Seq(Nat)
    /\ Len(rows') = Len(rows) + k /\ Len(left') = Len(rows) + k
    /\ Len(back') = Len(rows) + k /\ Len(born') = Len(rows) + k
    /\ \A r \in Bell!Ids :
          /\ rows'[r] = IF \E u \in DOMAIN l.fold : l.fold[u] = r THEN Bell!Folded(rows[r], l) ELSE rows[r]
          /\ left'[r] = left[r] /\ back'[r] = back[r] /\ born'[r] = born[r]
    /\ \A i \in 1 .. k :
          /\ rows'[Len(rows) + i] = Bell!New(order[i], l) /\ back'[Len(rows) + i] = emits
          /\ born'[Len(rows) + i] = IF l.coalesce THEN l.event ELSE 0
    /\ deliveries' = deliveries \cup Queued(l, k)

LEMMA CommitDoes ==
    ASSUME UsersAreFinite, InboxTypeInv, NEW p \in Producers, Held(local[p]), Bell!Commit(p)
    PROVE  \E k, order : CommitWrites(local[p], k, order)
<1> DEFINE l == local[p]
           n == Len(rows)
           folds == {l.fold[u] : u \in DOMAIN l.fold}
           updated == [r \in Bell!Ids |-> IF r \in folds THEN Bell!Folded(rows[r], l) ELSE rows[r]]
           k == Cardinality(l.insert)
<1>1. n \in Nat /\ Bell!Ids = 1 .. n /\ \A r \in 1 .. n : rows[r] \in Row BY IdsOf
<1>2. /\ left \in [1 .. n -> Nat] /\ back \in [1 .. n -> Nat] /\ born \in [1 .. n -> Nat]
      /\ emits \in Nat /\ l.event \in Nat /\ l.event \in 1 .. emits
  BY LenProperties DEF InboxTypeInv, Held
<1>3. PICK order \in [1 .. Bell!Cardinality(l.insert) -> l.insert] :
         (\A i, j \in DOMAIN order : order[i] = order[j] => i = j) /\ Bell!Write(l, order)
  BY DEF Bell!Commit, Bell!Inserted
<1>21. /\ rows' = updated \o [i \in DOMAIN order |-> Bell!New(order[i], l)]
       /\ left' = left \o [i \in DOMAIN order |-> 0]
       /\ back' = back \o [i \in DOMAIN order |-> emits]
       /\ born' = born \o [i \in DOMAIN order |-> IF l.coalesce THEN l.event ELSE 0]
  BY <1>3 DEF Bell!Write
<1>22. deliveries' = deliveries \cup
             {[row |-> Len(rows) + i, channel |-> c] : i \in DOMAIN order, c \in l.external}
  BY <1>3 DEF Bell!Write
<1>4. l.insert \subseteq Users /\ IsFiniteSet(l.insert) BY FS_Subset DEF UsersAreFinite, Held
<1>16. k = Bell!Cardinality(l.insert) BY CountsAlike
<1>5. k \in Nat /\ \A u \in l.insert : \E i \in 1 .. k : order[i] = u
  <2>1. /\ order \in [1 .. Cardinality(l.insert) -> l.insert]
        /\ \A i, j \in DOMAIN order : order[i] = order[j] => i = j
    BY <1>3, <1>16
  <2> HIDE DEF l
  <2> QED BY ONLY <1>4, <2>1, EnumeratesAll
<1>6. DOMAIN order = 1 .. k /\ order \in [1 .. k -> l.insert] BY <1>16
<1>17. \A i, j \in 1 .. k : order[i] = order[j] => i = j BY <1>3, <1>6
<1> HIDE DEF k, n, l
<1>7. updated \in [1 .. n -> Row]
  <2> SUFFICES ASSUME NEW r \in 1 .. n PROVE Bell!Folded(rows[r], l) \in Row BY <1>1
  <2>1. PICK row \in Row : row = rows[r] BY <1>1
  <2>2. [row EXCEPT !.event = l.event, !.created_at = l.event] \in Row BY <1>2 DEF Row
  <2> QED BY <2>1, <2>2 DEF Bell!Folded
<1>8. [i \in 1 .. k |-> Bell!New(order[i], l)] \in [1 .. k -> Row]
  <2> SUFFICES ASSUME NEW i \in 1 .. k PROVE Bell!New(order[i], l) \in Row OBVIOUS
  <2>1. order[i] \in Users BY <1>4, <1>6
  <2> QED BY <1>2, <2>1 DEF Row, Bell!New, Held, l
<1>9. /\ rows' \in Seq(Row) /\ Len(rows') = n + k
      /\ \A r \in 1 .. n : rows'[r] = updated[r]
      /\ \A i \in 1 .. k : rows'[n + i] = Bell!New(order[i], l)
  <2> DEFINE new == [i \in 1 .. k |-> Bell!New(order[i], l)]
  <2>1. \A i \in 1 .. k : new[i] = Bell!New(order[i], l) OBVIOUS
  <2>2. rows' = updated \o new BY <1>21, <1>6
  <2>3. new \in [1 .. k -> Row] BY <1>8
  <2> HIDE DEF new, updated
  <2>4. n \in Nat /\ k \in Nat BY <1>1, <1>5
  <2>5. IsAppend(updated \o new, updated, n, new, k, Row)
    BY ONLY <1>7, <2>3, <2>4, Appended
  <2> QED BY <2>1, <2>2, <2>5 DEF IsAppend
<1>10. /\ left' \in Seq(Nat) /\ Len(left') = n + k
       /\ \A r \in 1 .. n : left'[r] = left[r]
  <2> DEFINE new == [i \in 1 .. k |-> 0]
  <2>1. left' = left \o new /\ new \in [1 .. k -> Nat] BY <1>21, <1>6
  <2> HIDE DEF new
  <2>4. n \in Nat /\ k \in Nat /\ left \in [1 .. n -> Nat] BY <1>1, <1>2, <1>5
  <2>5. IsAppend(left \o new, left, n, new, k, Nat)
    BY ONLY <2>1, <2>4, Appended
  <2> QED BY <2>1, <2>5 DEF IsAppend
<1>11. /\ back' \in Seq(Nat) /\ Len(back') = n + k
       /\ \A r \in 1 .. n : back'[r] = back[r]
       /\ \A i \in 1 .. k : back'[n + i] = emits
  <2> DEFINE new == [i \in 1 .. k |-> emits]
  <2>1. back' = back \o new /\ new \in [1 .. k -> Nat] /\ \A i \in 1 .. k : new[i] = emits BY <1>2, <1>21, <1>6
  <2> HIDE DEF new
  <2>4. n \in Nat /\ k \in Nat /\ back \in [1 .. n -> Nat] BY <1>1, <1>2, <1>5
  <2>5. IsAppend(back \o new, back, n, new, k, Nat)
    BY ONLY <2>1, <2>4, Appended
  <2> QED BY <2>1, <2>5 DEF IsAppend
<1>12. /\ born' \in Seq(Nat) /\ Len(born') = n + k
       /\ \A r \in 1 .. n : born'[r] = born[r]
       /\ \A i \in 1 .. k : born'[n + i] = IF l.coalesce THEN l.event ELSE 0
  <2> DEFINE new == [i \in 1 .. k |-> IF l.coalesce THEN l.event ELSE 0]
  <2>1. born' = born \o new /\ new \in [1 .. k -> Nat] BY <1>2, <1>21, <1>6
  <2>2. \A i \in 1 .. k : new[i] = IF l.coalesce THEN l.event ELSE 0 OBVIOUS
  <2> HIDE DEF new
  <2>4. n \in Nat /\ k \in Nat /\ born \in [1 .. n -> Nat] BY <1>1, <1>2, <1>5
  <2>5. IsAppend(born \o new, born, n, new, k, Nat)
    BY ONLY <2>1, <2>4, Appended
  <2> QED BY <2>1, <2>2, <2>5 DEF IsAppend
<1>13. \A r \in Bell!Ids :
          rows'[r] = IF \E u \in DOMAIN l.fold : l.fold[u] = r THEN Bell!Folded(rows[r], l) ELSE rows[r]
  BY <1>1, <1>9
<1>14. deliveries' = deliveries \cup Queued(l, k)
  BY <1>22, <1>6 DEF Queued
<1> HIDE DEF updated
<1>18. \A r \in Bell!Ids : left'[r] = left[r] /\ back'[r] = back[r] /\ born'[r] = born[r]
  BY <1>1, <1>10, <1>11, <1>12
<1>19. \A i \in 1 .. k :
          /\ rows'[Len(rows) + i] = Bell!New(order[i], l) /\ back'[Len(rows) + i] = emits
          /\ born'[Len(rows) + i] = IF l.coalesce THEN l.event ELSE 0
  BY <1>9, <1>11, <1>12 DEF n
<1>20. /\ rows' \in Seq(Row) /\ left' \in Seq(Nat) /\ back' \in Seq(Nat) /\ born' \in Seq(Nat)
       /\ Len(rows') = Len(rows) + k /\ Len(left') = Len(rows) + k
       /\ Len(back') = Len(rows) + k /\ Len(born') = Len(rows) + k
  BY <1>9, <1>10, <1>11, <1>12 DEF n
<1>15. CommitWrites(l, k, order)
  BY ONLY <1>5, <1>6, <1>17, <1>13, <1>14, <1>18, <1>19, <1>20, Zenon DEF CommitWrites
<1> QED BY <1>15 DEF l

\* What the written rows say, by whether they were there.
LEMMA CommitRows ==
    ASSUME InboxTypeInv, ClockAhead, NEW l, Held(l), NEW k, NEW order, CommitWrites(l, k, order)
    PROVE  /\ \A r \in Bell!Ids :
                 /\ rows'[r].user = rows[r].user /\ rows'[r].org = rows[r].org /\ rows'[r].key = rows[r].key
                 /\ rows'[r].read = rows[r].read /\ rows'[r].archived = rows[r].archived
                 /\ (\E u \in DOMAIN l.fold : l.fold[u] = r) =>
                       rows'[r].event = l.event /\ rows'[r].created_at = l.event
                 /\ ~ (\E u \in DOMAIN l.fold : l.fold[u] = r) => rows'[r] = rows[r]
           /\ \A i \in 1 .. k :
                 /\ rows'[Len(rows) + i].user = order[i] /\ rows'[Len(rows) + i].org = l.org
                 /\ rows'[Len(rows) + i].key = l.key
                 /\ rows'[Len(rows) + i].event = l.event /\ rows'[Len(rows) + i].created_at = l.event
           /\ Bell!Ids' = Bell!Ids \cup {Len(rows) + i : i \in 1 .. k}
           /\ Len(rows) \in Nat /\ Bell!Ids = 1 .. Len(rows)
<1>1. Len(rows) \in Nat /\ Bell!Ids = 1 .. Len(rows) /\ \A r \in Bell!Ids : rows[r] \in Row BY IdsOf
<1>2. ASSUME NEW r \in Bell!Ids
      PROVE  /\ rows'[r].user = rows[r].user /\ rows'[r].org = rows[r].org /\ rows'[r].key = rows[r].key
             /\ rows'[r].read = rows[r].read /\ rows'[r].archived = rows[r].archived
             /\ (\E u \in DOMAIN l.fold : l.fold[u] = r) =>
                   rows'[r].event = l.event /\ rows'[r].created_at = l.event
             /\ ~ (\E u \in DOMAIN l.fold : l.fold[u] = r) => rows'[r] = rows[r]
  <2>1. PICK row \in Row : row = rows[r] BY <1>1
  <2>2. CASE \E u \in DOMAIN l.fold : l.fold[u] = r
    <3>1. rows'[r] = [row EXCEPT !.event = l.event, !.created_at = l.event]
      BY <2>1, <2>2 DEF CommitWrites, Bell!Folded
    <3> QED BY <2>1, <2>2, <3>1 DEF Row
  <2>3. CASE ~ \E u \in DOMAIN l.fold : l.fold[u] = r
    <3>1. rows'[r] = rows[r] BY <2>3 DEF CommitWrites
    <3> QED BY <2>3, <3>1
  <2> QED BY <2>2, <2>3
<1>3. ASSUME NEW i \in 1 .. k
      PROVE  /\ rows'[Len(rows) + i].user = order[i] /\ rows'[Len(rows) + i].org = l.org
             /\ rows'[Len(rows) + i].key = l.key
             /\ rows'[Len(rows) + i].event = l.event /\ rows'[Len(rows) + i].created_at = l.event
  <2>1. rows'[Len(rows) + i] = Bell!New(order[i], l) BY DEF CommitWrites
  <2> QED BY <2>1 DEF Bell!New
<1>4. Bell!Ids' = Bell!Ids \cup {Len(rows) + i : i \in 1 .. k}
  <2>1. k \in Nat /\ Bell!Ids' = 1 .. (Len(rows) + k) BY DEF CommitWrites, Bell!Ids
  <2>2. \A r \in 1 .. (Len(rows) + k) : r \notin 1 .. Len(rows) => r - Len(rows) \in 1 .. k /\ r = Len(rows) + (r - Len(rows))
    BY <1>1, <2>1
  <2>3. \A r \in Bell!Ids' : r \in Bell!Ids \/ \E i \in 1 .. k : r = Len(rows) + i
    BY <1>1, <2>1, <2>2
  <2>4. \A i \in 1 .. k : Len(rows) + i \in Bell!Ids' BY <1>1, <2>1
  <2>5. Bell!Ids \subseteq Bell!Ids' BY <1>1, <2>1
  <2> QED BY <2>3, <2>4, <2>5
<1> QED BY <1>1, <1>2, <1>3, <1>4

\* The rows with the event of an emit that committed are those it folded into and those it
\* inserted, one of each recipient.
LEMMA CommitIsWhole ==
    ASSUME UsersAreFinite, InboxTypeInv, ClockAhead, NEW l, Held(l), NEW k, NEW order, CommitWrites(l, k, order),
           by'.event = l.event, by'.users = l.insert \cup DOMAIN l.fold, by'.external = l.external
    PROVE  Bell!EmitIsWhole
<1> DEFINE n == Len(rows)
           took == {r \in 1 .. Len(rows') : rows'[r].event = by'.event}
           users == l.insert \cup DOMAIN l.fold
           kept == {l.fold[u] : u \in DOMAIN l.fold}
           new == {n + i : i \in 1 .. k}
<1>1. n \in Nat /\ k \in Nat /\ Bell!Ids = 1 .. n /\ Bell!Ids' = Bell!Ids \cup new /\ Bell!Ids' = 1 .. Len(rows')
  <2>1. k \in Nat BY DEF CommitWrites
  <2>2. n \in Nat /\ Bell!Ids = 1 .. n /\ Bell!Ids' = Bell!Ids \cup new BY CommitRows
  <2>3. Bell!Ids' = 1 .. Len(rows') BY DEF Bell!Ids
  <2> QED BY <2>1, <2>2, <2>3
<1>2. \A u \in DOMAIN l.fold : l.fold[u] \in Bell!Ids /\ rows[l.fold[u]].user = u
  BY DEF Held, Bell!SameKey
<1>3. \A u \in DOMAIN l.fold : rows'[l.fold[u]].event = l.event /\ rows'[l.fold[u]].user = u
  <2> SUFFICES ASSUME NEW u \in DOMAIN l.fold
               PROVE  rows'[l.fold[u]].event = l.event /\ rows'[l.fold[u]].user = u
    OBVIOUS
  <2>1. PICK r \in Bell!Ids : r = l.fold[u] /\ rows[r].user = u BY <1>2
  <2>2. \E v \in DOMAIN l.fold : l.fold[v] = r BY <2>1
  <2>3. rows'[r].event = l.event /\ rows'[r].user = rows[r].user BY <2>2, CommitRows
  <2> QED BY <2>1, <2>3
<1>4. \A i \in 1 .. k : rows'[n + i].event = l.event /\ rows'[n + i].user = order[i] /\ n + i \notin Bell!Ids
  <2>1. \A i \in 1 .. k : n + i \notin 1 .. n BY <1>1
  <2> QED BY <1>1, <2>1, CommitRows
<1>5. took = kept \cup new
  <2>1. \A r \in Bell!Ids : rows'[r].event = l.event <=> r \in kept
    <3>1. \A r \in Bell!Ids : r \notin kept => rows'[r] = rows[r] BY CommitRows
    <3>2. \A r \in Bell!Ids : rows[r].event # l.event BY DEF Held
    <3> QED BY <1>3, <3>1, <3>2
  <2>2. \A r \in new : rows'[r].event = l.event BY <1>4
  <2>3. kept \subseteq Bell!Ids BY <1>2
  <2> HIDE DEF kept, new
  <2> QED BY <1>1, <2>1, <2>2, <2>3
<1>6. order \in [1 .. k -> l.insert] /\ (\A i, j \in 1 .. k : order[i] = order[j] => i = j)
      /\ \A u \in l.insert : \E i \in 1 .. k : order[i] = u
  BY DEF CommitWrites
<1>7. l.insert \cap DOMAIN l.fold = {} /\ users \subseteq Users BY DEF Held
<1>8. \A r \in took : rows'[r].user \in users BY <1>3, <1>4, <1>5, <1>6
<1>9. \A u \in users : \E r \in took : rows'[r].user = u
  <2>1. ASSUME NEW u \in l.insert PROVE \E r \in took : rows'[r].user = u
    <3>1. PICK i \in 1 .. k : order[i] = u BY <1>6
    <3>2. n + i \in took /\ rows'[n + i].user = u BY <1>4, <1>5, <3>1
    <3> HIDE DEF took
    <3> QED BY <3>2
  <2>2. ASSUME NEW u \in DOMAIN l.fold PROVE \E r \in took : rows'[r].user = u
    <3>1. l.fold[u] \in took /\ rows'[l.fold[u]].user = u BY <1>3, <1>5
    <3> HIDE DEF took
    <3> QED BY <3>1
  <2> QED BY <2>1, <2>2
<1>10. \A r, q \in took : rows'[r].user = rows'[q].user => r = q
  <2>1. \A r \in kept : \E u \in DOMAIN l.fold : r = l.fold[u] /\ rows'[r].user = u BY <1>3
  <2>2. \A r \in new : \E i \in 1 .. k : r = n + i /\ rows'[r].user = order[i] BY <1>4
  <2> HIDE DEF took, kept, new
  <2>3. \A r, q \in kept : rows'[r].user = rows'[q].user => r = q BY <2>1
  <2>4. \A r, q \in new : rows'[r].user = rows'[q].user => r = q BY <1>6, <2>2
  <2>5. \A r \in kept, q \in new : rows'[r].user # rows'[q].user BY <1>6, <1>7, <2>1, <2>2
  <2> QED BY <1>5, <2>3, <2>4, <2>5
<1>11. {rows'[r].user : r \in took} = users BY <1>8, <1>9
<1>12. Bell!Cardinality(took) = Bell!Cardinality(users)
  <2>1. IsFiniteSet(users) BY <1>7, FS_Subset DEF UsersAreFinite
  <2>2. IsFiniteSet(took)
    <3>1. Len(rows') \in Nat BY LenProperties DEF CommitWrites
    <3>2. IsFiniteSet(1 .. Len(rows'))
      <4>1. PICK m \in Nat : m = Len(rows') BY <3>1
      <4>2. IsFiniteSet(1 .. m) BY FS_Interval
      <4> QED BY <4>1, <4>2
    <3> QED BY <3>2, FS_Subset
  <2> DEFINE f == [r \in took |-> rows'[r].user]
  <2>3. /\ f \in [took -> users] /\ \A r, q \in took : f[r] = f[q] => r = q
        /\ \A u \in users : \E r \in took : f[r] = u
    <3> HIDE DEF took, users
    <3> QED BY <1>8, <1>9, <1>10
  <2> HIDE DEF took, users, f
  <2>4. Cardinality(users) = Cardinality(took) BY ONLY <2>2, <2>3, SameCount
  <2> QED BY <2>4, CountsAlike
<1>13. deliveries' \ deliveries = {[row |-> r, channel |-> c] : r \in took \ Bell!Ids, c \in l.external}
  <2>1. took \ Bell!Ids = new
    <3>1. kept \subseteq Bell!Ids BY <1>2
    <3>2. \A r \in new : r \notin Bell!Ids BY <1>4
    <3> HIDE DEF took, kept, new
    <3> QED BY <1>5, <3>1, <3>2
  <2>2. deliveries' = deliveries \cup Queued(l, k) BY DEF CommitWrites
  <2>3. Queued(l, k) = {[row |-> r, channel |-> c] : r \in new, c \in l.external} BY DEF Queued
  <2>4. \A d \in Queued(l, k) : d \notin deliveries
    <3>1. \A d \in Queued(l, k) : d.row \in new BY DEF Queued
    <3>2. \A d \in deliveries : d.row \in Bell!Ids BY DEF InboxTypeInv
    <3> QED BY <1>4, <3>1, <3>2
  <2>5. deliveries' \ deliveries = Queued(l, k) BY <2>2, <2>4
  <2> QED BY <2>1, <2>3, <2>5
<1> QED BY <1>11, <1>12, <1>13 DEF Bell!EmitIsWhole

LEMMA CommitKeeps ==
    ASSUME UsersAreFinite, InboxIInv, NEW p \in Producers, Bell!Commit(p)
    PROVE  InboxIInv' /\ Bell!EmitIsWhole /\ Bell!RewriteStaysHome
<1> USE DEF InboxIInv
<1>1. PICK l : l = local[p] OBVIOUS
<1>2. p \in Emitting /\ Held(l)
  <2>1. pc[p] = "emitted" BY DEF Bell!Commit
  <2>2. p \in Emitting BY <2>1 DEF Emitting
  <2> QED BY <1>1, <2>2 DEF EmitsHold
<1>3. PICK k, order : CommitWrites(l, k, order) BY <1>1, <1>2, CommitDoes
<1>4. /\ emits' = emits /\ pc' = [pc EXCEPT ![p] = "idle"] /\ local' = [local EXCEPT ![p] = Bell!Idle]
      /\ by'.who = "commit" /\ by'.event = l.event /\ by'.org = l.org /\ by'.key = l.key
      /\ by'.users = l.insert \cup DOMAIN l.fold /\ by'.external = l.external
  BY <1>1 DEF Bell!Commit
<1>5. Bell!Ids' = Bell!Ids \cup {Len(rows) + i : i \in 1 .. k} /\ Len(rows) \in Nat /\ Bell!Ids = 1 .. Len(rows)
  BY <1>2, <1>3, CommitRows
<1>6. emits \in Nat /\ l.event \in 1 .. emits BY <1>2 DEF InboxTypeInv, Held
<1>7. ASSUME NEW r \in Bell!Ids' \ Bell!Ids
      PROVE  \E i \in 1 .. k :
                /\ r = Len(rows) + i /\ rows'[r].user = order[i] /\ rows'[r].org = l.org /\ rows'[r].key = l.key
                /\ rows'[r].event = l.event /\ rows'[r].created_at = l.event
                /\ back'[r] = emits /\ born'[r] = IF l.coalesce THEN l.event ELSE 0
  <2>1. PICK i \in 1 .. k : r = Len(rows) + i BY <1>5
  <2>2. rows'[r].user = order[i] /\ rows'[r].org = l.org /\ rows'[r].key = l.key
        /\ rows'[r].event = l.event /\ rows'[r].created_at = l.event
    BY <1>2, <1>3, <2>1, CommitRows
  <2>3. back'[r] = emits /\ born'[r] = IF l.coalesce THEN l.event ELSE 0 BY <1>3, <2>1 DEF CommitWrites
  <2> QED BY <2>1, <2>2, <2>3
<1>8. ASSUME NEW r \in Bell!Ids
      PROVE  /\ rows'[r].user = rows[r].user /\ rows'[r].org = rows[r].org /\ rows'[r].key = rows[r].key
             /\ rows'[r].read = rows[r].read /\ rows'[r].archived = rows[r].archived
             /\ \/ (\E u \in DOMAIN l.fold : l.fold[u] = r) /\ rows'[r].event = l.event /\ rows'[r].created_at = l.event
                \/ rows'[r] = rows[r]
             /\ left'[r] = left[r] /\ back'[r] = back[r] /\ born'[r] = born[r]
  <2>1. left'[r] = left[r] /\ back'[r] = back[r] /\ born'[r] = born[r] BY <1>3 DEF CommitWrites
  <2> QED BY <1>2, <1>3, <2>1, CommitRows
<1>9. InboxTypeInv'
  <2>1. /\ rows' \in Seq(Row) /\ left' \in Seq(Nat) /\ back' \in Seq(Nat) /\ born' \in Seq(Nat)
        /\ Len(left') = Len(rows') /\ Len(back') = Len(rows') /\ Len(born') = Len(rows')
    BY <1>3 DEF CommitWrites
  <2>2. \A d \in deliveries' : d.row \in Bell!Ids'
    <3>1. deliveries' = deliveries \cup Queued(l, k) BY <1>3 DEF CommitWrites
    <3>2. \A d \in Queued(l, k) : d.row \in Bell!Ids' BY <1>5 DEF Queued
    <3> QED BY <1>5, <3>1, <3>2 DEF InboxTypeInv
  <2> QED BY <1>4, <1>6, <2>1, <2>2 DEF InboxTypeInv
<1>10. Onward
  <2>1. Len(rows') \in Nat /\ Len(rows) <= Len(rows')
    <3>1. k \in Nat /\ Len(rows') = Len(rows) + k BY <1>3 DEF CommitWrites
    <3> QED BY <1>5, <3>1
  <2>2. \A r \in Bell!Ids' \ Bell!Ids : back'[r] = emits BY <1>7
  <2>3. \A r \in Bell!Ids : Bell!Live(r)' <=> Bell!Live(r) BY <1>8 DEF Bell!Live
  <2> QED BY <1>4, <1>6, <1>8, <2>1, <2>2, <2>3 DEF Onward
<1>11. ClockAhead'
  <2>1. \A r \in Bell!Ids : /\ rows'[r].event <= emits /\ rows'[r].created_at <= emits
                            /\ back'[r] <= emits /\ born'[r] <= emits
    BY <1>6, <1>8 DEF ClockAhead
  <2>2. \A r \in Bell!Ids' \ Bell!Ids : /\ rows'[r].event <= emits /\ rows'[r].created_at <= emits
                                        /\ back'[r] <= emits /\ born'[r] <= emits
    BY <1>6, <1>7
  <2> QED BY <1>4, <2>1, <2>2 DEF ClockAhead
<1>12. EmitsHold' /\ EventsApart'
  <2>1. \A q \in Emitting \ {p} : local'[q] = local[q] BY <1>4 DEF Emitting, InboxTypeInv
  <2>2. ASSUME NEW q \in Emitting \ {p}, NEW r \in Bell!Ids' PROVE rows'[r].event # local[q].event
    <3>1. local[q].event # l.event BY <1>1, <1>2 DEF EventsApart
    <3>2. \A s \in Bell!Ids : rows[s].event # local[q].event BY DEF EmitsHold, Held
    <3>3. CASE r \in Bell!Ids BY <1>8, <3>1, <3>2, <3>3
    <3>4. CASE r \notin Bell!Ids BY <1>7, <3>1, <3>4
    <3> QED BY <3>3, <3>4
  <2> QED BY <1>4, <1>9, <1>10, <2>1, <2>2, OthersOnward
<1>13. LiveCameSince'
  <2> SUFFICES ASSUME NEW r \in Bell!Ids', NEW q \in Bell!Ids', Bell!Live(r)', born'[q] # 0, SameAs(r, q)'
               PROVE  back'[r] >= born'[q]
    BY DEF LiveCameSince
  <2>1. CASE q \in Bell!Ids BY <1>10, <2>1, SinceOnward
  <2>2. CASE q \notin Bell!Ids
    <3>1. PICK i \in 1 .. k : rows'[q].user = order[i] /\ rows'[q].org = l.org /\ rows'[q].key = l.key
                              /\ born'[q] = (IF l.coalesce THEN l.event ELSE 0)
      BY <1>7, <2>2
    <3>2. l.coalesce /\ born'[q] = l.event BY <3>1
    <3>3. order[i] \in l.insert BY <1>3 DEF CommitWrites
    <3>4. CASE r \in Bell!Ids
      <4>1. Bell!SameKey(r, order[i], l.org, l.key) /\ Bell!Live(r)
        BY <1>8, <3>1, <3>4 DEF SameAs, Bell!SameKey, Bell!Live
      <4>2. back[r] >= l.event BY <1>2, <3>2, <3>3, <3>4, <4>1 DEF Held
      <4> QED BY <1>8, <3>2, <3>4, <4>2
    <3>5. CASE r \notin Bell!Ids
      <4>1. back'[r] = emits BY <1>7, <3>5
      <4> QED BY <1>6, <3>2, <4>1
    <3> QED BY <3>4, <3>5
  <2> QED BY <2>1, <2>2
<1>14. Bell!EmitIsWhole BY <1>2, <1>3, <1>4, CommitIsWhole
<1>15. Bell!RewriteStaysHome
  <2> SUFFICES ASSUME NEW r \in Bell!Ids, Bell!Content(rows'[r]) # Bell!Content(rows[r])
               PROVE  /\ rows[r].user \in by'.users /\ rows[r].org = by'.org /\ rows[r].key = by'.key
                      /\ Bell!Live(r) \/ left[r] >= by'.event
    BY <1>4, <1>8 DEF Bell!RewriteStaysHome, Bell!MarksOf
  <2>1. PICK u \in DOMAIN l.fold : l.fold[u] = r BY <1>8
  <2>2. Bell!SameKey(r, u, l.org, l.key) /\ (Bell!Live(r) \/ left[r] >= l.event) BY <1>2, <2>1 DEF Held
  <2> QED BY <1>4, <2>2 DEF Bell!SameKey
<1> QED BY <1>9, <1>11, <1>12, <1>13, <1>14, <1>15

LEMMA InboxStepIInv ==
    ASSUME UsersAreFinite, InboxIInv, Bell!Next
    PROVE  InboxIInv' /\ Bell!EmitIsWhole /\ Bell!RewriteStaysHome
<1>1. CASE \E p \in Producers, o \in Orgs, k \in Keys \cup {NoKey}, ids \in Bell!Recipients,
              external \in SUBSET Channels, asked \in BOOLEAN : Bell!Notify(p, o, k, ids, external, asked)
  BY <1>1, NotifyKeeps
<1>2. CASE \E p \in Producers : Bell!Commit(p) \/ Bell!Rollback(p)
  BY <1>2, CommitKeeps, RollbackKeeps
<1>3. CASE \E u \in Users, o \in Orgs \cup {NoOrg} : Bell!RecipientStep(u, o)
  BY <1>3, RecipientKeeps
<1> QED BY <1>1, <1>2, <1>3 DEF Bell!Next

LEMMA InboxStutters == InboxIInv /\ UNCHANGED Bell!vars => InboxIInv'
<1> SUFFICES ASSUME InboxIInv, UNCHANGED Bell!vars PROVE InboxIInv' OBVIOUS
<1> USE DEF InboxIInv
<1>1. UNCHANGED <<rows, deliveries, emits, pc, local, left, back, born>> /\ Bell!Ids' = Bell!Ids
  BY DEF Bell!vars, Bell!Ids
<1>2. InboxTypeInv' /\ ClockAhead' BY <1>1 DEF InboxTypeInv, ClockAhead
<1>3. EmitsHold'
  <2>1. Emitting' = Emitting BY <1>1 DEF Emitting
  <2>2. \A l : Held(l) => Held(l)' BY <1>1 DEF Held, Bell!SameKey, Bell!Live
  <2> QED BY <1>1, <2>1, <2>2 DEF EmitsHold
<1>4. EventsApart' BY <1>1 DEF EventsApart, Emitting
<1>5. LiveCameSince' BY <1>1 DEF LiveCameSince, SameAs, Bell!Live
<1> QED BY <1>2, <1>3, <1>4, <1>5

-----------------------------------------------------------------------------
(* Placement: whatever fails, the connection's path is restored, and a call *)
(* that is done has placed and walled the schema it named.                  *)

PlacementTypeInv ==
    /\ path \in Place!Places /\ {path, Default} \subseteq created
    /\ walls \in [Place!Places -> [Place!TenantTables -> Settings \cup {Unset}]]
    /\ pending \in [Place!Places -> [Place!TenantTables -> Settings \cup {Unset}]]
    /\ call \in [step : {"none", "enter", "chain", "protect", "restore"},
                 schema : Schemas \cup {Unset}, guc : Settings \cup {Unset},
                 previous : {Default, Unset}]

\* The path is the schema the call named, and it holds the default until it is restored.
PathIsTheCalls ==
    /\ call.step \in {"none", "enter"} => path = Default /\ call.previous = Unset
    /\ call.step \in {"chain", "protect", "restore"} =>
          IF call.schema = Unset THEN path = Default /\ call.previous = Unset
                                 ELSE path = call.schema /\ call.previous = Default

\* A call that has not failed so far has placed its schema when it comes to the walls, and
\* walled it when it comes to the end.
PlacedSoFar ==
    /\ call.step \in {"enter", "chain", "protect"} => outcome = "running"
    /\ call.step = "protect" => path \in placed
    /\ call.step = "restore" /\ outcome # "failed" =>
          /\ path \in placed
          /\ call.guc # Unset => \A t \in Place!TenantTables : walls[path][t] = call.guc

PlacementIInv == PlacementTypeInv /\ PathIsTheCalls /\ PlacedSoFar /\ Place!PlacedWhereAsked

LEMMA PlacementInitIInv == Place!Init => PlacementIInv
  BY DEF Place!Init, PlacementIInv, PlacementTypeInv, PathIsTheCalls, PlacedSoFar, Place!PlacedWhereAsked,
         Place!NoWalls, Place!NoCall, Place!Places

LEMMA PlacementStepIInv ==
    ASSUME PlaceNames, PlacementIInv, [Place!Next]_(Place!placement) PROVE PlacementIInv'
<1> USE DEF PlacementIInv
<1>1. CASE Place!Next
  <2>1. ASSUME NEW s \in Schemas \cup {Unset}, NEW g \in Settings \cup {Unset}, NEW open \in BOOLEAN,
               Place!migrate(s, g, open)
        PROVE  PlacementIInv'
    <3>1. CASE open
      BY <2>1, <3>1 DEF Place!migrate, PlacementTypeInv, PathIsTheCalls, PlacedSoFar, Place!PlacedWhereAsked
    <3>2. CASE ~ open
      <4>1. /\ call' = [step |-> "enter", schema |-> s, guc |-> g, previous |-> Unset] /\ outcome' = "running"
            /\ call.step = "none" /\ UNCHANGED <<path, created, placed, walls, pending>>
        BY <2>1, <3>2 DEF Place!migrate
      <4> QED BY <4>1 DEF PlacementTypeInv, PathIsTheCalls, PlacedSoFar, Place!PlacedWhereAsked
    <3> QED BY <3>1, <3>2
  <2>2. CASE Place!EnterSchema
    <3>1. PlacementTypeInv'
      <4>1. CASE call.schema = Unset
        <5>1. call' = [call EXCEPT !.step = "chain"] /\ UNCHANGED <<path, created, placed, walls, pending, outcome>>
          BY <2>2, <4>1 DEF Place!EnterSchema
        <5> QED BY <5>1 DEF PlacementTypeInv
      <4>2. CASE call.schema # Unset
        <5>1. path = Default /\ call.schema \in Schemas
          BY <2>2, <4>2 DEF Place!EnterSchema, PlacementTypeInv, PathIsTheCalls
        <5>2. /\ path' = call.schema /\ created' = created \cup {call.schema}
              /\ call' = [call EXCEPT !.step = "chain", !.previous = Default] /\ UNCHANGED <<walls, pending>>
          BY <2>2, <4>2, <5>1 DEF Place!EnterSchema
        <5> QED BY <5>1, <5>2 DEF PlacementTypeInv, Place!Places
      <4> QED BY <4>1, <4>2
    <3>2. PathIsTheCalls' BY <2>2 DEF Place!EnterSchema, PlacementTypeInv, PathIsTheCalls, PlaceNames, Place!Places
    <3>3. PlacedSoFar' /\ Place!PlacedWhereAsked'
      BY <2>2 DEF Place!EnterSchema, PlacementTypeInv, PlacedSoFar, Place!PlacedWhereAsked
    <3> QED BY <3>1, <3>2, <3>3
  <2>3. CASE Place!EnterFails
    BY <2>3 DEF Place!EnterFails, PlacementTypeInv, PathIsTheCalls, PlacedSoFar, Place!PlacedWhereAsked, Place!NoCall
  <2>4. ASSUME NEW raises \in BOOLEAN, Place!Chain(raises) PROVE PlacementIInv'
    <3>1. PlacementTypeInv' BY <2>4 DEF Place!Chain, PlacementTypeInv
    <3>2. PathIsTheCalls' BY <2>4 DEF Place!Chain, PlacementTypeInv, PathIsTheCalls
    <3>3. PlacedSoFar' /\ Place!PlacedWhereAsked'
      BY <2>4 DEF Place!Chain, PlacementTypeInv, PlacedSoFar, Place!PlacedWhereAsked
    <3> QED BY <3>1, <3>2, <3>3
  <2>5. CASE Place!Protect
    BY <2>5 DEF Place!Protect, PlacementTypeInv, PathIsTheCalls, PlacedSoFar, Place!PlacedWhereAsked
  <2>6. ASSUME NEW raises \in BOOLEAN, Place!ProtectEnds(raises) PROVE PlacementIInv'
    <3>1. PlacementTypeInv' BY <2>6 DEF Place!ProtectEnds, PlacementTypeInv
    <3>2. PathIsTheCalls' BY <2>6 DEF Place!ProtectEnds, PlacementTypeInv, PathIsTheCalls
    <3>3. PlacedSoFar' /\ Place!PlacedWhereAsked'
      BY <2>6 DEF Place!ProtectEnds, Place!Current, PlacementTypeInv, PlacedSoFar, Place!PlacedWhereAsked
    <3> QED BY <3>1, <3>2, <3>3
  <2>7. CASE Place!Leave
    <3>1. call' = [step |-> "none", schema |-> call.schema, guc |-> call.guc, previous |-> Unset]
      BY <2>7 DEF Place!Leave, Place!NoCall
    <3>2. path' = Default /\ UNCHANGED <<created, placed, walls, pending>>
      BY <2>7 DEF Place!Leave, Place!Restores, PlacementTypeInv, PathIsTheCalls, PlaceNames, Place!Places
    <3>3. PlacementTypeInv' /\ PathIsTheCalls' /\ PlacedSoFar'
      BY <3>1, <3>2 DEF PlacementTypeInv, PathIsTheCalls, PlacedSoFar, Place!Places
    <3>4. Place!PlacedWhereAsked'
      <4> SUFFICES ASSUME outcome' = "done" PROVE Place!PlacedWhereAsked' BY <3>2 DEF Place!PlacedWhereAsked
      <4>1. outcome # "failed" /\ call.step = "restore" BY <2>7 DEF Place!Leave
      <4>2. path = (IF call.schema = Unset THEN Default ELSE call.schema) BY <4>1 DEF PathIsTheCalls
      <4>3. path \in placed \cap created /\ (call.guc # Unset => \A t \in Place!TenantTables : walls[path][t] = call.guc)
        BY <4>1 DEF PlacedSoFar, PlacementTypeInv
      <4> QED BY <3>1, <3>2, <4>2, <4>3 DEF Place!PlacedWhereAsked
    <3> QED BY <3>3, <3>4
  <2> QED BY <1>1, <2>1, <2>2, <2>3, <2>4, <2>5, <2>6, <2>7 DEF Place!Next
<1>2. CASE UNCHANGED Place!placement
  BY <1>2 DEF Place!placement, PlacementTypeInv, PathIsTheCalls, PlacedSoFar, Place!PlacedWhereAsked
<1> QED BY <1>1, <1>2

-----------------------------------------------------------------------------
(* Adoption: a schema found without a version table is adopted exactly if   *)
(* it is whole.  The check of each package names its baseline's own tables. *)

\* What the check of a package has to agree on with its baseline revision: the tables are
\* those the revision creates, each once, the sentinel among them; the columns are some of
\* the sentinel's, and what later revisions rename are columns of the baseline.
ChecksItsBaseline(p) ==
    /\ p.tables = Adopt!Created(p) /\ p.sentinel \in p.tables
    /\ Len(p.baseline.tables) \in Nat /\ DOMAIN p.baseline.tables = 1 .. Len(p.baseline.tables)
    /\ \A i, j \in DOMAIN p.baseline.tables : p.baseline.tables[i] = p.baseline.tables[j] => i = j
    /\ p.columns \subseteq p.baseline.columns
    /\ \A r \in p.renamed : r[1] \in p.baseline.columns

LEMMA PackagesCheckTheirBaselines == \A p \in Adopt!Packages : ChecksItsBaseline(p)
<1>1. ChecksItsBaseline(Adopt!access)
  BY DEF ChecksItsBaseline, Adopt!Created, Adopt!access, Adopt!access_0001
<1>2. ChecksItsBaseline(Adopt!audit)
  BY DEF ChecksItsBaseline, Adopt!Created, Adopt!audit, Adopt!audit_0001
<1>3. ChecksItsBaseline(Adopt!jobs)
  BY DEF ChecksItsBaseline, Adopt!Created, Adopt!jobs, Adopt!jobs_0001
<1>4. ChecksItsBaseline(Adopt!lookups)
  BY DEF ChecksItsBaseline, Adopt!Created, Adopt!lookups, Adopt!lookups_0001
<1>5. ChecksItsBaseline(Adopt!notifications)
  BY DEF ChecksItsBaseline, Adopt!Created, Adopt!notifications, Adopt!notifications_0001
<1>6. ChecksItsBaseline(Adopt!search)
  BY DEF ChecksItsBaseline, Adopt!Created, Adopt!search, Adopt!search_0001
<1>7. ChecksItsBaseline(Adopt!workflow)
  BY DEF ChecksItsBaseline, Adopt!Created, Adopt!workflow, Adopt!workflow_0001
<1> QED BY <1>1, <1>2, <1>3, <1>4, <1>5, <1>6, <1>7 DEF Adopt!Packages

Whole == found = Adopt!Created(pkg) /\ pkg.columns \subseteq carried

\* Table by table: the first m of the baseline are there, the sentinel as created if it is.
FirstMade(m) ==
    /\ found = {pkg.baseline.tables[k] : k \in 1 .. m} /\ Cardinality(found) = m /\ IsFiniteSet(found)
    /\ pkg.sentinel \in found => carried = pkg.baseline.columns

\* A schema that is stamped, or is about to be, is whole; a boot under way has no outcome yet.
AdoptionIInv ==
    /\ pkg \in Adopt!Packages /\ found \subseteq Adopt!Created(pkg)
    /\ stamp \in {"none", "empty", "0001", "head"}
    /\ adopted # "off" => adoption = "none"
    /\ adopted = "adopt" \/ stamp \in {"0001", "head"} => Whole
    /\ adopted = "create" => stamp = "empty" /\ \E m \in 0 .. Len(pkg.baseline.tables) : FirstMade(m)
    /\ Adopt!AdoptsExactlyTheWhole

LEMMA AdoptionInitIInv == Adopt!Init => AdoptionIInv
  BY DEF Adopt!Init, AdoptionIInv, Adopt!AdoptsExactlyTheWhole

LEMMA AdoptionStepIInv ==
    ASSUME AdoptionIInv, [Adopt!Next]_(Adopt!adoption) PROVE AdoptionIInv'
<1> USE DEF AdoptionIInv
<1>0. ChecksItsBaseline(pkg) BY PackagesCheckTheirBaselines
<1>1. CASE Adopt!migrate
  <2>1. UNCHANGED <<pkg, found, carried, second, stamp>> BY <1>1 DEF Adopt!migrate, Adopt!Keep
  <2>2. Adopt!Adoptable => Whole
    BY <1>0 DEF Adopt!Adoptable, Whole, ChecksItsBaseline
  <2>3. ~ Adopt!Adoptable => found # Adopt!Created(pkg) \/ ~(pkg.baseline.columns \subseteq carried)
    BY <1>0 DEF Adopt!Adoptable, Adopt!AllRenamed, Adopt!SomeRenamed, ChecksItsBaseline
  <2>4. CASE adopted' = "adopt" /\ adoption' = "none" /\ Adopt!Adoptable
    BY <2>1, <2>2, <2>4 DEF Whole, Adopt!AdoptsExactlyTheWhole
  <2>5. CASE adopted' = "off" /\ adoption' = "refused" /\ ~ Adopt!Adoptable
    BY <2>1, <2>3, <2>5 DEF Whole, Adopt!AdoptsExactlyTheWhole
  <2>6. CASE adopted' = "upgrade" /\ adoption' = "none"
    BY <2>1, <2>6 DEF Whole, Adopt!AdoptsExactlyTheWhole
  <2> QED BY <1>1, <2>4, <2>5, <2>6 DEF Adopt!migrate, Adopt!Ends
<1>2. CASE Adopt!Stamp
  BY <1>2 DEF Adopt!Stamp, Adopt!Keep, Whole, Adopt!AdoptsExactlyTheWhole
<1>3. CASE Adopt!UpgradeTogether
  <2>1. pkg' = pkg /\ adopted' = "off" BY <1>3 DEF Adopt!UpgradeTogether, Adopt!Keep, Adopt!Ends
  <2>2. CASE adoption' = "head"
    <3>1. second' = Adopt!HasSecond(pkg) /\ adoption' # "refused" BY <1>3, <2>2 DEF Adopt!UpgradeTogether, Adopt!Ends
    <3>2. CASE stamp \in {"none", "empty"}
      <4>1. found' = Adopt!Created(pkg) /\ carried' = pkg.baseline.columns
        BY <1>3, <2>2, <3>2 DEF Adopt!UpgradeTogether, Adopt!Ends
      <4>2. Whole' BY <1>0, <2>1, <4>1 DEF Whole, Adopt!Created, ChecksItsBaseline
      <4>3. stamp' = "head"
        BY <1>3, <2>2 DEF Adopt!UpgradeTogether, Adopt!Ends
      <4> QED BY <2>1, <2>2, <3>1, <4>2, <4>3 DEF Whole, Adopt!AdoptsExactlyTheWhole, Adopt!Created, Adopt!HasSecond
    <3>3. CASE stamp \notin {"none", "empty"}
      <4>1. UNCHANGED <<found, carried>> BY <1>3, <2>2, <3>3 DEF Adopt!UpgradeTogether, Adopt!Ends
      <4>2. Whole BY <3>3
      <4>3. stamp' = "head"
        BY <1>3, <2>2 DEF Adopt!UpgradeTogether, Adopt!Ends
      <4> QED BY <2>1, <2>2, <3>1, <4>1, <4>2, <4>3 DEF Whole, Adopt!AdoptsExactlyTheWhole, Adopt!Created, Adopt!HasSecond
    <3> QED BY <3>2, <3>3
  <2>3. CASE adoption' # "head"
    <3>1. adoption' = "failed" /\ UNCHANGED <<found, carried, second, stamp>>
      BY <1>3, <2>3 DEF Adopt!UpgradeTogether, Adopt!Ends
    <3> QED BY <2>1, <3>1 DEF Whole, Adopt!AdoptsExactlyTheWhole
  <2> QED BY <2>2, <2>3
<1>4. CASE Adopt!UpgradeStep
  <2>1. UNCHANGED <<pkg, found, carried, second>> /\ stamp \in {"none", "empty"} /\ stamp' = "empty"
    BY <1>4 DEF Adopt!UpgradeStep, Adopt!Keep
  <2>2. CASE adopted' = "upgrade" /\ adoption' = "none"
    BY <2>1, <2>2 DEF Whole, Adopt!AdoptsExactlyTheWhole
  <2>3. CASE adopted' = "off" /\ adoption' = "failed"
    BY <2>1, <2>3 DEF Whole, Adopt!AdoptsExactlyTheWhole
  <2>4. CASE adopted' = "create" /\ found = {} /\ adoption' = "none"
    <3>1. FirstMade(0)' BY <2>1, <2>4, FS_EmptySet DEF FirstMade
    <3>2. 0 \in 0 .. Len(pkg.baseline.tables) BY <1>0 DEF ChecksItsBaseline
    <3> QED BY <2>1, <2>4, <3>1, <3>2 DEF Adopt!AdoptsExactlyTheWhole
  <2> QED BY <1>4, <2>2, <2>3, <2>4 DEF Adopt!UpgradeStep, Adopt!Ends
<1>5. CASE Adopt!CreateTable
  <2>1. pkg' = pkg /\ second' = second /\ adoption' = "none" /\ stamp = "empty"
    BY <1>5 DEF Adopt!CreateTable, Adopt!Keep
  <2>2. PICK m \in 0 .. Len(pkg.baseline.tables) : FirstMade(m) BY <1>5 DEF Adopt!CreateTable
  <2>3. m \in Nat /\ Adopt!Cardinality(found) = m BY <1>0, <2>2, CountsAlike DEF ChecksItsBaseline, FirstMade
  <2>4. CASE m + 1 <= Len(pkg.baseline.tables)
    <3> DEFINE t == pkg.baseline.tables[m + 1]
    <3>1. /\ found' = found \cup {t} /\ adopted' = "create" /\ stamp' = "empty"
          /\ carried' = IF t = pkg.sentinel THEN pkg.baseline.columns ELSE carried
      BY ONLY <1>5, <2>1, <2>3, <2>4 DEF Adopt!CreateTable
    <3>2. m + 1 \in DOMAIN pkg.baseline.tables /\ 1 .. m \subseteq DOMAIN pkg.baseline.tables
      BY <1>0, <2>3, <2>4 DEF ChecksItsBaseline
    <3>3. t \notin found
      <4> SUFFICES ASSUME NEW k \in 1 .. m, pkg.baseline.tables[k] = t PROVE FALSE BY <2>2 DEF FirstMade
      <4>1. k = m + 1 BY <1>0, <3>2 DEF ChecksItsBaseline
      <4> QED BY <2>3, <4>1
    <3>4. FirstMade(m + 1)'
      <4>1. found' = {pkg.baseline.tables[k] : k \in 1 .. (m + 1)}
        <5>1. 1 .. (m + 1) = (1 .. m) \cup {m + 1} BY <2>3
        <5> QED BY <2>2, <3>1, <5>1 DEF FirstMade
      <4>2. IsFiniteSet(found') /\ Cardinality(found') = m + 1
        BY <2>2, <2>3, <3>1, <3>3, FS_AddElement DEF FirstMade
      <4>3. pkg.sentinel \in found' => carried' = pkg.baseline.columns BY <2>2, <3>1 DEF FirstMade
      <4> QED BY <2>1, <4>1, <4>2, <4>3 DEF FirstMade
    <3>5. found' \subseteq Adopt!Created(pkg) BY <3>1, <3>2 DEF Adopt!Created
    <3>6. m + 1 \in 0 .. Len(pkg.baseline.tables) BY <1>0, <2>3, <2>4 DEF ChecksItsBaseline
    <3> QED BY <2>1, <3>1, <3>4, <3>5, <3>6 DEF Adopt!AdoptsExactlyTheWhole, Adopt!Created
  <2>5. CASE ~ (m + 1 <= Len(pkg.baseline.tables))
    <3>1. adopted' = "upgrade" /\ stamp' = "0001" /\ UNCHANGED <<found, carried>>
      BY ONLY <1>5, <2>3, <2>5 DEF Adopt!CreateTable
    <3>2. m = Len(pkg.baseline.tables) BY <1>0, <2>2, <2>3, <2>5 DEF ChecksItsBaseline
    <3>3. found = Adopt!Created(pkg) BY <1>0, <2>2, <3>2 DEF FirstMade, ChecksItsBaseline, Adopt!Created
    <3>4. Whole BY <1>0, <2>2, <3>3 DEF FirstMade, ChecksItsBaseline, Whole
    <3> QED BY <2>1, <3>1, <3>4 DEF Whole, Adopt!AdoptsExactlyTheWhole, Adopt!Created
  <2> QED BY <2>4, <2>5
<1>6. CASE Adopt!UpgradeSecond
  <2>1. UNCHANGED <<pkg, found, carried>> /\ adopted' = "off" /\ Whole
    BY <1>6 DEF Adopt!UpgradeSecond, Adopt!Keep, Adopt!Ends
  <2>2. \/ adoption' = "head" /\ stamp' = "head" /\ second' = Adopt!HasSecond(pkg)
        \/ adoption' = "failed" /\ stamp' = stamp
    BY <1>6 DEF Adopt!UpgradeSecond, Adopt!Ends
  <2> QED BY <2>1, <2>2 DEF Whole, Adopt!AdoptsExactlyTheWhole, Adopt!Created, Adopt!HasSecond
<1>7. CASE Adopt!Dies
  BY <1>7 DEF Adopt!Dies, Adopt!Keep, Whole, Adopt!AdoptsExactlyTheWhole
<1>8. ASSUME NEW L \in SUBSET found, Adopt!Lose(L) PROVE AdoptionIInv'
  BY <1>8 DEF Adopt!Lose, Whole, Adopt!AdoptsExactlyTheWhole, Adopt!Created
<1>9. CASE UNCHANGED Adopt!adoption
  BY <1>9 DEF Adopt!adoption, Whole, FirstMade, Adopt!AdoptsExactlyTheWhole
<1> QED BY <1>1, <1>2, <1>3, <1>4, <1>5, <1>6, <1>7, <1>8, <1>9 DEF Adopt!Next

-----------------------------------------------------------------------------
(* Routing: what a process keeps is what the tables held at a moment of the  *)
(* last TTL, and the ranking of cells is the ranking by tiers.               *)

\* The cells an emit may be routed by, as they stand in a configuration.
Seen(policies, o) == {r \in policies : r.org \in {Platform, o}}

\* Rows are numbered as they are written.
Numbered(n, policies) ==
    /\ \A r \in policies : r.id \in 1..n
    /\ \A r, q \in policies : r.id = q.id => r = q

LEMMA GreatestId ==
  ASSUME NEW n \in Nat, NEW X, X # {}, Numbered(n, X)
  PROVE  \E r \in X : \A q \in X : r.id >= q.id
<1>1. PICK T : T = {n - r.id : r \in X} OBVIOUS
<1>2. T \subseteq Nat /\ T # {} BY <1>1 DEF Numbered
<1>3. PICK m \in T : \A k \in T : m <= k BY <1>2, LeastNatural
<1>4. PICK r \in X : m = n - r.id BY <1>1
<1>5. ASSUME NEW q \in X PROVE r.id >= q.id
  <2>1. n - q.id \in T BY <1>1
  <2>2. n - r.id <= n - q.id BY <1>3, <1>4, <2>1
  <2>3. r.id \in Nat /\ q.id \in Nat BY DEF Numbered
  <2> QED BY <2>2, <2>3
<1> QED BY <1>5


\* The cells for a channel that speak of an emit, the one that is picked, and whether the
\* channel is on.
Of(policies, ch, t, i) == {r \in policies : r.channel = ch /\ Matrix!Matches(r, t, i)}
Picked(cells) == CHOOSE r \in cells : \A q \in cells : Matrix!Beats(r, q)
Tier(cells) ==
    IF {r \in cells : r.topic # Every /\ r.importance # Every} # {}
    THEN {r \in cells : r.topic # Every /\ r.importance # Every}
    ELSE IF {r \in cells : r.topic # Every \/ r.importance # Every} # {}
         THEN {r \in cells : r.topic # Every \/ r.importance # Every} ELSE cells
TierPicked(cells) == Matrix!Winner(Tier(cells))
OwnRung(rungs, o, i) == {r \in rungs : r.key = i /\ r.org = o}
Loud(rungs, o, i) ==
    \E r \in IF OwnRung(rungs, o, i) # {} THEN OwnRung(rungs, o, i) ELSE OwnRung(rungs, Platform, i) : r.emails

LEMMA ResolveIs ==
  ASSUME NEW P, NEW R, NEW o, NEW t, NEW i
  PROVE  Matrix!resolve_channels(P, R, o, t, i) =
           [c \in {d \in Matrix!Routed : IF Of(P, d, t, i) # {} THEN Picked(Of(P, d, t, i)).enabled
                                        ELSE d = InApp \/ (d = Email /\ Matrix!Emails(R, o, i))}
              |-> Of(P, c, t, i) # {} /\ Picked(Of(P, c, t, i)).mandatory]
BY DEF Matrix!resolve_channels, Of, Picked

LEMMA SeenOf ==
  ASSUME NEW P, NEW o, NEW ch, NEW t, NEW i
  PROVE  {r \in P : /\ r.org \in {Platform, o} /\ r.channel = ch
                    /\ r.topic \in {Every, t} /\ r.importance \in {Every, i}} = Of(Seen(P, o), ch, t, i)
BY DEF Of, Seen, Matrix!Matches

\* A rung's email default: the org's own row, or the platform's.
LEMMA LoudIs ==
  ASSUME MatrixNames, NEW o \in Tenants, NEW R, NEW Q, Q = {r \in R : r.org \in {Platform, o}}, NEW i,
         \A r, q \in R : r.org = q.org /\ r.key = q.key => r = q
  PROVE  Matrix!Emails(Q, o, i) <=> Loud(R, o, i)
<1>1. CASE \E r \in R : r.key = i /\ r.org = o
  BY <1>1 DEF Matrix!Emails, Loud, OwnRung
<1>2. CASE ~ \E r \in R : r.key = i /\ r.org = o
  BY <1>2 DEF Matrix!Emails, Loud, OwnRung
<1> QED BY <1>1, <1>2

\* The cell of the first tier that is not empty beats every cell.
LEMMA TierBeats ==
  ASSUME NEW n \in Nat, NEW X, X # {}, Numbered(n, X)
  PROVE  TierPicked(X) \in X /\ \A q \in X : Matrix!Beats(TierPicked(X), q)
<1>1. PICK T : T = Tier(X) OBVIOUS
<1>2. T \subseteq X /\ T # {} BY <1>1 DEF Tier
<1>3. \A r \in T, q \in X : \/ Matrix!Set(r.topic) + Matrix!Set(r.importance) > Matrix!Set(q.topic) + Matrix!Set(q.importance)
                           \/ /\ q \in T
                              /\ Matrix!Set(r.topic) + Matrix!Set(r.importance) = Matrix!Set(q.topic) + Matrix!Set(q.importance)
  BY <1>1 DEF Tier, Matrix!Set
<1>4. PICK own : own = {r \in T : r.org # Platform} OBVIOUS
<1>5. PICK ranked : ranked = IF own # {} THEN own ELSE T OBVIOUS
<1>6. ranked \subseteq X /\ ranked # {} /\ Numbered(n, ranked) BY <1>2, <1>4, <1>5 DEF Numbered
<1>7. \E r \in ranked : \A q \in ranked : r.id >= q.id BY <1>6, GreatestId
<1>8. TierPicked(X) = CHOOSE r \in ranked : \A q \in ranked : r.id >= q.id
  BY <1>1, <1>4, <1>5 DEF TierPicked, Matrix!Winner
<1>9. PICK w : w = TierPicked(X) OBVIOUS
<1>10. w \in ranked /\ \A q \in ranked : w.id >= q.id BY <1>7, <1>8, <1>9
<1>11. w \in T /\ w \in X BY <1>2, <1>4, <1>5, <1>10
<1>12. ASSUME NEW q \in X PROVE Matrix!Beats(w, q)
  <2>1. CASE Matrix!Set(w.topic) + Matrix!Set(w.importance) > Matrix!Set(q.topic) + Matrix!Set(q.importance)
    BY <2>1 DEF Matrix!Beats
  <2>2. CASE q \in T /\ Matrix!Set(w.topic) + Matrix!Set(w.importance) = Matrix!Set(q.topic) + Matrix!Set(q.importance)
    <3>1. CASE q \in ranked
      <4>1. w.org = Platform <=> q.org = Platform BY <1>4, <1>5, <1>10, <2>2, <3>1
      <4> QED BY <1>10, <2>2, <3>1, <4>1 DEF Matrix!Beats
    <3>2. CASE q \notin ranked
      <4>1. w.org # Platform /\ q.org = Platform BY <1>4, <1>5, <1>10, <2>2, <3>2
      <4> QED BY <2>2, <4>1 DEF Matrix!Beats
    <3> QED BY <3>1, <3>2
  <2> QED BY <1>3, <1>11, <2>1, <2>2
<1> QED BY <1>9, <1>11, <1>12

\* Only one cell beats every other.
LEMMA PickedIs ==
  ASSUME NEW n \in Nat, NEW X, X # {}, Numbered(n, X)
  PROVE  Picked(X) = TierPicked(X)
<1>1. PICK w \in X : w = TierPicked(X) /\ \A q \in X : Matrix!Beats(w, q) BY TierBeats
<1>2. PICK r : r = Picked(X) OBVIOUS
<1>3. r \in X /\ \A q \in X : Matrix!Beats(r, q) BY <1>1, <1>2 DEF Picked
<1>4. Matrix!Beats(r, w) /\ Matrix!Beats(w, r) BY <1>1, <1>3
<1>5. \A x : Matrix!Set(x) \in Nat BY DEF Matrix!Set
<1>6. r.id \in Nat /\ w.id \in Nat BY <1>3 DEF Numbered
<1>7. r.id = w.id BY <1>4, <1>5, <1>6 DEF Matrix!Beats
<1>8. r = w BY <1>3, <1>7 DEF Numbered
<1> QED BY <1>1, <1>2, <1>8

\* The winner of some cells wins among those of them it is one of.
LEMMA WinnerOfPart ==
  ASSUME NEW n \in Nat, NEW X, Numbered(n, X), NEW Y, Y \subseteq X, Y # {}, Matrix!Winner(X) \in Y
  PROVE  Matrix!Winner(Y) = Matrix!Winner(X)
<1>1. PICK w : w = Matrix!Winner(X) OBVIOUS
<1>2. PICK own : own = {r \in X : r.org # Platform} OBVIOUS
<1>3. PICK ranked : ranked = IF own # {} THEN own ELSE X OBVIOUS
<1>4. PICK mine : mine = {r \in Y : r.org # Platform} OBVIOUS
<1>5. PICK few : few = IF mine # {} THEN mine ELSE Y OBVIOUS
<1>6. w \in ranked /\ \A q \in ranked : w.id >= q.id
  <2>1. w = CHOOSE r \in ranked : \A q \in ranked : r.id >= q.id BY <1>1, <1>2, <1>3 DEF Matrix!Winner
  <2>2. ranked # {} /\ Numbered(n, ranked) BY <1>2, <1>3 DEF Numbered
  <2> QED BY <2>1, <2>2, GreatestId
<1>7. w \in few /\ few \subseteq ranked
  <2>1. CASE own # {} BY <1>1, <1>2, <1>3, <1>4, <1>5, <1>6, <2>1
  <2>2. CASE own = {} BY <1>1, <1>2, <1>3, <1>4, <1>5, <1>6, <2>2
  <2> QED BY <2>1, <2>2
<1>8. PICK v : v = Matrix!Winner(Y) OBVIOUS
<1>9. v = CHOOSE r \in few : \A q \in few : r.id >= q.id BY <1>4, <1>5, <1>8 DEF Matrix!Winner
<1>10. v \in few /\ \A q \in few : v.id >= q.id BY <1>6, <1>7, <1>9
<1>11. v \in X /\ w \in X /\ v.id \in Nat /\ w.id \in Nat BY <1>2, <1>3, <1>6, <1>7, <1>10 DEF Numbered
<1>12. v.id = w.id BY <1>6, <1>7, <1>10, <1>11
<1> QED BY <1>1, <1>8, <1>11, <1>12 DEF Numbered

\* The cell that is picked is one the tiers let decide.
LEMMA PickedDecides ==
  ASSUME NEW n \in Nat, NEW X, X # {}, Numbered(n, X)
  PROVE  Picked(X) \in Matrix!Deciding(X)
<1>1. Picked(X) = Matrix!Winner(Tier(X)) BY PickedIs DEF TierPicked
<1>2. PICK both : both = Matrix!Both(X) OBVIOUS
<1>3. PICK topic : topic = Matrix!OfTopic(X) OBVIOUS
<1>4. PICK imp : imp = Matrix!OfImportance(X) OBVIOUS
<1>5. CASE both # {}
  <2>1. Tier(X) = both BY <1>2, <1>5 DEF Tier, Matrix!Both
  <2> QED BY <1>1, <1>2, <1>5, <2>1 DEF Matrix!Deciding, Matrix!Documented
<1>6. CASE both = {} /\ topic # {} /\ imp # {}
  <2>1. PICK one : one = topic \cup imp OBVIOUS
  <2>2. Tier(X) = one
    BY <1>2, <1>3, <1>4, <1>6, <2>1 DEF Tier, Matrix!Both, Matrix!OfTopic, Matrix!OfImportance
  <2>3. Numbered(n, one) /\ one # {}
    BY <1>3, <1>4, <1>6, <2>1 DEF Numbered, Matrix!OfTopic, Matrix!OfImportance
  <2>4. Matrix!Winner(one) \in one
    <3>1. PICK own : own = {r \in one : r.org # Platform} OBVIOUS
    <3>2. PICK ranked : ranked = IF own # {} THEN own ELSE one OBVIOUS
    <3>3. ranked # {} /\ ranked \subseteq one /\ Numbered(n, ranked) BY <2>3, <3>1, <3>2 DEF Numbered
    <3>4. Matrix!Winner(one) = CHOOSE r \in ranked : \A q \in ranked : r.id >= q.id
      BY <3>1, <3>2 DEF Matrix!Winner
    <3> QED BY <3>3, <3>4, GreatestId
  <2>5. Matrix!Winner(one) = Matrix!Winner(topic) \/ Matrix!Winner(one) = Matrix!Winner(imp)
    BY <1>6, <2>1, <2>3, <2>4, WinnerOfPart
  <2> QED BY <1>1, <1>2, <1>3, <1>4, <1>6, <2>2, <2>5 DEF Matrix!Deciding
<1>7. CASE both = {} /\ topic # {} /\ imp = {}
  <2>1. Tier(X) = topic
    BY <1>2, <1>3, <1>4, <1>7 DEF Tier, Matrix!Both, Matrix!OfTopic, Matrix!OfImportance
  <2> QED BY <1>1, <1>2, <1>3, <1>4, <1>7, <2>1 DEF Matrix!Deciding, Matrix!Documented
<1>8. CASE both = {} /\ topic = {} /\ imp # {}
  <2>1. Tier(X) = imp
    BY <1>2, <1>3, <1>4, <1>8 DEF Tier, Matrix!Both, Matrix!OfTopic, Matrix!OfImportance
  <2> QED BY <1>1, <1>2, <1>3, <1>4, <1>8, <2>1 DEF Matrix!Deciding, Matrix!Documented
<1>9. CASE both = {} /\ topic = {} /\ imp = {}
  <2>1. Tier(X) = X
    BY <1>2, <1>3, <1>4, <1>9 DEF Tier, Matrix!Both, Matrix!OfTopic, Matrix!OfImportance
  <2> QED BY <1>1, <1>2, <1>3, <1>4, <1>9, <2>1 DEF Matrix!Deciding, Matrix!Documented
<1> QED BY <1>5, <1>6, <1>7, <1>8, <1>9

\* The code's ranking routes by the tiers.
LEMMA ResolvesByTiers ==
  ASSUME MatrixNames, NEW n \in Nat, NEW P, Numbered(n, P), NEW R, NEW o \in Tenants, NEW t, NEW i,
         \A r, q \in R : r.org = q.org /\ r.key = q.key => r = q,
         NEW c, c = [policies |-> P, rungs |-> R], NEW channels,
         channels = Matrix!resolve_channels(Seen(P, o), Seen(R, o), o, t, i)
  PROVE  Matrix!RoutedBy(channels, c, o, t, i)
<1> DEFINE On(d) == IF Of(Seen(P, o), d, t, i) # {} THEN Picked(Of(Seen(P, o), d, t, i)).enabled
                    ELSE d = InApp \/ (d = Email /\ Matrix!Emails(Seen(R, o), o, i))
           Must(d) == Of(Seen(P, o), d, t, i) # {} /\ Picked(Of(Seen(P, o), d, t, i)).mandatory
<1>1. channels = [d \in {e \in Matrix!Routed : On(e)} |-> Must(d)] BY ResolveIs
<1>2. Matrix!Emails(Seen(R, o), o, i) <=> Loud(R, o, i) BY LoudIs DEF Seen
<1>3. ASSUME NEW ch \in Matrix!Routed
      PROVE  IF Matrix!Cells(c, ch, o, t, i) = {} THEN Matrix!AsDefault(channels, ch, c, o, i)
             ELSE \E r \in Matrix!Deciding(Matrix!Cells(c, ch, o, t, i)) : Matrix!AsCell(channels, ch, r)
  <2>1. PICK cells : cells = Of(Seen(P, o), ch, t, i) OBVIOUS
  <2>2. Matrix!Cells(c, ch, o, t, i) = cells
    <3>1. c.policies = P OBVIOUS
    <3> QED BY <2>1, <3>1, SeenOf DEF Matrix!Cells
  <2>3. ch \in DOMAIN channels <=> On(ch)
    <3> HIDE DEF On, Must
    <3> QED BY <1>1
  <2>4. ch \in DOMAIN channels => (channels[ch] <=> Must(ch))
    <3> HIDE DEF On, Must
    <3> QED BY <1>1
  <2>5. CASE cells = {}
    <3>1. ch = InApp \/ ch = Email BY DEF Matrix!Routed
    <3>2. On(ch) <=> (ch = InApp \/ Loud(R, o, i)) BY <1>2, <2>1, <2>5, <3>1
    <3>3. ~ Must(ch) BY <2>1, <2>5
    <3>4. c.rungs = R OBVIOUS
    <3> HIDE DEF On, Must
    <3>5. Matrix!AsDefault(channels, ch, c, o, i)
      BY <2>3, <2>4, <3>2, <3>3, <3>4 DEF Matrix!AsDefault, Loud, OwnRung
    <3> QED BY <2>2, <2>5, <3>5
  <2>6. CASE cells # {}
    <3>1. PICK r : r = Picked(cells) OBVIOUS
    <3>2. Numbered(n, cells) BY <2>1 DEF Numbered, Of, Seen
    <3>3. r \in Matrix!Deciding(cells) BY <2>6, <3>1, <3>2, PickedDecides
    <3>4. (On(ch) <=> r.enabled) /\ (Must(ch) <=> r.mandatory) BY <2>1, <2>6, <3>1
    <3> HIDE DEF On, Must
    <3>5. Matrix!AsCell(channels, ch, r) BY <2>3, <2>4, <3>4 DEF Matrix!AsCell
    <3> QED BY <2>2, <2>6, <3>3, <3>5
  <2> QED BY <2>5, <2>6
<1>4. DOMAIN channels \subseteq Matrix!Routed
  <2> HIDE DEF On, Must
  <2> QED BY <1>1
<1> HIDE DEF On, Must
<1> QED BY <1>3, <1>4 DEF Matrix!RoutedBy

ConfigSound(c, n) ==
    /\ c = [topics |-> c.topics, rungs |-> c.rungs, policies |-> c.policies]
    /\ c.rungs \subseteq Matrix!Rung
    /\ \A r, q \in c.rungs : r.org = q.org /\ r.key = q.key => r = q
    /\ Numbered(n, c.policies)

\* The configurations h of the last TTL, c the one in force, and the n changes so far.
PastSound(h, c, n) ==
    /\ n \in Nat
    /\ [age |-> 0, config |-> c] \in h
    /\ \A g \in h : g = [age |-> g.age, config |-> g.config] /\ g.age \in Nat /\ ConfigSound(g.config, n)

\* An entry that is fresh is what one of them held when it was as young.
RecentPolicies(h, e, o) ==
    /\ e.age \in Nat
    /\ e.age < TTL => \E g \in h : e = [age |-> g.age, rows |-> Seen(g.config.policies, o)]
RecentRungs(h, e, o) ==
    /\ e.age \in Nat
    /\ e.age < TTL => \E g \in h : e = [age |-> g.age, rows |-> Seen(g.config.rungs, o)]

Kept(ts, rs, ps) == [topics |-> ts, rungs |-> rs, policies |-> ps]
KeptRecent(h, k) ==
    /\ k = Kept(k.topics, k.rungs, k.policies)
    /\ k.rungs = [o \in Tenants \cup {Every} |-> k.rungs[o]]
    /\ k.policies = [o \in Tenants |-> k.policies[o]]
    /\ \A o \in Tenants : RecentPolicies(h, k.policies[o], o) /\ RecentRungs(h, k.rungs[o], o)

RoutingIInv ==
    /\ PastSound(past, config, changes)
    /\ caches = [p \in {p1} |-> caches[p]] /\ KeptRecent(past, caches[p1])
    /\ Matrix!EmitsByRecentConfig

LEMMA NoneRecent == ASSUME MatrixNames, NEW h PROVE KeptRecent(h, Matrix!NoCaches)
<1>1. Matrix!None.age \in Nat /\ ~ (Matrix!None.age < TTL) BY DEF Matrix!None, MatrixNames
<1> QED BY <1>1 DEF KeptRecent, Kept, Matrix!NoCaches, RecentPolicies, RecentRungs

LEMMA KeptOnward ==
  ASSUME NEW h, NEW h2, h \subseteq h2, NEW k, KeptRecent(h, k)
  PROVE  KeptRecent(h2, k)
<1>1. \A e, o : RecentPolicies(h, e, o) => RecentPolicies(h2, e, o) BY DEF RecentPolicies
<1>2. \A e, o : RecentRungs(h, e, o) => RecentRungs(h2, e, o) BY DEF RecentRungs
<1> QED BY <1>1, <1>2 DEF KeptRecent

LEMMA MatrixInitIInv == MatrixNames /\ Matrix!Init => RoutingIInv
<1> SUFFICES ASSUME MatrixNames, Matrix!Init PROVE RoutingIInv OBVIOUS
<1>1. ConfigSound(config, 0)
  <2>1. config.policies = {} /\ config = [topics |-> config.topics, rungs |-> config.rungs, policies |-> config.policies]
    BY DEF Matrix!Init
  <2>2. config.rungs = {[org |-> Platform, key |-> Low, emails |-> FALSE],
                        [org |-> Platform, key |-> High, emails |-> TRUE]}
    BY DEF Matrix!Init
  <2>3. config.rungs \subseteq Matrix!Rung BY <2>2 DEF Matrix!Rung, Matrix!Owners, MatrixNames
  <2>4. \A r, q \in config.rungs : r.org = q.org /\ r.key = q.key => r = q
    <3>1. \A r \in config.rungs : \/ r.key = Low /\ r = [org |-> Platform, key |-> Low, emails |-> FALSE]
                                  \/ r.key = High /\ r = [org |-> Platform, key |-> High, emails |-> TRUE]
      BY <2>2
    <3>2. Low # High BY DEF MatrixNames
    <3> QED BY <3>1, <3>2
  <2> QED BY <2>1, <2>3, <2>4 DEF ConfigSound, Numbered
<1>2. PastSound(past, config, changes)
  <2>1. past = {[age |-> 0, config |-> config]} /\ changes = 0 BY DEF Matrix!Init
  <2>2. [age |-> 0, config |-> config].age = 0 /\ [age |-> 0, config |-> config].config = config OBVIOUS
  <2> QED BY <1>1, <2>1, <2>2 DEF PastSound
<1>3. caches = [p \in {p1} |-> Matrix!NoCaches] BY DEF Matrix!Init
<1>4. caches[p1] = Matrix!NoCaches BY <1>3
<1>5. emit.at # "emit" BY DEF Matrix!Init
<1> QED BY <1>2, <1>3, <1>4, <1>5, NoneRecent DEF RoutingIInv, Matrix!EmitsByRecentConfig

LEMMA ChangeKeeps ==
  ASSUME RoutingIInv, NEW c, ConfigSound(c, changes + 1), Matrix!Changed(c)
  PROVE  RoutingIInv'
<1>1. changes' = changes + 1 /\ config' = c /\ past' = past \cup {[age |-> 0, config |-> c]} /\ caches' = caches
      /\ emit'.at # "emit"
  BY DEF Matrix!Changed
<1>2. PastSound(past, config, changes) BY DEF RoutingIInv
<1>3. PastSound(past', config', changes')
  <2>1. changes' \in Nat BY <1>1, <1>2 DEF PastSound
  <2>2. ASSUME NEW g \in past PROVE ConfigSound(g.config, changes + 1)
    <3>1. changes \in Nat /\ ConfigSound(g.config, changes) BY <1>2 DEF PastSound
    <3> QED BY <3>1 DEF ConfigSound, Numbered
  <2>3. [age |-> 0, config |-> c].age = 0 /\ [age |-> 0, config |-> c].config = c OBVIOUS
  <2> QED BY <1>1, <1>2, <2>1, <2>2, <2>3 DEF PastSound
<1>4. KeptRecent(past', caches'[p1]) BY <1>1, KeptOnward DEF RoutingIInv
<1>5. caches' = [p \in {p1} |-> caches'[p]] BY <1>1 DEF RoutingIInv
<1> QED BY <1>1, <1>3, <1>4, <1>5 DEF RoutingIInv, Matrix!EmitsByRecentConfig

\* What is in force is sound, and stays so with more numbers given.
LEMMA InForce ==
  ASSUME RoutingIInv
  PROVE  ConfigSound(config, changes) /\ ConfigSound(config, changes + 1) /\ changes \in Nat
<1>1. PastSound(past, config, changes) BY DEF RoutingIInv
<1>2. [age |-> 0, config |-> config] \in past /\ changes \in Nat BY <1>1 DEF PastSound
<1>3. ConfigSound([age |-> 0, config |-> config].config, changes) BY <1>1, <1>2 DEF PastSound
<1>4. ConfigSound(config, changes) BY <1>3
<1> QED BY <1>2, <1>4 DEF ConfigSound, Numbered

LEMMA AdministratorKeeps ==
  ASSUME RoutingIInv,
         \/ \E t \in Topics : Matrix!SeedTopic(t)
         \/ \E r \in Matrix!Rung : Matrix!SaveRung(r) \/ Matrix!DropRung(r)
         \/ \E o \in Matrix!Owners, cell \in Written : Matrix!AddPolicy(o, cell)
         \/ \E r \in config.policies : Matrix!DropPolicy(r)
  PROVE  RoutingIInv'
<1>1. PICK ts, rs, ps : config = [topics |-> ts, rungs |-> rs, policies |-> ps] BY InForce DEF ConfigSound
<1> DEFINE With(a, b, c) == [topics |-> a, rungs |-> b, policies |-> c]
<1>2. /\ rs \subseteq Matrix!Rung
      /\ \A r, q \in rs : r.org = q.org /\ r.key = q.key => r = q
      /\ Numbered(changes, ps) /\ Numbered(changes + 1, ps) /\ changes \in Nat
  BY <1>1, InForce DEF ConfigSound
<1>3. \A a, b, c : With(a, b, c).topics = a /\ With(a, b, c).rungs = b /\ With(a, b, c).policies = c OBVIOUS
<1>4. \A a, b, c : /\ b \subseteq Matrix!Rung
                   /\ \A r, q \in b : r.org = q.org /\ r.key = q.key => r = q
                   /\ Numbered(changes + 1, c)
                   => ConfigSound(With(a, b, c), changes + 1)
  BY <1>3 DEF ConfigSound
<1>5. ASSUME NEW t \in Topics, Matrix!SeedTopic(t) PROVE RoutingIInv'
  <2>1. Matrix!Changed(With(ts \cup {t}, rs, ps)) BY <1>1, <1>5 DEF Matrix!SeedTopic
  <2> HIDE DEF With
  <2> QED BY <1>2, <1>4, <2>1, ChangeKeeps
<1>6. ASSUME NEW r \in Matrix!Rung, Matrix!SaveRung(r) PROVE RoutingIInv'
  <2>1. PICK b : b = {q \in rs : <<q.org, q.key>> # <<r.org, r.key>>} \cup {r} OBVIOUS
  <2>2. Matrix!Changed(With(ts, b, ps)) BY <1>1, <1>6, <2>1 DEF Matrix!SaveRung
  <2>3. b \subseteq Matrix!Rung /\ \A x, q \in b : x.org = q.org /\ x.key = q.key => x = q BY <1>2, <2>1
  <2> HIDE DEF With
  <2> QED BY <1>2, <1>4, <2>2, <2>3, ChangeKeeps
<1>7. ASSUME NEW r \in Matrix!Rung, Matrix!DropRung(r) PROVE RoutingIInv'
  <2>1. Matrix!Changed(With(ts, rs \ {r}, ps)) BY <1>1, <1>7 DEF Matrix!DropRung
  <2>2. rs \ {r} \subseteq Matrix!Rung /\ \A x, q \in rs \ {r} : x.org = q.org /\ x.key = q.key => x = q BY <1>2
  <2> HIDE DEF With
  <2> QED BY <1>2, <1>4, <2>1, <2>2, ChangeKeeps
<1>8. ASSUME NEW o \in Matrix!Owners, NEW cell \in Written, Matrix!AddPolicy(o, cell) PROVE RoutingIInv'
  <2>1. PICK new : new = [id |-> changes + 1, org |-> o, topic |-> cell.topic, importance |-> cell.importance,
                          channel |-> cell.channel, enabled |-> cell.enabled, mandatory |-> cell.mandatory]
    OBVIOUS
  <2>2. Matrix!Changed(With(ts, rs, ps \cup {new})) BY <1>1, <1>8, <2>1 DEF Matrix!AddPolicy
  <2>3. new.id = changes + 1 BY <2>1
  <2>4. Numbered(changes + 1, ps \cup {new})
    <3>1. \A r \in ps : r.id \in 1..changes BY <1>2 DEF Numbered
    <3>2. \A r \in ps : r.id # new.id /\ r.id \in 1..(changes + 1) BY <1>2, <2>3, <3>1
    <3> QED BY <1>2, <2>3, <3>2 DEF Numbered
  <2> HIDE DEF With
  <2> QED BY <1>2, <1>4, <2>2, <2>4, ChangeKeeps
<1>9. ASSUME NEW r \in config.policies, Matrix!DropPolicy(r) PROVE RoutingIInv'
  <2>1. Matrix!Changed(With(ts, rs, ps \ {r})) BY <1>1, <1>9 DEF Matrix!DropPolicy
  <2>2. Numbered(changes + 1, ps \ {r}) BY <1>2 DEF Numbered
  <2> HIDE DEF With
  <2> QED BY <1>2, <1>4, <2>1, <2>2, ChangeKeeps
<1> QED BY <1>5, <1>6, <1>7, <1>8, <1>9

\* The configurations a tick keeps are those of the next TTL, a tick older.
LEMMA PastTicks ==
  ASSUME NEW h, NEW c, NEW n, PastSound(h, c, n), NEW h2,
         h2 = {[g EXCEPT !.age = @ + 1] : g \in {x \in h : x.age + 1 < TTL}} \cup {[age |-> 0, config |-> c]}
  PROVE  /\ PastSound(h2, c, n)
         /\ \A g \in h : g.age + 1 < TTL => [age |-> g.age + 1, config |-> g.config] \in h2
<1>1. \A g \in h : [g EXCEPT !.age = @ + 1] = [age |-> g.age + 1, config |-> g.config]
  <2> SUFFICES ASSUME NEW g \in h PROVE [g EXCEPT !.age = @ + 1] = [age |-> g.age + 1, config |-> g.config] OBVIOUS
  <2>1. PICK a, d : g = [age |-> a, config |-> d] BY DEF PastSound
  <2> QED BY <2>1
<1>2. \A g \in h : g.age + 1 < TTL => [age |-> g.age + 1, config |-> g.config] \in h2 BY <1>1
<1>3. \A g \in h2 : \/ g = [age |-> 0, config |-> c]
                    \/ \E x \in h : g = [age |-> x.age + 1, config |-> x.config]
  BY <1>1
<1>4. [age |-> 0, config |-> c] \in h2 OBVIOUS
<1>5. ConfigSound(c, n)
  <2>1. [age |-> 0, config |-> c] \in h BY DEF PastSound
  <2>2. ConfigSound([age |-> 0, config |-> c].config, n) BY <2>1 DEF PastSound
  <2> QED BY <2>2
<1>6. ASSUME NEW g \in h2 PROVE g = [age |-> g.age, config |-> g.config] /\ g.age \in Nat /\ ConfigSound(g.config, n)
  <2>1. CASE g = [age |-> 0, config |-> c] BY <1>5, <2>1
  <2>2. ASSUME NEW x \in h, g = [age |-> x.age + 1, config |-> x.config]
        PROVE  g = [age |-> g.age, config |-> g.config] /\ g.age \in Nat /\ ConfigSound(g.config, n)
    <3>1. x.age \in Nat /\ ConfigSound(x.config, n) BY DEF PastSound
    <3>2. g.age = x.age + 1 /\ g.config = x.config BY <2>2
    <3> QED BY <2>2, <3>1, <3>2
  <2> QED BY <1>3, <2>1, <2>2
<1>7. n \in Nat BY DEF PastSound
<1> QED BY <1>2, <1>4, <1>6, <1>7 DEF PastSound

Aged(e) == IF e.age < TTL THEN [e EXCEPT !.age = @ + 1] ELSE Matrix!None

\* An entry that grows a tick older stays one of a configuration that did.
LEMMA EntryTicks ==
  ASSUME MatrixNames, NEW h, NEW c, NEW n, PastSound(h, c, n), NEW h2,
         \A g \in h : g.age + 1 < TTL => [age |-> g.age + 1, config |-> g.config] \in h2,
         NEW o, NEW e
  PROVE  /\ RecentPolicies(h, e, o) => RecentPolicies(h2, Aged(e), o)
         /\ RecentRungs(h, e, o) => RecentRungs(h2, Aged(e), o)
<1>1. Matrix!None.age \in Nat /\ ~ (Matrix!None.age < TTL) BY DEF Matrix!None, MatrixNames
<1>2. ASSUME ~ (e.age < TTL) PROVE RecentPolicies(h2, Aged(e), o) /\ RecentRungs(h2, Aged(e), o)
  BY <1>1, <1>2 DEF Aged, RecentPolicies, RecentRungs
<1>3. ASSUME e.age < TTL, RecentPolicies(h, e, o) PROVE RecentPolicies(h2, Aged(e), o)
  <2>1. PICK g \in h : e = [age |-> g.age, rows |-> Seen(g.config.policies, o)] BY <1>3 DEF RecentPolicies
  <2>2. g.age \in Nat BY DEF PastSound
  <2>3. Aged(e) = [age |-> g.age + 1, rows |-> Seen(g.config.policies, o)] BY <1>3, <2>1 DEF Aged
  <2>4. PICK f : f = [age |-> g.age + 1, config |-> g.config] OBVIOUS
  <2>5. f.age = g.age + 1 /\ f.config = g.config BY <2>4
  <2>6. g.age + 1 < TTL => f \in h2 BY <2>4
  <2>7. Aged(e).age = g.age + 1 BY <2>3
  <2>8. Aged(e) = [age |-> f.age, rows |-> Seen(f.config.policies, o)] BY <2>3, <2>5
  <2> QED BY <2>2, <2>6, <2>7, <2>8 DEF RecentPolicies
<1>4. ASSUME e.age < TTL, RecentRungs(h, e, o) PROVE RecentRungs(h2, Aged(e), o)
  <2>1. PICK g \in h : e = [age |-> g.age, rows |-> Seen(g.config.rungs, o)] BY <1>4 DEF RecentRungs
  <2>2. g.age \in Nat BY DEF PastSound
  <2>3. Aged(e) = [age |-> g.age + 1, rows |-> Seen(g.config.rungs, o)] BY <1>4, <2>1 DEF Aged
  <2>4. PICK f : f = [age |-> g.age + 1, config |-> g.config] OBVIOUS
  <2>5. f.age = g.age + 1 /\ f.config = g.config BY <2>4
  <2>6. g.age + 1 < TTL => f \in h2 BY <2>4
  <2>7. Aged(e).age = g.age + 1 BY <2>3
  <2>8. Aged(e) = [age |-> f.age, rows |-> Seen(f.config.rungs, o)] BY <2>3, <2>5
  <2> QED BY <2>2, <2>6, <2>7, <2>8 DEF RecentRungs
<1> QED BY <1>2, <1>3, <1>4

LEMMA TickKeeps ==
  ASSUME MatrixNames, RoutingIInv, Matrix!Tick
  PROVE  RoutingIInv'
<1>1. config' = config /\ changes' = changes /\ emit'.at # "emit" BY DEF Matrix!Tick
<1>2. past' = {[g EXCEPT !.age = @ + 1] : g \in {x \in past : x.age + 1 < TTL}} \cup {[age |-> 0, config |-> config]}
  BY DEF Matrix!Tick
<1>3. /\ PastSound(past', config, changes)
      /\ \A g \in past : g.age + 1 < TTL => [age |-> g.age + 1, config |-> g.config] \in past'
  BY <1>2, PastTicks DEF RoutingIInv
<1>4. caches' = [p \in {p1} |-> Kept(Aged(caches[p].topics), [o \in Tenants \cup {Every} |-> Aged(caches[p].rungs[o])],
                                     [o \in Tenants |-> Aged(caches[p].policies[o])])]
  BY DEF Matrix!Tick, Kept, Aged
<1>5. PICK k : k = caches'[p1] OBVIOUS
<1>6. k = Kept(Aged(caches[p1].topics), [o \in Tenants \cup {Every} |-> Aged(caches[p1].rungs[o])],
               [o \in Tenants |-> Aged(caches[p1].policies[o])])
  BY <1>4, <1>5
<1>7. /\ k.topics = Aged(caches[p1].topics)
      /\ k.rungs = [o \in Tenants \cup {Every} |-> Aged(caches[p1].rungs[o])]
      /\ k.policies = [o \in Tenants |-> Aged(caches[p1].policies[o])]
  BY <1>6 DEF Kept
<1>8. ASSUME NEW o \in Tenants
      PROVE  RecentPolicies(past', k.policies[o], o) /\ RecentRungs(past', k.rungs[o], o)
  <2>1. RecentPolicies(past, caches[p1].policies[o], o) /\ RecentRungs(past, caches[p1].rungs[o], o)
    BY DEF RoutingIInv, KeptRecent
  <2>2. k.policies[o] = Aged(caches[p1].policies[o]) /\ k.rungs[o] = Aged(caches[p1].rungs[o]) BY <1>7
  <2>3. PastSound(past, config, changes) BY DEF RoutingIInv
  <2> QED BY <1>3, <2>1, <2>2, <2>3, EntryTicks
<1>9. KeptRecent(past', k) BY <1>6, <1>7, <1>8 DEF KeptRecent
<1>10. caches' = [p \in {p1} |-> caches'[p]] BY <1>4
<1> QED BY <1>1, <1>3, <1>5, <1>9, <1>10 DEF RoutingIInv, Matrix!EmitsByRecentConfig

LEMMA ClearKeeps ==
  ASSUME MatrixNames, RoutingIInv, NEW p \in {p1}, Matrix!config_cache_clear(p)
  PROVE  RoutingIInv'
<1>1. config' = config /\ changes' = changes /\ past' = past /\ emit'.at # "emit" BY DEF Matrix!config_cache_clear
<1>2. caches' = [q \in {p1} |-> caches'[q]] /\ caches'[p1] = Matrix!NoCaches BY DEF Matrix!config_cache_clear, RoutingIInv
<1> QED BY <1>1, <1>2, NoneRecent DEF RoutingIInv, Matrix!EmitsByRecentConfig

\* What a query returns is what a configuration of the last TTL says, and so is what it leaves.
LEMMA ReadsPolicies ==
  ASSUME MatrixNames, PastSound(past, config, changes), NEW e, NEW o, RecentPolicies(past, e, o)
  PROVE  LET f == Matrix!ReadThrough(e, Matrix!PoliciesOf(o))
         IN  RecentPolicies(past, f, o) /\ \E g \in past : f.rows = Seen(g.config.policies, o)
<1>1. PICK f : f = Matrix!ReadThrough(e, Matrix!PoliciesOf(o)) OBVIOUS
<1>2. PICK g : g = [age |-> 0, config |-> config] OBVIOUS
<1>3. g \in past /\ g.age = 0 /\ g.config = config BY <1>2 DEF PastSound
<1>4. CASE e.age < TTL
  BY <1>1, <1>4 DEF RecentPolicies, Matrix!ReadThrough, Matrix!Fresh
<1>5. CASE ~ (e.age < TTL)
  <2>1. f = [age |-> g.age, rows |-> Seen(g.config.policies, o)]
    BY <1>1, <1>3, <1>5 DEF Matrix!ReadThrough, Matrix!Fresh, Matrix!Now, Matrix!PoliciesOf, Seen
  <2>2. f.age \in Nat /\ f.rows = Seen(g.config.policies, o) BY <1>3, <2>1
  <2> QED BY <1>1, <1>3, <2>1, <2>2 DEF RecentPolicies
<1> QED BY <1>4, <1>5

LEMMA ReadsRungs ==
  ASSUME MatrixNames, PastSound(past, config, changes), NEW e, NEW o, RecentRungs(past, e, o), NEW hits
  PROVE  LET f == Matrix!ReadOrRefresh(e, Matrix!RungsOf(o), hits)
         IN  RecentRungs(past, f, o) /\ \E g \in past : f.rows = Seen(g.config.rungs, o)
<1>1. PICK f : f = Matrix!ReadOrRefresh(e, Matrix!RungsOf(o), hits) OBVIOUS
<1>2. PICK g : g = [age |-> 0, config |-> config] OBVIOUS
<1>3. g \in past /\ g.age = 0 /\ g.config = config BY <1>2 DEF PastSound
<1>4. \/ e.age < TTL /\ f = e
      \/ f = Matrix!Now(Matrix!RungsOf(o))
  BY <1>1 DEF Matrix!ReadOrRefresh, Matrix!ReadThrough, Matrix!Fresh
<1>5. CASE e.age < TTL /\ f = e
  BY <1>1, <1>5 DEF RecentRungs
<1>6. CASE f = Matrix!Now(Matrix!RungsOf(o))
  <2>1. f = [age |-> g.age, rows |-> Seen(g.config.rungs, o)]
    BY <1>3, <1>6 DEF Matrix!Now, Matrix!RungsOf, Seen
  <2>2. f.age \in Nat /\ f.rows = Seen(g.config.rungs, o) BY <1>3, <2>1
  <2> QED BY <1>1, <1>3, <2>1, <2>2 DEF RecentRungs
<1> QED BY <1>4, <1>5, <1>6

\* What the process that emits keeps, wherever its checks end.
Asked(k, ts) == [k EXCEPT !.topics = ts]
Known(k, ts, every) == [Asked(k, ts) EXCEPT !.rungs = [@ EXCEPT ![Every] = every]]
Routed(k, ts, rungs, pe, o) == [topics |-> ts, policies |-> [k.policies EXCEPT ![o] = pe], rungs |-> rungs]

LEMMA KeptAfter ==
  ASSUME NEW h, NEW k, KeptRecent(h, k), NEW ts, NEW every, NEW o \in Tenants, Every \notin Tenants,
         NEW pe, RecentPolicies(h, pe, o), NEW re, RecentRungs(h, re, o)
  PROVE  /\ KeptRecent(h, Asked(k, ts)) /\ KeptRecent(h, Known(k, ts, every))
         /\ KeptRecent(h, Routed(k, ts, Known(k, ts, every).rungs, pe, o))
         /\ KeptRecent(h, Routed(k, ts, [Known(k, ts, every).rungs EXCEPT ![o] = re], pe, o))
<1>1. PICK rs, ps, t0 : /\ k = Kept(t0, rs, ps)
                        /\ rs = [x \in Tenants \cup {Every} |-> rs[x]] /\ ps = [x \in Tenants |-> ps[x]]
                        /\ \A x \in Tenants : RecentPolicies(h, ps[x], x) /\ RecentRungs(h, rs[x], x)
  BY DEF KeptRecent
<1> DEFINE Good(x) == KeptRecent(h, x)
<1>2. ASSUME NEW a, NEW b, NEW c, b = [x \in Tenants \cup {Every} |-> b[x]], c = [x \in Tenants |-> c[x]],
             \A x \in Tenants : RecentPolicies(h, c[x], x) /\ RecentRungs(h, b[x], x)
      PROVE  Good(Kept(a, b, c))
  <2>1. Kept(a, b, c).topics = a /\ Kept(a, b, c).rungs = b /\ Kept(a, b, c).policies = c BY DEF Kept
  <2>2. PICK q : q = Kept(a, b, c) OBVIOUS
  <2> QED BY <1>2, <2>1, <2>2 DEF KeptRecent
<1> HIDE DEF Good
<1>3. PICK rs1 : rs1 = [rs EXCEPT ![Every] = every] OBVIOUS
<1>4. PICK rs2 : rs2 = [rs1 EXCEPT ![o] = re] OBVIOUS
<1>5. PICK ps2 : ps2 = [ps EXCEPT ![o] = pe] OBVIOUS
<1>6. /\ rs1 = [x \in Tenants \cup {Every} |-> rs1[x]] /\ rs2 = [x \in Tenants \cup {Every} |-> rs2[x]]
      /\ ps2 = [x \in Tenants |-> ps2[x]]
  BY <1>1, <1>3, <1>4, <1>5
<1>7. \A x \in Tenants : rs1[x] = rs[x] BY <1>1, <1>3
<1>8. \A x \in Tenants : rs2[x] = IF x = o THEN re ELSE rs[x] BY <1>1, <1>3, <1>4, <1>7
<1>9. \A x \in Tenants : ps2[x] = IF x = o THEN pe ELSE ps[x] BY <1>1, <1>5
<1>10. Good(Kept(ts, rs, ps)) /\ Good(Kept(ts, rs1, ps)) /\ Good(Kept(ts, rs2, ps2)) /\ Good(Kept(ts, rs1, ps2))
  <2>1. \A x \in Tenants : RecentRungs(h, rs1[x], x) /\ RecentRungs(h, rs2[x], x) /\ RecentPolicies(h, ps2[x], x)
    BY <1>1, <1>7, <1>8, <1>9
  <2> QED BY <1>1, <1>2, <1>6, <2>1
<1>11. Asked(k, ts) = Kept(ts, rs, ps) BY <1>1 DEF Kept, Asked
<1>12. Known(k, ts, every) = Kept(ts, rs1, ps) BY <1>3, <1>11 DEF Kept, Known
<1>13. k.policies = ps /\ Kept(ts, rs1, ps).rungs = rs1 BY <1>1 DEF Kept
<1>14. \A rungs : Routed(k, ts, rungs, pe, o) = Kept(ts, rungs, ps2) BY <1>5, <1>13 DEF Kept, Routed
<1> QED BY <1>4, <1>10, <1>11, <1>12, <1>13, <1>14 DEF Good

LEMMA EmitKeeps ==
  ASSUME MatrixNames, RoutingIInv, NEW p \in {p1}, NEW o \in Tenants, NEW t, NEW i, Matrix!Emit(p, o, t, i)
  PROVE  RoutingIInv'
<1>1. p = p1 OBVIOUS
<1> DEFINE mine == caches[p1]
           rung == {r \in Matrix!Rung : r.key = i}
           topics == Matrix!ReadOrRefresh(mine.topics, config.topics, {t})
           every == Matrix!ReadOrRefresh(mine.rungs[Every], config.rungs, rung)
           policies == Matrix!ReadThrough(mine.policies[o], Matrix!PoliciesOf(o))
           own == Matrix!ReadOrRefresh(mine.rungs[o], Matrix!RungsOf(o), rung)
           asks == ~ \E r \in policies.rows : r.channel = Email /\ Matrix!Matches(r, t, i)
           asked == [mine EXCEPT !.topics = topics]
           known == [asked EXCEPT !.rungs = [@ EXCEPT ![Every] = every]]
           routed == [topics |-> topics, policies |-> [mine.policies EXCEPT ![o] = policies],
                      rungs |-> IF asks THEN [known.rungs EXCEPT ![o] = own] ELSE known.rungs]
           Decides(cache, what, channels) ==
             /\ caches' = [caches EXCEPT ![p] = cache]
             /\ emit' = [at |-> "emit", org |-> o, topic |-> t, importance |-> i,
                         decided |-> what, channels |-> channels]
<1>2. /\ \/ t \notin topics.rows /\ Decides(asked, "unknown_topic", <<>>)
         \/ rung \cap every.rows = {} /\ Decides(known, "unknown_importance", <<>>)
         \/ Decides(routed, "routed", Matrix!resolve_channels(policies.rows, own.rows, o, t, i))
      /\ config' = config /\ past' = past /\ changes' = changes
  BY <1>1, Zenon DEF Matrix!Emit
<1>3. rung = {r \in Matrix!Rung : r.key = i} OBVIOUS
<1>4. topics = Matrix!ReadOrRefresh(mine.topics, config.topics, {t}) OBVIOUS
<1>5. every = Matrix!ReadOrRefresh(mine.rungs[Every], config.rungs, rung) OBVIOUS
<1>6. policies = Matrix!ReadThrough(mine.policies[o], Matrix!PoliciesOf(o)) OBVIOUS
<1>7. own = Matrix!ReadOrRefresh(mine.rungs[o], Matrix!RungsOf(o), rung) OBVIOUS
<1>8. mine = caches[p1] OBVIOUS
<1>9. asked = Asked(mine, topics) BY DEF Asked
<1>10. known = Known(mine, topics, every) BY DEF Asked, Known
<1>11. \/ routed = Routed(mine, topics, known.rungs, policies, o)
       \/ routed = Routed(mine, topics, [known.rungs EXCEPT ![o] = own], policies, o)
  BY DEF Routed
<1> HIDE DEF mine, rung, topics, every, policies, own, asks, asked, known, routed
<1>13. PastSound(past, config, changes) /\ KeptRecent(past, mine) /\ Every \notin Tenants
  BY <1>8 DEF RoutingIInv, MatrixNames
<1>14. RecentPolicies(past, mine.policies[o], o) /\ RecentRungs(past, mine.rungs[o], o) BY <1>13 DEF KeptRecent
<1>15. RecentPolicies(past, policies, o) /\ \E g \in past : policies.rows = Seen(g.config.policies, o)
  BY <1>6, <1>13, <1>14, ReadsPolicies
<1>16. RecentRungs(past, own, o) /\ \E g \in past : own.rows = Seen(g.config.rungs, o)
  BY <1>7, <1>13, <1>14, ReadsRungs
<1>17. /\ KeptRecent(past, asked) /\ KeptRecent(past, known)
       /\ KeptRecent(past, Routed(mine, topics, known.rungs, policies, o))
       /\ KeptRecent(past, Routed(mine, topics, [known.rungs EXCEPT ![o] = own], policies, o))
  <2>1. KeptRecent(past, mine) /\ Every \notin Tenants /\ RecentPolicies(past, policies, o) /\ RecentRungs(past, own, o)
    BY <1>13, <1>15, <1>16
  <2> QED BY <1>9, <1>10, <2>1, KeptAfter
<1>18. KeptRecent(past, routed) BY <1>11, <1>17
<1>19. ASSUME NEW cache, KeptRecent(past, cache), caches' = [caches EXCEPT ![p] = cache], Matrix!EmitsByRecentConfig'
       PROVE  RoutingIInv'
  <2>1. caches' = [q \in {p1} |-> caches'[q]] /\ caches'[p1] = cache BY <1>1, <1>19 DEF RoutingIInv
  <2> QED BY <1>2, <1>13, <1>19, <2>1 DEF RoutingIInv
<1>20. ASSUME t \notin topics.rows, Decides(asked, "unknown_topic", <<>>) PROVE RoutingIInv'
  <2>1. t \notin config.topics
    BY <1>4, <1>20 DEF Matrix!ReadOrRefresh, Matrix!Now
  <2>2. emit'.decided = "unknown_topic" /\ emit'.topic = t BY <1>20
  <2>3. Matrix!EmitsByRecentConfig' BY <1>2, <2>1, <2>2 DEF Matrix!EmitsByRecentConfig
  <2> QED BY <1>17, <1>19, <1>20, <2>3
<1>21. ASSUME rung \cap every.rows = {}, Decides(known, "unknown_importance", <<>>) PROVE RoutingIInv'
  <2>1. rung \cap config.rungs = {}
    BY <1>5, <1>21 DEF Matrix!ReadOrRefresh, Matrix!Now
  <2>2. config.rungs \subseteq Matrix!Rung BY InForce DEF ConfigSound
  <2>3. ~ \E r \in config.rungs : r.key = i BY <1>3, <2>1, <2>2
  <2>4. emit'.decided = "unknown_importance" /\ emit'.importance = i BY <1>21
  <2>5. Matrix!EmitsByRecentConfig' BY <1>2, <2>3, <2>4 DEF Matrix!EmitsByRecentConfig
  <2> QED BY <1>17, <1>19, <1>21, <2>5
<1>22. ASSUME Decides(routed, "routed", Matrix!resolve_channels(policies.rows, own.rows, o, t, i)) PROVE RoutingIInv'
  <2>1. PICK g \in past : policies.rows = Seen(g.config.policies, o) BY <1>15
  <2>2. PICK h \in past : own.rows = Seen(h.config.rungs, o) BY <1>16
  <2>3. changes \in Nat /\ Numbered(changes, g.config.policies)
        /\ \A r, q \in h.config.rungs : r.org = q.org /\ r.key = q.key => r = q
    BY <1>13 DEF PastSound, ConfigSound
  <2>4. PICK c : c = [policies |-> g.config.policies, rungs |-> h.config.rungs] OBVIOUS
  <2>5. /\ emit'.decided = "routed" /\ emit'.org = o /\ emit'.topic = t /\ emit'.importance = i
        /\ emit'.channels = Matrix!resolve_channels(policies.rows, own.rows, o, t, i)
    BY <1>22
  <2>6. Matrix!RoutedBy(emit'.channels, c, o, t, i)
    <3>1. PICK P : P = g.config.policies OBVIOUS
    <3>2. PICK R : R = h.config.rungs OBVIOUS
    <3>3. PICK channels : channels = emit'.channels OBVIOUS
    <3>4. channels = Matrix!resolve_channels(Seen(P, o), Seen(R, o), o, t, i)
      BY <2>1, <2>2, <2>5, <3>1, <3>2, <3>3
    <3>5. PICK n \in Nat : n = changes BY <2>3
    <3>6. Numbered(n, P) /\ (\A r, q \in R : r.org = q.org /\ r.key = q.key => r = q)
          /\ c = [policies |-> P, rungs |-> R]
      BY <2>3, <2>4, <3>1, <3>2, <3>5
    <3> QED BY <3>3, <3>4, <3>6, ResolvesByTiers
  <2>7. Matrix!EmitsByRecentConfig'
    <3>1. past' = past BY <1>2
    <3>2. Matrix!RoutedBy(emit'.channels, Matrix!Moment(g, h), emit'.org, emit'.topic, emit'.importance)
      BY <2>4, <2>5, <2>6 DEF Matrix!Moment
    <3> QED BY <1>2, <2>5, <3>1, <3>2 DEF Matrix!EmitsByRecentConfig
  <2> QED BY <1>18, <1>19, <1>22, <2>7
<1> QED BY <1>2, <1>20, <1>21, <1>22

LEMMA RoutingStepIInv ==
  ASSUME MatrixNames, RoutingIInv, [Matrix!Next]_(Matrix!routing)
  PROVE  RoutingIInv'
<1>1. CASE \/ \E t \in Topics : Matrix!SeedTopic(t)
           \/ \E r \in Matrix!Rung : Matrix!SaveRung(r) \/ Matrix!DropRung(r)
           \/ \E o \in Matrix!Owners, cell \in Written : Matrix!AddPolicy(o, cell)
           \/ \E r \in config.policies : Matrix!DropPolicy(r)
  BY <1>1, AdministratorKeeps
<1>2. CASE Matrix!Tick BY <1>2, TickKeeps
<1>3. CASE \E p \in {p1} : Matrix!config_cache_clear(p) BY <1>3, ClearKeeps
<1>4. CASE \E p \in {p1}, o \in Tenants, t \in Topics, i \in Rungs : Matrix!Emit(p, o, t, i) BY <1>4, EmitKeeps
<1>5. CASE UNCHANGED Matrix!routing
  BY <1>5 DEF Matrix!routing, RoutingIInv, Matrix!EmitsByRecentConfig
<1> QED BY <1>1, <1>2, <1>3, <1>4, <1>5 DEF Matrix!Next

-----------------------------------------------------------------------------
(* A behavior of MCNotifications is a behavior of one component.            *)

LEMMA PartKept == [Next]_all => part' = part
<1>1. Next => part' = part BY DEF Next
<1>2. UNCHANGED all => part' = part BY DEF all
<1> QED BY <1>1, <1>2

LEMMA PlacementSteps == part = "placement" /\ [Next]_all => [Place!Next]_(Place!placement)
<1>1. part = "placement" /\ Next => Place!Next BY DEF Next
<1>2. UNCHANGED all => UNCHANGED Place!placement BY DEF all, placementVars, Place!placement
<1> QED BY <1>1, <1>2

LEMMA InboxSteps == part = "inbox" /\ Next => Bell!Next
  BY DEF Next

LEMMA InboxIdles == UNCHANGED all => UNCHANGED Bell!vars
  BY DEF all, inboxVars, Bell!vars

LEMMA InboxInvSteps == UsersAreFinite /\ (part = "inbox" => InboxIInv) /\ [Next]_all => (part = "inbox" => InboxIInv)'
<1> SUFFICES ASSUME UsersAreFinite, part = "inbox" => InboxIInv, [Next]_all, part' = "inbox" PROVE InboxIInv' OBVIOUS
<1>1. part = "inbox" BY PartKept
<1>2. CASE Next BY <1>1, <1>2, InboxSteps, InboxStepIInv
<1>3. CASE UNCHANGED all BY <1>1, <1>3, InboxIdles, InboxStutters
<1> QED BY <1>2, <1>3

\* For any users, orgs, keys, producers and numbers of emits: of two live rows about the same
\* thing, one of them inserted by an emit that asked to coalesce, the other came into the inbox
\* after that emit had looked.
THEOREM TwinsTheorem == Spec => []TwinsCrossed
<1> DEFINE Inv == part = "inbox" => InboxIInv
<1>1. Init => Inv BY InboxInitIInv DEF Init
<1>2. Inv /\ [Next]_all => Inv' BY InboxInvSteps, InboxAssumption
<1>3. Inv => TwinsCrossed BY DEF InboxIInv, LiveCameSince, SameAs, TwinsCrossed, Bell!TwinsCrossed
<1> QED BY <1>1, <1>2, <1>3, PTL DEF Spec

\* On the same terms: whatever other transactions did since it looked, an emit that commits
\* reaches each of its recipients in exactly one row and nobody else in any, queues a delivery
\* for each row it inserts and each external channel, and rewrites no row of another recipient,
\* org or subject, nor one that had left the inbox before it looked.
THEOREM EmitsTheorem == Spec => EmitsReachTheirOwn
<1> DEFINE Inv == part = "inbox" => InboxIInv
           Act == part = "inbox" => Bell!EmitIsWhole /\ Bell!RewriteStaysHome
<1>1. Init => Inv BY InboxInitIInv DEF Init
<1>2. Inv /\ [Next]_all => Inv' BY InboxInvSteps, InboxAssumption
<1>3. Inv /\ [Next]_all => [Act]_all
  <2> SUFFICES ASSUME Inv, Next, part = "inbox" PROVE Bell!EmitIsWhole /\ Bell!RewriteStaysHome OBVIOUS
  <2> QED BY InboxSteps, InboxStepIInv, InboxAssumption
<1> QED BY <1>1, <1>2, <1>3, PTL DEF Spec, EmitsReachTheirOwn

LEMMA RoutingSteps == part = "routing" /\ [Next]_all => [Matrix!Next]_(Matrix!routing)
<1>1. part = "routing" /\ Next => Matrix!Next BY DEF Next
<1>2. UNCHANGED all => UNCHANGED Matrix!routing BY DEF all, routingVars, Matrix!routing
<1> QED BY <1>1, <1>2

\* For any orgs, topics, rungs, time to live, and numbers of changes and ticks: an emit is never
\* refused for a topic or a rung that is in the table, and one that is routed goes to the
\* channels that the cells and the rungs of two moments of the last TTL give it, the cells ranked
\* by how much they state, then the org's own before the platform's, then the newest.
THEOREM RoutedTheorem == Spec => []EmitsByRecentConfig
<1> DEFINE Inv == part = "routing" => RoutingIInv
<1>1. Init => Inv BY MatrixInitIInv, MatrixAssumption DEF Init
<1>2. Inv /\ [Next]_all => Inv'
  <2> SUFFICES ASSUME Inv, [Next]_all, part' = "routing" PROVE RoutingIInv' OBVIOUS
  <2>1. part = "routing" BY PartKept
  <2> QED BY <2>1, RoutingSteps, RoutingStepIInv, MatrixAssumption
<1>3. Inv => EmitsByRecentConfig BY DEF RoutingIInv, EmitsByRecentConfig
<1> QED BY <1>1, <1>2, <1>3, PTL DEF Spec

LEMMA AdoptionSteps == part = "adoption" /\ [Next]_all => [Adopt!Next]_(Adopt!adoption)
<1>1. part = "adoption" /\ Next => Adopt!Next BY DEF Next
<1>2. UNCHANGED all => UNCHANGED Adopt!adoption BY DEF all, adoptionVars, Adopt!adoption
<1> QED BY <1>1, <1>2

\* For any schemas, settings and number of calls: whatever step of a migrate() fails, it leaves
\* the connection's path as it found it, and one that is done has placed the tables in the
\* schema it named and given both of its tenant tables the policy it asked for.
THEOREM PlacedTheorem == Spec => []PlacedWhereAsked
<1> DEFINE Inv == part = "placement" => PlacementIInv
<1>1. Init => Inv BY PlacementInitIInv DEF Init
<1>2. Inv /\ [Next]_all => Inv'
  <2> SUFFICES ASSUME Inv, [Next]_all, part' = "placement" PROVE PlacementIInv' OBVIOUS
  <2>1. part = "placement" BY PartKept
  <2> QED BY <2>1, PlacementSteps, PlacementStepIInv, PlacementAssumption
<1>3. Inv => PlacedWhereAsked BY DEF PlacementIInv, PlacedWhereAsked
<1> QED BY <1>1, <1>2, <1>3, PTL DEF Spec

\* For each package, and any number of partial restores: a boot that reports success stands on
\* the package's whole schema, and one that is refused was refused for something missing.
THEOREM AdoptionTheorem == Spec => []AdoptsExactlyTheWhole
<1> DEFINE Inv == part = "adoption" => AdoptionIInv
<1>1. Init => Inv BY AdoptionInitIInv DEF Init
<1>2. Inv /\ [Next]_all => Inv'
  <2> SUFFICES ASSUME Inv, [Next]_all, part' = "adoption" PROVE AdoptionIInv' OBVIOUS
  <2>1. part = "adoption" BY PartKept
  <2> QED BY <2>1, AdoptionSteps, AdoptionStepIInv
<1>3. Inv => AdoptsExactlyTheWhole BY DEF AdoptionIInv, AdoptsExactlyTheWhole
<1> QED BY <1>1, <1>2, <1>3, PTL DEF Spec
=============================================================================
