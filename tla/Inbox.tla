-------------------------------- MODULE Inbox --------------------------------
(***************************************************************************)
(* The inbox of asas-notifications: notify in the producer's transaction,  *)
(* with coalescing, and what recipients do to their rows meanwhile.  A     *)
(* producer reads the rows it will fold into, and writes when its          *)
(* transaction commits; other transactions commit in between.  A           *)
(* recipient's operation reads and writes in one step: it writes one       *)
(* column of one row, or is one UPDATE.                                    *)
(***************************************************************************)
EXTENDS Naturals, Sequences, FiniteSets

CONSTANTS
    Users, Orgs,
    Keys,       \* (action, entity_type, entity_id) of an emit that names all three
    NoKey,      \* an emit without action or entity
    NoOrg,      \* no org in the request's context, or none passed
    Producers,  \* transactions that call notify
    Channels,   \* external channels
    MaxEmits,   \* bound: calls of notify
    MaxMarks    \* bound: operations of recipients that change a row

Emits == 1 .. MaxEmits

VARIABLES
    rows,       \* notification, in the order of the ids
    deliveries, \* notification_delivery: the rows and channels still to be sent
    emits,      \* calls of notify so far; the clock created_at is read from
    pc,         \* each producer: idle, or between its reads and its commit
    local,      \* what notify holds
    left,       \* history: the clock when a row was last read or archived
    back,       \* history: the clock when a row last came into the open inbox
    born,       \* history: the emit that inserted a row, if it asked to coalesce, or 0
    marks,      \* recipients' changes so far
    by          \* history: who made the last step

vars == <<rows, deliveries, emits, pc, local, left, back, born, marks, by>>

Idle == [event |-> 0, org |-> NoOrg, key |-> NoKey, coalesce |-> FALSE,
         fold |-> <<>>, insert |-> {}, external |-> {}]

Init ==
    /\ rows = <<>> /\ deliveries = {}
    /\ emits = 0 /\ marks = 0
    /\ pc = [p \in Producers |-> "idle"]
    /\ local = [p \in Producers |-> Idle]
    /\ left = <<>> /\ back = <<>> /\ born = <<>>
    /\ by = [who |-> "nobody"]

Ids == 1 .. Len(rows)
Live(r) == ~ rows[r].read /\ ~ rows[r].archived

-----------------------------------------------------------------------------
(* notify.                                                                  *)

\* Mutant: the org is not part of the coalesce identity.
SameKeyAnyOrg(r, u, o, k) == rows[r].user = u /\ rows[r].key = k
\* The coalesce identity.
SameKey(r, u, o, k) == rows[r].user = u /\ rows[r].org = o /\ rows[r].key = k

\* The rows an emit may fold into.
Candidates(u, o, k) == {r \in Ids : SameKey(r, u, o, k) /\ Live(r)}

\* The row the query returns first: ORDER BY created_at DESC.
Newest(S) == CHOOSE r \in S : \A q \in S : rows[q].created_at <= rows[r].created_at

\* The recipients an emit can have: everyone named but the actor, cut to those the
\* host's filter lets know.
Recipients == {(named \ {actor}) \cap allowed :
                  named \in SUBSET Users, actor \in Users \cup {NoKey}, allowed \in SUBSET Users}

\* Only an ambient emit with a whole key coalesces.
Coalesces(asked, k, external) == asked /\ external = {} /\ k # NoKey

\* The call up to its last query: an emit that is muted, suppressed, refused or
\* addressed to nobody writes nothing.
Notify(p, o, k, ids, external, asked) ==
    LET known == IF Coalesces(asked, k, external)
                 THEN {u \in ids : Candidates(u, o, k) # {}} ELSE {}
    IN  /\ pc[p] = "idle" /\ emits < MaxEmits
        /\ ids # {}
        /\ emits' = emits + 1
        /\ pc' = [pc EXCEPT ![p] = "emitted"]
        /\ local' = [local EXCEPT ![p] =
              [event |-> emits', org |-> o, key |-> k, coalesce |-> Coalesces(asked, k, external),
               fold |-> [u \in known |-> Newest(Candidates(u, o, k))],
               insert |-> ids \ known, external |-> external]]
        /\ by' = [who |-> "producer"]
        /\ UNCHANGED <<rows, deliveries, left, back, born, marks>>

\* The UPDATE of a folded row by its id: the columns notify assigned, whatever the row
\* holds by now.
Folded(row, l) == [row EXCEPT !.event = l.event, !.created_at = l.event]

New(u, l) == [user |-> u, org |-> l.org, key |-> l.key, event |-> l.event,
              created_at |-> l.event, read |-> FALSE, archived |-> FALSE]

\* Mutant: a recipient whose row was folded also gets a new one.
InsertAll(l) == l.insert \cup DOMAIN l.fold
\* The recipients who get a row of their own.
Inserted(l) == l.insert

\* The folded rows are updated and the new ones inserted, in the order of their ids.
Write(l, order) ==
    LET folds == {l.fold[u] : u \in DOMAIN l.fold}
        updated == [r \in Ids |-> IF r \in folds THEN Folded(rows[r], l) ELSE rows[r]]
    IN  /\ rows' = updated \o [i \in DOMAIN order |-> New(order[i], l)]
        /\ deliveries' = deliveries \cup
              {[row |-> Len(rows) + i, channel |-> c] : i \in DOMAIN order, c \in l.external}
        /\ left' = left \o [i \in DOMAIN order |-> 0]
        /\ back' = back \o [i \in DOMAIN order |-> emits]
        /\ born' = born \o [i \in DOMAIN order |-> IF l.coalesce THEN l.event ELSE 0]

Commit(p) ==
    LET l == local[p]
    IN  /\ pc[p] = "emitted"
        /\ \E order \in [1 .. Cardinality(Inserted(l)) -> Inserted(l)] :
              (\A i, j \in DOMAIN order : order[i] = order[j] => i = j) /\ Write(l, order)
        /\ pc' = [pc EXCEPT ![p] = "idle"]
        /\ local' = [local EXCEPT ![p] = Idle]
        /\ by' = [who |-> "commit", event |-> l.event, org |-> l.org, key |-> l.key,
                  users |-> l.insert \cup DOMAIN l.fold, external |-> l.external]
        /\ UNCHANGED <<emits, marks>>

\* The producer's transaction rolls back, and the notification with it.
Rollback(p) ==
    /\ pc[p] = "emitted"
    /\ pc' = [pc EXCEPT ![p] = "idle"]
    /\ local' = [local EXCEPT ![p] = Idle]
    /\ by' = [who |-> "producer"]
    /\ UNCHANGED <<rows, deliveries, emits, left, back, born, marks>>

-----------------------------------------------------------------------------
(* A recipient's operations; o is the org of the request's context.         *)

\* _owned, and the WHERE of _recipient_conditions.
Owned(r, u, o) == rows[r].user = u /\ (o # NoOrg => rows[r].org = o)

\* The rows R get the marks; a row that leaves the unread inbox does so now.
Marked(u, o, R, read, archived) ==
    /\ R # {} /\ marks < MaxMarks
    /\ rows' = [r \in Ids |-> IF r \in R THEN [rows[r] EXCEPT !.read = read[r], !.archived = archived[r]]
                              ELSE rows[r]]
    /\ left' = [r \in Ids |-> IF r \in R /\ (read[r] \/ archived[r]) THEN emits ELSE left[r]]
    /\ back' = [r \in Ids |-> IF r \in R /\ rows[r].archived /\ ~ archived[r] THEN emits ELSE back[r]]
    /\ marks' = marks + 1
    /\ by' = [who |-> "recipient", user |-> u, org |-> o]
    /\ UNCHANGED <<deliveries, emits, pc, local, born>>

Reads == [r \in Ids |-> rows[r].read]
Archives == [r \in Ids |-> rows[r].archived]
AllTrue == [r \in Ids |-> TRUE]
AllFalse == [r \in Ids |-> FALSE]

mark_read(u, o) == \E r \in Ids : Owned(r, u, o) /\ ~ rows[r].read /\ Marked(u, o, {r}, AllTrue, Archives)
archive(u, o) == \E r \in Ids : Owned(r, u, o) /\ ~ rows[r].archived /\ Marked(u, o, {r}, Reads, AllTrue)
unarchive(u, o) == \E r \in Ids : Owned(r, u, o) /\ rows[r].archived /\ Marked(u, o, {r}, Reads, AllFalse)

\* Every unread row, archived ones included.
mark_all_read(u, o) == Marked(u, o, {r \in Ids : Owned(r, u, o) /\ ~ rows[r].read}, AllTrue, Archives)
\* The read rows still in the inbox.
archive_read(u, o) ==
    Marked(u, o, {r \in Ids : Owned(r, u, o) /\ rows[r].read /\ ~ rows[r].archived}, Reads, AllTrue)

RecipientStep(u, o) ==
    mark_read(u, o) \/ archive(u, o) \/ unarchive(u, o) \/ mark_all_read(u, o) \/ archive_read(u, o)

Next ==
    \/ \E p \in Producers, o \in Orgs, k \in Keys \cup {NoKey}, ids \in Recipients,
          external \in SUBSET Channels, asked \in BOOLEAN : Notify(p, o, k, ids, external, asked)
    \/ \E p \in Producers : Commit(p) \/ Rollback(p)
    \/ \E u \in Users, o \in Orgs \cup {NoOrg} : RecipientStep(u, o)

Spec == Init /\ [][Next]_vars

-----------------------------------------------------------------------------
(* Properties.                                                              *)

Content(row) == <<row.event, row.created_at>>
MarksOf(row) == <<row.read, row.archived>>

\* "An edit burst stays one live bell entry", as far as it is true: of two live rows
\* of the same recipient, org and key, one inserted by an emit that asked to coalesce,
\* the other came into the open inbox after that emit had looked.  It was inserted by
\* a transaction that overlapped, or unarchived.
TwinsCrossed ==
    \A r, q \in Ids :
        (/\ r # q /\ Live(r) /\ Live(q) /\ born[q] # 0
         /\ rows[r].user = rows[q].user /\ rows[r].org = rows[q].org /\ rows[r].key = rows[q].key)
        => back[r] >= born[q]

\* An emit reaches each of its recipients in exactly one row and nobody else in any,
\* whatever other transactions did since it looked; it queues one delivery for each
\* row it inserts and each external channel, and none for a row it folded into.
EmitIsWhole ==
    by'.who = "commit" =>
     LET took == {r \in 1 .. Len(rows') : rows'[r].event = by'.event}
     IN  /\ {rows'[r].user : r \in took} = by'.users
         /\ Cardinality(took) = Cardinality(by'.users)
         /\ deliveries' \ deliveries = {[row |-> r, channel |-> c] : r \in took \ Ids, c \in by'.external}

\* What a row says is rewritten only by an emit to the same recipient in the same org
\* about the same thing, and never a row that had left the inbox before the emit
\* looked; whether it is read or archived changes only by its recipient, in the org
\* of the request if there is one.
RewriteStaysHome ==
    \A r \in Ids :
     /\ Content(rows'[r]) # Content(rows[r]) =>
           /\ by'.who = "commit"
           /\ rows[r].user \in by'.users /\ rows[r].org = by'.org /\ rows[r].key = by'.key
           /\ Live(r) \/ left[r] >= by'.event
     /\ MarksOf(rows'[r]) # MarksOf(rows[r]) =>
           /\ by'.who = "recipient" /\ rows[r].user = by'.user
           /\ by'.org \in {rows[r].org, NoOrg}

\* Every emit reaches its own, whole, and nobody's row changes otherwise.
EmitsReachTheirOwn == [][EmitIsWhole /\ RewriteStaysHome]_vars
=============================================================================
