---------------------------- MODULE SearchIndex ----------------------------
(***************************************************************************)
(* The deep content index of asas-search: search_document, one document a  *)
(* source row, written by upsert/delete inside the host's transaction,     *)
(* derived again by rebuild, and given vectors by the embed_pending sweep  *)
(* of each replica.  The sweep reads the texts, calls the provider with no *)
(* lock held, and writes by document id; a replica has a query vector      *)
(* cache of its own.                                                       *)
(***************************************************************************)
EXTENDS Naturals, FiniteSets

CONSTANTS
    Sources,   \* rows of the host that have a document each
    Texts,     \* what such a row may say
    OrgOf,     \* and the org it then belongs to, kept with the document
    Models,    \* embedding models
    Replicas,  \* processes of the host
    Blank,     \* an empty text, or the row is gone
    Absent,    \* NULL: no vector, no provider, nothing waiting
    MaxWrites, \* bound: host transactions
    MaxBuilds  \* bound: rebuilds

Contents == Texts \cup {Blank}

VARIABLES
    text,     \* the committed text of each source row
    docs,     \* committed documents
    lastId,   \* the sequence behind search_document.id
    rebuilt,  \* the open rebuild: what it deleted, read, and wrote so far
    blocked,  \* a host transaction waiting for the rebuild to end: the text it writes
    model,    \* the model of each replica's provider
    sweep,    \* each replica's sweep: the batch it read, the vectors it has set
    asking,   \* each replica's query: the vector it compares with
    remembered, \* each replica's _query_cache
    adrift,   \* history: sources whose document no upsert since has made good
    writes, builds

index == <<text, docs, lastId, rebuilt, blocked, model, sweep, asking, remembered,
           adrift, writes, builds>>

Idle == [open |-> FALSE, batch |-> {}, set |-> {}]
NoBuild == [open |-> FALSE, doomed |-> {}, read |-> {}, done |-> {}, made |-> {}]

Init ==
    /\ text \in [Sources -> Contents] /\ docs = {} /\ lastId = 0
    /\ rebuilt = NoBuild /\ blocked = [s \in Sources |-> Absent]
    /\ model = [r \in Replicas |-> Absent]
    /\ sweep = [r \in Replicas |-> Idle]
    /\ asking = [r \in Replicas |-> Absent] /\ remembered = [r \in Replicas |-> Absent]
    /\ adrift = {s \in Sources : text[s] # Blank}
    /\ writes = 0 /\ builds = 0

DocsOf(s, ds) == {d \in ds : d.source = s}
SetBy(r) == {v.id : v \in sweep[r].set}
Swept(s) == \E r \in Replicas : \E d \in DocsOf(s, docs) : d.id \in SetBy(r)
Doomed(s) == \E d \in DocsOf(s, docs) : d.id \in rebuilt.doomed

-----------------------------------------------------------------------------

\* upsert: DELETE by (source, source_id), then INSERT unless the text is empty.
Replaced(ds, s, c) ==
    (ds \ DocsOf(s, ds))
      \cup (IF c = Blank THEN {} ELSE {[id |-> lastId + 1, source |-> s, content |-> c, vector |-> Absent]})

\* The open rebuild holds the rows it deleted and the keys of those it inserted.
Contested(s, c) == rebuilt.open /\ (Doomed(s) \/ (c # Blank /\ DocsOf(s, rebuilt.made) # {}))

\* The host writes a row and its listener upserts the document, one transaction.
Write(s, c) ==
    /\ writes < MaxWrites /\ writes' = writes + 1
    /\ blocked[s] = Absent /\ c # text[s]
    /\ IF Contested(s, c)
       THEN /\ blocked' = [blocked EXCEPT ![s] = [content |-> c, found |-> DocsOf(s, docs)]]
            /\ UNCHANGED <<text, docs, lastId, adrift>>
       ELSE /\ ~Swept(s)
            /\ text' = [text EXCEPT ![s] = c]
            /\ docs' = Replaced(docs, s, c) /\ lastId' = lastId + 1
            /\ adrift' = IF rebuilt.open THEN adrift \cup {s} ELSE adrift \ {s}
            /\ UNCHANGED blocked
    /\ UNCHANGED <<rebuilt, model, sweep, asking, remembered, builds>>

\* The rebuild is over.  The statement deletes the row it had found, if that is still
\* there; a row of the rebuild is newer than the statement, and its key is taken.
Resume(s) ==
    /\ blocked[s] # Absent /\ ~rebuilt.open
    /\ blocked' = [blocked EXCEPT ![s] = Absent]
    /\ LET c == blocked[s].content
           found == {f.id : f \in blocked[s].found}
           newer == {d \in DocsOf(s, docs) : d.id \notin found}
       IN IF newer = {}
          THEN /\ ~Swept(s)
               /\ text' = [text EXCEPT ![s] = c]
               /\ docs' = Replaced(docs, s, c) /\ lastId' = lastId + 1
               /\ adrift' = adrift \ {s}
          ELSE IF c = Blank
          THEN text' = [text EXCEPT ![s] = c] /\ adrift' = adrift \cup {s} /\ UNCHANGED <<docs, lastId>>
          ELSE UNCHANGED <<text, docs, lastId, adrift>>
    /\ UNCHANGED <<rebuilt, model, sweep, asking, remembered, writes, builds>>

-----------------------------------------------------------------------------
\* rebuild: DELETE every document; the extractor then reads every row at once.
Rebuild ==
    /\ ~rebuilt.open /\ builds < MaxBuilds /\ builds' = builds + 1
    /\ \A s \in Sources : ~Swept(s) /\ blocked[s] = Absent
    /\ rebuilt' = [open |-> TRUE, doomed |-> {d.id : d \in docs}, read |-> {}, done |-> {}, made |-> {}]
    /\ UNCHANGED <<text, docs, lastId, blocked, model, sweep, asking, remembered, adrift, writes>>

Extract ==
    /\ rebuilt.open /\ rebuilt.read = {}
    /\ rebuilt' = [rebuilt EXCEPT !.read = {[source |-> s, content |-> text[s]] : s \in Sources}]
    /\ UNCHANGED <<text, docs, lastId, blocked, model, sweep, asking, remembered, adrift, writes, builds>>

\* upsert of one extracted document: it also deletes what committed since.
Derive(e) ==
    /\ rebuilt.open /\ e \in rebuilt.read /\ e.source \notin rebuilt.done /\ ~Swept(e.source)
    /\ rebuilt' = [rebuilt EXCEPT
         !.doomed = @ \cup {d.id : d \in DocsOf(e.source, docs)},
         !.done = @ \cup {e.source},
         !.made = @ \cup Replaced({}, e.source, e.content)]
    /\ lastId' = lastId + 1
    /\ UNCHANGED <<text, docs, blocked, model, sweep, asking, remembered, adrift, writes, builds>>

\* The commit.  What was neither written meanwhile nor is still waiting is made good.
Built ==
    /\ rebuilt.open /\ rebuilt.read # {} /\ rebuilt.done = Sources
    /\ docs' = {d \in docs : d.id \notin rebuilt.doomed} \cup rebuilt.made
    /\ adrift' = {e.source : e \in {f \in rebuilt.read : f.content # text[f.source]}}
    /\ rebuilt' = NoBuild
    /\ UNCHANGED <<text, lastId, blocked, model, sweep, asking, remembered, writes, builds>>

BuildFails ==
    /\ rebuilt.open /\ rebuilt' = NoBuild
    /\ UNCHANGED <<text, docs, lastId, blocked, model, sweep, asking, remembered, adrift, writes, builds>>

-----------------------------------------------------------------------------
\* The documents as the transaction of r's sweep reads them: its own sets included.
SeenBy(r) == {IF d.id \in SetBy(r) THEN [d EXCEPT !.vector = (CHOOSE v \in sweep[r].set : v.id = d.id).vector]
              ELSE d : d \in docs}
Pending(r) == {d \in SeenBy(r) : d.vector = Absent \/ d.vector.model # model[r]}

\* embed_pending: read a batch, and call the provider; nothing pending ends it.
SweepReads(r) ==
    /\ model[r] # Absent /\ sweep[r].batch = {}
    /\ sweep[r].open \/ Pending(r) # {}
    /\ IF Pending(r) # {}
       THEN sweep' = [sweep EXCEPT ![r] = [@ EXCEPT !.open = TRUE, !.batch = Pending(r)]] /\ UNCHANGED docs
       ELSE docs' = SeenBy(r) /\ sweep' = [sweep EXCEPT ![r] = Idle]
    /\ UNCHANGED <<text, lastId, rebuilt, blocked, model, asking, remembered, adrift, writes, builds>>

\* The vectors are written one by one by id; a row that is gone takes none.  A row
\* another transaction holds is waited for.
Embedded(r) == {[id |-> d.id, vector |-> [of |-> d.content, model |-> model[r]]] : d \in sweep[r].batch}
SweepSets(r) ==
    /\ sweep[r].batch # {}
    /\ \A d \in sweep[r].batch : /\ ~(rebuilt.open /\ d.id \in rebuilt.doomed)
                                 /\ \A o \in Replicas \ {r} : d.id \notin SetBy(o)
    /\ LET new == {v \in Embedded(r) : \E d \in docs : d.id = v.id}
           ids == {v.id : v \in new}
       IN sweep' = [sweep EXCEPT ![r] = [open |-> TRUE, batch |-> {},
                      set |-> {v \in @.set : v.id \notin ids} \cup new]]
    /\ UNCHANGED <<text, docs, lastId, rebuilt, blocked, model, asking, remembered, adrift, writes, builds>>

\* The provider fails, or the caller's transaction does: all the sets are undone.
SweepFails(r) ==
    /\ sweep[r].open /\ sweep' = [sweep EXCEPT ![r] = Idle]
    /\ UNCHANGED <<text, docs, lastId, rebuilt, blocked, model, asking, remembered, adrift, writes, builds>>

-----------------------------------------------------------------------------
\* Mutant: the cache is left as it is.
StillRemembered(r) == remembered
\* The cache of the replaced provider is cleared.
Forgotten(r) == [remembered EXCEPT ![r] = Absent]
\* configure, by the wiring of a replica that is doing nothing else.
configure(r, m) ==
    /\ sweep[r] = Idle /\ asking[r] = Absent /\ m # model[r]
    /\ model' = [model EXCEPT ![r] = m]
    /\ remembered' = Forgotten(r)
    /\ UNCHANGED <<text, docs, lastId, rebuilt, blocked, sweep, asking, adrift, writes, builds>>

\* _query_vector: the remembered vector of the query, or the provider's; knn falls
\* back to no rows when the provider fails.
QueryVector(r) ==
    /\ model[r] # Absent /\ asking[r] = Absent
    /\ asking' = [asking EXCEPT ![r] = IF remembered[r] # Absent THEN remembered[r] ELSE model[r]]
    /\ remembered' = [remembered EXCEPT ![r] = asking'[r]]
    /\ UNCHANGED <<text, docs, lastId, rebuilt, blocked, model, sweep, adrift, writes, builds>>

\* knn: the documents whose vectors are compared with the query's.
Nearest(r) == {d \in docs : d.vector # Absent /\ d.vector.model = model[r]}
\* The documents of the caller's org that the words of the query may find.
Lexical(o) == {d \in docs : OrgOf[d.content] = o}
\* make_provider: both arms, for a caller with an org; without one there are no hits.
Hits(r, o) ==
    IF o = Absent THEN {}
    ELSE {d.source : d \in Lexical(o) \cup (IF asking[r] = Absent THEN {} ELSE {n \in Nearest(r) : OrgOf[n.content] = o})}
Answer(r) ==
    /\ asking[r] # Absent /\ asking' = [asking EXCEPT ![r] = Absent]
    /\ UNCHANGED <<text, docs, lastId, rebuilt, blocked, model, sweep, remembered, adrift, writes, builds>>

Next ==
    \/ \E s \in Sources : Resume(s) \/ \E c \in Contents : Write(s, c)
    \/ Rebuild \/ Extract \/ Built \/ BuildFails
    \/ \E e \in rebuilt.read : Derive(e)
    \/ \E r \in Replicas : \/ SweepReads(r) \/ SweepSets(r) \/ SweepFails(r)
                           \/ QueryVector(r) \/ Answer(r)
                           \/ \E m \in Models \cup {Absent} : configure(r, m)

Spec == Init /\ [][Next]_index

-----------------------------------------------------------------------------
(* A document never carries a vector of another text, however the sweep's   *)
(* provider call interleaves with edits, rebuilds and other sweeps, and a   *)
(* query's vector is only ever compared with vectors of the same model      *)
(* (semantic.py: the sweep writes by id alone, vector spaces never mix).    *)
VectorsMatchTheirText ==
    /\ \A d \in docs : d.vector # Absent => d.vector.of = d.content
    /\ \A r \in Replicas : asking[r] # Absent =>
         \A d \in Nearest(r) : d.vector.model = asking[r]

(* Apart from the sources adrift, every row with text has exactly one       *)
(* document, saying what the row says, and no other row has one.  Adrift    *)
(* are the rows no upsert has seen yet, and those written while a rebuild   *)
(* was open: the rebuild indexes what it had read of them.                  *)
IndexFollowsItsSources ==
    /\ \A s \in Sources : Cardinality(DocsOf(s, docs)) <= 1
    /\ \A s \in Sources \ adrift :
         {d.content : d \in DocsOf(s, docs)} = {text[s]} \ {Blank}

\* Whoever searches finds rows of their own org only, as the rows stand now.
HitsAreOfTheOrg ==
    \A r \in Replicas, o \in {OrgOf[c] : c \in Texts} \cup {Absent} :
        \A s \in Hits(r, o) \ adrift : text[s] # Blank /\ OrgOf[text[s]] = o

\* Together: whatever the index answers with is what its sources say.
IndexMatchesItsSources == VectorsMatchTheirText /\ IndexFollowsItsSources /\ HitsAreOfTheOrg
=============================================================================
