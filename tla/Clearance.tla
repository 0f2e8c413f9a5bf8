------------------------------ MODULE Clearance ------------------------------
(***************************************************************************)
(* The mandatory access layer of asas-access (mac.py): who may see one     *)
(* record, given an org's catalog of levels, the stamps on the record and  *)
(* the clearance of the subject, all of which administrators change.  The  *)
(* process keeps the catalogs, which an edit committed here clears a       *)
(* moment later and one committed in another process never does; a session *)
(* keeps the stamps it has read.                                           *)
(***************************************************************************)
EXTENDS Naturals, FiniteSets

CONSTANTS
    Owners,     \* orgs
    NoOwner,    \* an org nobody names
    Ladder,     \* codes of clearance levels
    Ranks,      \* ranks a level may have
    Unlevelled, \* no level: a record's, or a subject's
    Compartments, \* codes of markings
    MaxEdits    \* bound: changes of an administrator

VARIABLES
    catalog,    \* clearance_level: [org, code, rank]
    stamps,     \* record_marking rows of the record: [org, code]
    record,     \* its org_id, classification_code, whether it is stored yet (has an id)
    subject,    \* subject_clearance and subject_marking of the one who asks
    source,     \* the host's subject source: none, raises, or answers
    levelCache, \* the process' _level_cache, or None
    stampCache, \* the session's _access_record_markings, by org: a set or None
    edits,
    macStep     \* history: what the last step did

clearance == <<catalog, stamps, record, subject, source, levelCache, stampCache, edits, macStep>>

None == [cached |-> FALSE]
Cached(rows) == [cached |-> TRUE, rows |-> rows]

Init ==
    /\ catalog \in {{}} \cup {{[org |-> o, code |-> c, rank |-> r[c]] : c \in Ladder} :
                                  o \in Owners, r \in [Ladder -> Ranks]}
    /\ stamps = {}
    /\ record \in [org : Owners \cup {NoOwner}, level : {Unlevelled}, stored : BOOLEAN]
    /\ subject = [level |-> Unlevelled, marks |-> {}]
    /\ source = "answers"
    /\ levelCache = None /\ stampCache = [o \in Owners |-> None]
    /\ edits = 0 /\ macStep = "none"

-----------------------------------------------------------------------------
(* What mac_allows reads.                                                   *)

\* _levels: the cache, filled from the table when there is none.
Levels == IF levelCache.cached THEN levelCache.rows ELSE catalog

\* record_markings: the stamps of the record's org, as the session first read them.
Markings(o) == {m.code : m \in {n \in (IF stampCache[o].cached THEN stampCache[o].rows ELSE stamps) : n.org = o}}

\* Mutant: the stamps of a record without an org are not looked up.
NoMarks == {}
\* The point lookup, over all orgs and past the cache.
AllMarkings == {m.code : m \in stamps}

\* subject_access_profile: a source that is missing or raises yields the empty profile.
Profile == IF source = "answers" THEN subject ELSE [level |-> Unlevelled, marks |-> {}]

\* The record's org, or the one the caller passes; never the caller's own.
RecordOrg(given) == IF record.org # NoOwner THEN record.org ELSE given

MarksOf(o) == IF ~ record.stored THEN {} ELSE IF o # NoOwner THEN Markings(o) ELSE AllMarkings

Least(S) == CHOOSE r \in S : \A q \in S : r <= q

\* Rank against rank in the record's catalog; a code it lacks denies, a subject without
\* a level holds its lowest rank.
Outranks(ranks) ==
    /\ \E r \in ranks : r.code = record.level
    /\ Profile.level # Unlevelled => \E r \in ranks : r.code = Profile.level
    /\ LET Rank(c) == (CHOOSE r \in ranks : r.code = c).rank
           held == IF Profile.level = Unlevelled THEN Least({r.rank : r \in ranks}) ELSE Rank(Profile.level)
       IN  held >= Rank(record.level)

\* mac_allows of a registered entity, for a known user or an anonymous one.
mac_allows(known, given) ==
    LET o == RecordOrg(given)
    IN  \/ record.level = Unlevelled /\ MarksOf(o) = {}
        \/ /\ known
           /\ MarksOf(o) \subseteq Profile.marks
           /\ record.level # Unlevelled =>
                 o # NoOwner /\ Outranks({r \in Levels : r.org = o})

-----------------------------------------------------------------------------
(* The administrators, and the readers.                                     *)

Edit(what) == edits < MaxEdits /\ edits' = edits + 1 /\ macStep' = what

\* ensure_clearance_levels, or a host's edit, commits: a row that is there is never updated.
AddLevel(o, c, r) ==
    /\ ~ \E l \in catalog : l.org = o /\ l.code = c
    /\ Edit("add level") /\ catalog' = catalog \cup {[org |-> o, code |-> c, rank |-> r]}
    /\ UNCHANGED <<stamps, record, subject, source, levelCache, stampCache>>
DropLevel(l) ==
    /\ Edit("drop level") /\ catalog' = catalog \ {l}
    /\ UNCHANGED <<stamps, record, subject, source, levelCache, stampCache>>
\* invalidate_mac_cache, after such a commit in this process: any time, or (of a commit in
\* another process, and where a check that was reading writes the old rows back) never.
Invalidate ==
    /\ levelCache.cached
    /\ levelCache' = None /\ macStep' = "invalidate"
    /\ UNCHANGED <<catalog, stamps, record, subject, source, stampCache, edits>>

\* A stamp, and invalidate_record_markings on the session that made it: this one, or
\* another, which this session's cache does not notice.
Stamp(o, m, here) ==
    /\ record.stored /\ record.org \in {o, NoOwner} /\ [org |-> o, code |-> m] \notin stamps
    /\ Edit("stamp") /\ stamps' = stamps \cup {[org |-> o, code |-> m]}
    /\ stampCache' = IF here THEN [q \in Owners |-> None] ELSE stampCache
    /\ UNCHANGED <<catalog, record, subject, source, levelCache>>
Classify(c) ==
    /\ record.level = Unlevelled /\ Edit("classify") /\ record' = [record EXCEPT !.level = c]
    /\ UNCHANGED <<catalog, stamps, subject, source, levelCache, stampCache>>
Assign(c) ==
    /\ Edit("assign") /\ subject' = [subject EXCEPT !.level = c]
    /\ UNCHANGED <<catalog, stamps, record, source, levelCache, stampCache>>
ReadIn(m) ==
    /\ Edit("read in") /\ subject' = [subject EXCEPT !.marks = @ \cup {m}]
    /\ UNCHANGED <<catalog, stamps, record, source, levelCache, stampCache>>
ReadOut(m) ==
    /\ m \in subject.marks /\ Edit("read out") /\ subject' = [subject EXCEPT !.marks = @ \ {m}]
    /\ UNCHANGED <<catalog, stamps, record, source, levelCache, stampCache>>
SourceFails(how) ==
    /\ source = "answers" /\ Edit("source fails") /\ source' = how
    /\ UNCHANGED <<catalog, stamps, record, subject, levelCache, stampCache>>

\* A check, on this session: both caches are filled on the way.
Check(o) ==
    /\ levelCache' = Cached(Levels)
    /\ stampCache' = [stampCache EXCEPT ![o] = IF @.cached THEN @ ELSE Cached(stamps)]
    /\ macStep' = "check"
    /\ UNCHANGED <<catalog, stamps, record, subject, source, edits>>
\* The request ends, and its session's cache with it.
NewSession ==
    /\ stampCache' = [q \in Owners |-> None] /\ macStep' = "session"
    /\ UNCHANGED <<catalog, stamps, record, subject, source, levelCache, edits>>

Next ==
    \/ \E o \in Owners, c \in Ladder, r \in Ranks : AddLevel(o, c, r)
    \/ (\E l \in catalog : DropLevel(l)) \/ Invalidate
    \/ \E o \in Owners, m \in Compartments, here \in BOOLEAN : Stamp(o, m, here)
    \/ \E c \in Ladder : Classify(c) \/ Assign(c)
    \/ \E m \in Compartments : ReadIn(m) \/ ReadOut(m)
    \/ \E how \in {"none", "raises"} : SourceFails(how)
    \/ \E o \in Owners : Check(o)
    \/ NewSession

Spec == Init /\ [][Next]_clearance

-----------------------------------------------------------------------------
\* The lowest of an org's levels, as the process knows them.
Lowest(o, l) == l.org = o /\ \A r \in Levels : r.org = o => l.rank <= r.rank

\* Classification restricts only.  No stamp, no lost marking, no failing source, no new
\* session, and no level struck from the catalog, whenever this process comes to know of
\* it, lets anyone see what they did not see before, except that to know that the lowest
\* level is struck raises everyone without a level of their own, that a failing source
\* does so for a subject whose own level is gone, and that with what was struck the
\* process comes to know the levels that were added.  Nobody anonymous sees a record
\* that carries a level, or one stamped in the org the decision runs under (its own; for
\* a record without one the org the caller names, and where no org is named any), unless
\* this session has read that org's stamps before.
StepRestricts ==
    \A given \in Owners \cup {NoOwner} :
     /\ macStep' \in {"stamp", "classify", "read out", "drop level", "invalidate", "source fails", "check", "session"}
          /\ mac_allows(TRUE, given)' /\ ~ mac_allows(TRUE, given)
        => \/ /\ macStep' \in {"drop level", "invalidate"} /\ Profile.level = Unlevelled
              /\ \E l \in Levels \ Levels' : Lowest(RecordOrg(given), l)
           \/ macStep' = "invalidate" /\ \E l \in Levels' \ Levels : l.org = RecordOrg(given)
           \/ /\ macStep' = "source fails" /\ subject.level # Unlevelled
              /\ ~ \E l \in Levels : l.org = RecordOrg(given) /\ l.code = subject.level
     /\ mac_allows(FALSE, given)' =>
          LET o == RecordOrg(given)'
          IN  /\ record'.level = Unlevelled
              /\ \/ \A m \in stamps' : o # NoOwner /\ m.org # o
                 \/ o # NoOwner /\ stampCache'[o].cached
RestrictsOnly == [][StepRestricts]_clearance
=============================================================================
