----------------------------- MODULE OracleNames -----------------------------
(***************************************************************************)
(* OracleLookups of asas-oracle for one id, a position's or a person's:    *)
(* names(), positions() and people() of one process, its memory, the store *)
(* it shares with others (a position's name under one kind and its budget  *)
(* flag under another, each with the time of its own write) and the        *)
(* refreshes it runs behind its callers.  The other kinds of names() take  *)
(* the path of positions' names.                                           *)
(***************************************************************************)
EXTENDS Naturals

CONSTANTS
    Titles,     \* names a position may have, or what the directory says of a person
    Flags,      \* what a position's budget flag may read
    MaxEdits    \* bound: changes upstream

Kinds == {"position", "budget", "directory"}

VARIABLES
    entity,    \* what the id is: "position" or "person"
    upstream,  \* Oracle: its name and flag, and a count of the changes so far
    stored,    \* the store: per kind nothing, or an answer, whether it is past its
               \* freshness, and the change of Oracle's it stems from
    newest,    \* the kind written last
    copied,    \* the client's read cache: a body with its change, or one with change 0
    memo,      \* in memory: what each of the calls would answer, "" for nothing
    task,      \* the caller and the refresh behind it: where each is and what it holds
    edits

names_vars == <<entity, upstream, stored, newest, copied, memo, task, edits>>

Nothing == [value |-> "", old |-> FALSE, of |-> 0]
Tasks == {"caller", "refresh"}
Calls == {"names", "positions", "people"}
Off == [at |-> "idle", what |-> "names", read |-> [k \in Kinds |-> Nothing], body |-> [name |-> "", flag |-> "", of |-> 0],
        begun |-> 0]

\* What Oracle can say of the id: a name with a flag, or that it knows no such id.
Said(n) == [name : Titles, flag : IF entity = "position" THEN Flags ELSE {""}, of : {n}]
           \cup {[name |-> "", flag |-> "", of |-> n]}

Init ==
    /\ entity \in {"position", "person"}
    /\ upstream \in Said(1)
    /\ stored = [k \in Kinds |-> Nothing]
    /\ newest = "position"
    /\ copied = [upstream EXCEPT !.of = 0]
    /\ memo = [what \in Calls |-> ""]
    /\ task = [t \in Tasks |-> Off]
    /\ edits = 0

\* Oracle's own data change, other reads fill the client's cache, answers age.
Edit ==
    /\ edits < MaxEdits /\ edits' = edits + 1
    /\ upstream' \in Said(upstream.of + 1)
    /\ UNCHANGED <<entity, stored, newest, copied, memo, task>>
OthersRead == copied' = upstream /\ UNCHANGED <<entity, upstream, stored, newest, memo, task, edits>>
\* An answer does not age before one that was written earlier; a copy just read ages too.
AnswerAges(k) ==
    /\ stored[k].of # 0
    /\ k = newest => \A j \in Kinds \ {k} : stored[j].of # 0 => stored[j].old
    /\ stored' = [stored EXCEPT ![k].old = TRUE]
    /\ task' = [task EXCEPT !["caller"].read[k].old = @ \/ task["caller"].read[k].of # 0]
    /\ UNCHANGED <<entity, upstream, newest, copied, memo, edits>>
MemoEnds ==
    /\ memo' = [what \in Calls |-> ""]
    /\ UNCHANGED <<entity, upstream, stored, newest, copied, task, edits>>

-----------------------------------------------------------------------------
(* A call: memory, the store, and Oracle when the store knows nothing.      *)

\* The kinds a call reads and writes, the first of them first.
First(what) == IF what = "people" THEN "directory" ELSE "position"
Uses(what) == {First(what)} \cup (IF what = "positions" THEN {"budget"} ELSE {})

\* A hit in memory answers at once.
Asked(what) ==
    /\ (what = "people") = (entity = "person")
    /\ task["caller"].at = "idle" /\ memo[what] = ""
    /\ task' = [task EXCEPT !["caller"] = [Off EXCEPT !.at = "reading", !.what = what]]
    /\ UNCHANGED <<entity, upstream, stored, newest, copied, memo, edits>>

\* _read: one kind at a time, the name first; a store that fails holds nothing.
ReadKind(k) ==
    /\ k \in Uses(task["caller"].what)
    /\ task["caller"].at = (IF k = "budget" THEN "reading_flag" ELSE "reading")
    /\ \E a \in {stored[k], Nothing} :
          task' = [task EXCEPT !["caller"].read[k] = a,
                       !["caller"].at = IF k = "position" /\ task["caller"].what = "positions"
                                        THEN "reading_flag" ELSE "split"]
    /\ UNCHANGED <<entity, upstream, stored, newest, copied, memo, edits>>

\* _split: the answer's age is that of the name, whatever was read beside it.
IsOld(c) == c.read[First(c.what)].old

\* Answered from the store, and asked again in the background when out of date.
FromStore ==
    LET c == task["caller"]
    IN  /\ c.at = "split" /\ \A k \in Uses(c.what) : c.read[k].of # 0
        /\ memo' = [memo EXCEPT ![c.what] = IF c.read[First(c.what)].value = "" THEN @ ELSE c.read[First(c.what)].value]
        /\ task' = [task EXCEPT !["caller"] = Off,
                        !["refresh"] = IF IsOld(c) /\ @.at = "idle"
                                       THEN [Off EXCEPT !.at = "asking", !.what = c.what, !.begun = upstream.of]
                                       ELSE @]
        /\ UNCHANGED <<entity, upstream, stored, newest, copied, edits>>
FromOracle ==
    LET c == task["caller"]
    IN  /\ c.at = "split" /\ \E k \in Uses(c.what) : c.read[k].of = 0
        /\ task' = [task EXCEPT !["caller"] = [Off EXCEPT !.at = "asking", !.what = c.what, !.begun = upstream.of]]
        /\ UNCHANGED <<entity, upstream, stored, newest, copied, memo, edits>>

-----------------------------------------------------------------------------
(* _ask_names, _ask_positions and _ask_people.                              *)

\* Mutant: the read goes through the client's cache.
Through == IF copied.of # 0 THEN copied ELSE upstream
\* use_cache is off under a store.
Body == upstream

Ask(t) ==
    /\ task[t].at = "asking"
    /\ task' = [task EXCEPT ![t].at = "writing", ![t].body = Body]
    /\ UNCHANGED <<entity, upstream, stored, newest, copied, memo, edits>>
\* A lookup that failed leaves no answer.
AskFails(t) ==
    /\ task[t].at = "asking"
    /\ task' = [task EXCEPT ![t] = Off]
    /\ UNCHANGED <<entity, upstream, stored, newest, copied, memo, edits>>

\* An id Oracle does not know is kept as an empty name and an empty flag.
ValueOf(k, b) == IF k # "budget" THEN b.name ELSE IF b.name = "" THEN "" ELSE b.flag

\* _write, the name and then the flag; a store that fails keeps what it held.
WriteKind(t, k) ==
    /\ k \in Uses(task[t].what)
    /\ task[t].at = (IF k = "budget" THEN "writing_flag" ELSE "writing")
    /\ \/ stored' = [stored EXCEPT ![k] = [value |-> ValueOf(k, task[t].body), old |-> FALSE, of |-> task[t].body.of]]
          /\ newest' = k
       \/ UNCHANGED <<stored, newest>>
    /\ task' = [task EXCEPT ![t].at = IF k = "position" /\ task[t].what = "positions" THEN "writing_flag" ELSE "keeping"]
    /\ UNCHANGED <<entity, upstream, copied, memo, edits>>

\* The memory keeps a name, never the absence of one.
Filled(what, name) ==
    LET fills == IF what = "positions" THEN {"names", "positions"} ELSE {what}
    IN  [c \in Calls |-> IF c \in fills /\ name # "" THEN name ELSE memo[c]]
Keeps(t) ==
    /\ task[t].at = "keeping"
    /\ memo' = Filled(task[t].what, task[t].body.name)
    /\ task' = [task EXCEPT ![t] = Off]
    /\ UNCHANGED <<entity, upstream, stored, newest, copied, edits>>

Next ==
    \/ Edit \/ OthersRead \/ (\E k \in Kinds : AnswerAges(k)) \/ MemoEnds
    \/ (\E what \in Calls : Asked(what)) \/ (\E k \in Kinds : ReadKind(k)) \/ FromStore \/ FromOracle
    \/ \E t \in Tasks : Ask(t) \/ AskFails(t) \/ (\E k \in Kinds : WriteKind(t, k)) \/ Keeps(t)

Spec == Init /\ [][Next]_names_vars

-----------------------------------------------------------------------------
\* What an ask saves as fresh is what Oracle said after the ask began, so a refresh never
\* re-saves the answer it was started to replace.
StepRefreshes ==
    \A t \in Tasks, k \in Kinds :
       stored'[k] # stored[k] /\ ~stored'[k].old /\ task'[t].at # task[t].at => stored'[k].of >= task[t].begun
RefreshedFromOracle == [][StepRefreshes]_names_vars
=============================================================================
