-------------------------- MODULE AuditChain_proofs --------------------------
(***************************************************************************)
(* Every tenant's chain is intact, for every number of tenants,            *)
(* transactions and entries: on Postgres by the advisory lock, on SQLite by*)
(* the mutex, the one writer and, in a founded chain, the unique index.    *)
(***************************************************************************)
EXTENDS AuditChain, WellFoundedInduction, TLAPS

\* The entries made so far, and what is known of every one of them.
Ledger ==
    /\ \A e \in Events : e <= entries =>
          org[e] \in Orgs /\ owner[e] \in Txns /\ pc[owner[e]] # "new"
    /\ \A e \in Events : e > entries => owner[e] = None /\ seq[e] = 0
    /\ \A d, e \in Events : seq[d] = seq[e] /\ seq[d] > 0 => d = e
    /\ \A d, e \in Events : owner[d] = owner[e] /\ owner[d] # None /\ seq[d] = 0 /\ seq[e] = 0 => d = e
    /\ \A e \in Events : e <= entries /\ pc[owner[e]] = "committed" => seq[e] > 0

\* A transaction holds the lock of every tenant it has entries in.
Locked ==
    /\ \A t \in Txns : pc[t] \in {"lock", "tail", "insert"} => target[t] \in Orgs
    /\ \A t \in Txns : pc[t] \in {"tail", "insert"} => advisory[target[t]] = t
    /\ \A e \in Events : e <= entries /\ pc[owner[e]] \in Live => advisory[org[e]] = owner[e]

\* What was read as the tail still is the tail.
Fresh ==
    /\ \A t \in Txns : pc[t] = "insert" => Unflushed(t) = {} /\ IsTail(tail[t], Visible(t, target[t]))
    /\ \A e \in Events : e <= entries /\ seq[e] = 0 /\ pc[owner[e]] \in Live =>
          IsTail(hash_prev[e], Visible(owner[e], org[e]))

Before(t, o, n) == {d \in Visible(t, o) : seq[d] < n}

Linked ==
    \A e \in Events : seq[e] > 0 /\ pc[owner[e]] # "aborted" =>
        IsTail(hash_prev[e], Before(owner[e], org[e], seq[e]))

\* Rows of a live transaction are newer than the committed ones of the tenant.
Ordered ==
    \A d, e \in Events :
        /\ seq[d] > 0 /\ seq[e] > 0 /\ org[d] = org[e]
        /\ pc[owner[d]] = "committed" /\ pc[owner[e]] \in Live
        => seq[d] < seq[e]

Types ==
    /\ pc \in [Txns -> Live \cup {"new", "committed", "aborted"}]
    /\ target \in [Txns -> Orgs \cup {None}]
    /\ tail \in [Txns -> Events \cup {0}]
    /\ entries \in 0 .. MaxEvents
    /\ org \in [Events -> Orgs \cup {None}]
    /\ owner \in [Events -> Txns \cup {None}]
    /\ hash_prev \in [Events -> Events \cup {0}]
    /\ seq \in [Events -> Nat]
    /\ last_seq \in Nat
    /\ \A e \in Events : seq[e] <= last_seq
    /\ advisory \in [Orgs -> Txns \cup {None}]

Rest == Ledger /\ Fresh /\ Linked /\ Ordered
IInv == Types /\ Locked /\ Rest

LEMMA InitIInv == Init => IInv
  BY ChainAssumption DEF Init, IInv, Rest, Types, Ledger, Locked, Fresh, Linked, Ordered, Live, Events

-----------------------------------------------------------------------------
\* Steps that leave the rows alone and commit nothing keep Rest.
Quiet ==
    /\ UNCHANGED rowVars
    /\ \A t \in Txns :
          /\ pc'[t] = "committed" <=> pc[t] = "committed"
          /\ pc'[t] = "new" => pc[t] = "new"
          /\ pc[t] = "aborted" => pc'[t] = "aborted"
          /\ pc'[t] \in Live => pc[t] \in Live \cup {"new"}
          /\ pc'[t] = "insert" => pc[t] = "insert" /\ tail'[t] = tail[t] /\ target'[t] = target[t]

LEMMA QuietRest ==
  ASSUME Types, Rest, Quiet PROVE Rest'
<1> USE ChainAssumption DEF Rest, Types, Quiet, rowVars
<1>1. Ledger'
  BY DEF Ledger
<1>2. \A t \in Txns : \A o : Visible(t, o)' = Visible(t, o)
  <2> TAKE t \in Txns
  <2> TAKE o
  <2>1. \A d \in Events : seq[d] > 0 => owner[d] \in Txns
    BY DEF Ledger, Events
  <2>2. Rows(o)' = Rows(o)
    BY DEF Rows
  <2>3. QED
    BY <2>1, <2>2 DEF Visible, Rows
<1>3. \A p, S : IsTail(p, S)' <=> IsTail(p, S)
  BY DEF IsTail
<1>4. Fresh'
  BY <1>2, <1>3 DEF Fresh, Ledger, Live, Unflushed, IsTail
<1>5. Linked'
  <2>1. \A t \in Txns : \A o, n : Before(t, o, n)' = Before(t, o, n)
    BY <1>2 DEF Before
  <2>2. \A e \in Events : seq[e] > 0 => owner[e] \in Txns
    BY DEF Ledger, Events
  <2>3. QED
    BY <1>3, <2>1, <2>2 DEF Linked
<1>6. Ordered'
  BY DEF Ordered, Ledger, Live, Events
<1>7. QED
  BY <1>1, <1>4, <1>5, <1>6

-----------------------------------------------------------------------------
(* One lemma per kind of step.                                              *)

LEMMA AbortStep ==
  ASSUME IInv, NEW t \in Txns, pc[t] \in Live, End(t, "aborted"), UNCHANGED rowVars
  PROVE  IInv'
<1> USE ChainAssumption DEF IInv, End, AdvisoryAfter
<1>1. Quiet
  BY DEF Quiet, Types, Live
<1>2. Types'
  BY DEF Types, rowVars
<1>3. Locked'
  <2>1. \A u \in Txns : pc'[u] \in Live => u # t /\ pc[u] = pc'[u] /\ target'[u] = target[u]
    BY DEF Types, Live
  <2>2. \A o \in Orgs : advisory[o] # t => advisory'[o] = advisory[o]
    BY DEF Types
  <2>3. \A u \in Txns : pc'[u] \in {"lock", "tail", "insert"} => target'[u] \in Orgs
    BY <2>1 DEF Locked, Live
  <2>4. \A u \in Txns : pc'[u] \in {"tail", "insert"} => advisory'[target'[u]] = u
    BY <2>1, <2>2 DEF Locked, Live
  <2>5. \A e \in Events : e <= entries' /\ pc'[owner'[e]] \in Live => advisory'[org'[e]] = owner'[e]
    BY <2>1, <2>2 DEF Locked, Ledger, Rest, rowVars
  <2>6. QED
    BY <2>3, <2>4, <2>5 DEF Locked
<1>4. QED
  BY <1>1, <1>2, <1>3, QuietRest

LEMMA BeginStep ==
  ASSUME IInv, NEW t \in Txns, Begin(t) PROVE IInv'
<1> USE ChainAssumption DEF IInv, Begin, lockVars
<1>1. Quiet
  BY DEF Quiet, Types, Live
<1>2. Types'
  BY DEF Types, rowVars, Live
<1>3. Locked'
  BY DEF Types, Locked, Ledger, Rest, rowVars, Live
<1>4. QED
  BY <1>1, <1>2, <1>3, QuietRest

LEMMA AppendCall ==
  ASSUME IInv, NEW t \in Txns, NEW o \in Orgs, Append(t, o) PROVE IInv'
<1> USE ChainAssumption DEF IInv, Append, lockVars
<1>1. Quiet
  BY DEF Quiet, Types, Live
<1>2. Types'
  BY DEF Types, rowVars, Live
<1>3. Locked'
  BY DEF Types, Locked, Ledger, Rest, rowVars, Live
<1>4. QED
  BY <1>1, <1>2, <1>3, QuietRest

LEMMA LockStep ==
  ASSUME IInv, Postgres, NEW t \in Txns, LockChain(t) PROVE IInv'
<1> USE ChainAssumption DEF IInv, LockChain, MayLock
<1>1. Quiet
  BY DEF Quiet, Types, Live
<1>2. target[t] \in Orgs
  BY DEF Locked
<1>3. Types'
  BY <1>2 DEF Types, rowVars, Live
<1>4. Locked'
  <2>1. \A p \in Orgs : advisory[p] # None => advisory'[p] = advisory[p]
    BY <1>2 DEF Types
  <2>2. advisory'[target[t]] = t
    BY <1>2 DEF Types
  <2>3. \A u \in Txns : pc'[u] \in Live => pc[u] \in Live /\ target'[u] = target[u]
    BY DEF Types, Live
  <2>4. \A u \in Txns : pc'[u] \in {"tail", "insert"} => u = t \/ pc[u] \in {"tail", "insert"}
    BY DEF Types
  <2>5. \A e \in Events : e <= entries' /\ pc'[owner'[e]] \in Live => advisory'[org'[e]] = owner'[e]
    BY <2>1, <2>3 DEF Locked, Ledger, Rest, rowVars
  <2>6. \A u \in Txns : pc'[u] \in {"tail", "insert"} => advisory'[target'[u]] = u
    BY <2>1, <2>2, <2>3, <2>4 DEF Locked, Live
  <2>7. \A u \in Txns : pc'[u] \in {"lock", "tail", "insert"} => target'[u] \in Orgs
    BY DEF Locked, Types
  <2>8. QED
    BY <2>5, <2>6, <2>7 DEF Locked
<1>5. QED
  BY <1>1, <1>3, <1>4, QuietRest

LEMMA AddRowStep ==
  ASSUME IInv, Postgres, NEW t \in Txns, AddRow(t) PROVE IInv'
<1> USE ChainAssumption DEF IInv, Rest
<1> DEFINE n == entries + 1
           o == target[t]
<1>1. /\ pc[t] = "insert" /\ entries < MaxEvents
      /\ entries' = n
      /\ org' = [org EXCEPT ![n] = o]
      /\ owner' = [owner EXCEPT ![n] = t]
      /\ hash_prev' = [hash_prev EXCEPT ![n] = tail[t]]
      /\ pc' = [pc EXCEPT ![t] = "open"]
      /\ target' = [target EXCEPT ![t] = None]
      /\ tail' = [tail EXCEPT ![t] = 0]
      /\ UNCHANGED <<seq, last_seq, advisory>>
  BY DEF AddRow, AddEntry, BackToHost, lockVars
<1>2. n \in Events /\ entries \in Nat /\ \A e \in Events : e <= n <=> e <= entries \/ e = n
  BY <1>1 DEF Types, Events
<1>3. o \in Orgs /\ advisory[o] = t /\ Unflushed(t) = {} /\ IsTail(tail[t], Visible(t, o))
  BY <1>1 DEF Locked, Fresh
<1>4. seq[n] = 0 /\ owner[n] = None
  BY <1>2 DEF Ledger
<1>5. \A e \in Events : e <= entries =>
          e # n /\ org'[e] = org[e] /\ owner'[e] = owner[e] /\ hash_prev'[e] = hash_prev[e]
  BY <1>1, <1>2 DEF Types
<1>6. org'[n] = o /\ owner'[n] = t /\ hash_prev'[n] = tail[t]
  BY <1>1, <1>2 DEF Types
<1>7. \A u \in Txns : u # t => pc'[u] = pc[u] /\ target'[u] = target[u] /\ tail'[u] = tail[u]
  BY <1>1 DEF Types
<1>8. pc'[t] = "open"
  BY <1>1 DEF Types
<1>9. \A u \in Txns : \A p : Visible(u, p)' = Visible(u, p)
  <2> TAKE u \in Txns
  <2> TAKE p
  <2>1. \A d \in Events : seq[d] > 0 => d <= entries /\ owner[d] \in Txns
    BY DEF Ledger, Types, Events
  <2>2. Rows(p)' = Rows(p)
    BY <1>1, <1>5, <2>1 DEF Rows
  <2>3. \A d \in Rows(p) : owner'[d] = owner[d] /\ (pc'[owner[d]] = "committed" <=> pc[owner[d]] = "committed")
    BY <1>1, <1>5, <1>7, <1>8, <2>1 DEF Rows
  <2>4. QED
    BY <2>2, <2>3 DEF Visible
<1>10. \A p, S : IsTail(p, S)' <=> IsTail(p, S)
  BY <1>1 DEF IsTail
<1>11. Types'
  BY <1>1, <1>2, <1>3 DEF Types, Live
<1>12. Ledger'
  <2>1. \A e \in Events : e <= entries' =>
            org'[e] \in Orgs /\ owner'[e] \in Txns /\ pc'[owner'[e]] # "new"
    BY <1>1, <1>2, <1>3, <1>5, <1>6, <1>7, <1>8 DEF Ledger
  <2>2. \A e \in Events : e > entries' => owner'[e] = None /\ seq'[e] = 0
    BY <1>1, <1>2 DEF Ledger, Types, Events
  <2>3. \A d, e \in Events : seq'[d] = seq'[e] /\ seq'[d] > 0 => d = e
    BY <1>1 DEF Ledger
  <2>4. \A d, e \in Events : owner'[d] = owner'[e] /\ owner'[d] # None /\ seq'[d] = 0 /\ seq'[e] = 0 => d = e
    <3>1. \A e \in Events : e # n => owner'[e] = owner[e]
      BY <1>1, <1>2 DEF Types
    <3>2. \A e \in Events : e # n /\ seq[e] = 0 => owner[e] # t
      BY <1>3 DEF Unflushed
    <3>3. QED
      BY <1>1, <1>6, <3>1, <3>2 DEF Ledger
  <2>5. \A e \in Events : e <= entries' /\ pc'[owner'[e]] = "committed" => seq'[e] > 0
    BY <1>1, <1>2, <1>5, <1>6, <1>7, <1>8 DEF Ledger
  <2>6. QED
    BY <2>1, <2>2, <2>3, <2>4, <2>5 DEF Ledger
<1>13. Locked'
  <2>1. \A u \in Txns : pc'[u] \in {"lock", "tail", "insert"} => u # t
    BY <1>8
  <2>2. \A e \in Events : e <= entries' /\ pc'[owner'[e]] \in Live => advisory'[org'[e]] = owner'[e]
    BY <1>1, <1>2, <1>3, <1>5, <1>6, <1>7 DEF Locked, Ledger, Live
  <2>3. QED
    BY <1>1, <1>7, <2>1, <2>2 DEF Locked
<1>14. Fresh'
  <2>1. ASSUME NEW u \in Txns, pc'[u] = "insert"
        PROVE  (Unflushed(u) = {})' /\ IsTail(tail[u], Visible(u, target[u]))'
    <3>1. u # t /\ pc[u] = "insert"
      BY <1>7, <1>8, <2>1
    <3>2. (Unflushed(u) = {})'
      BY <1>1, <1>2, <1>6, <3>1 DEF Unflushed, Fresh, Types
    <3>3. IsTail(tail[u], Visible(u, target[u]))'
      <4>1. IsTail(tail[u], Visible(u, target[u]))
        BY <3>1 DEF Fresh
      <4>2. tail'[u] = tail[u] /\ Visible(u, target[u])' = Visible(u, target[u])
        BY <1>7, <1>9, <3>1
      <4>3. QED
        BY ONLY <1>1, <4>1, <4>2 DEF IsTail
    <3>4. QED
      BY <3>2, <3>3
  <2>2. ASSUME NEW e \in Events, e <= entries', seq'[e] = 0, pc'[owner'[e]] \in Live
        PROVE  IsTail(hash_prev[e], Visible(owner[e], org[e]))'
    <3>1. CASE e = n
      BY <1>3, <1>6, <1>9, <1>10, <3>1 DEF IsTail
    <3>2. CASE e # n
      <4>1. e <= entries /\ owner[e] \in Txns /\ pc[owner[e]] \in Live
        BY <1>1, <1>2, <1>5, <1>7, <2>2, <3>2 DEF Ledger, Live
      <4>2. IsTail(hash_prev[e], Visible(owner[e], org[e]))
        BY <1>1, <2>2, <4>1 DEF Fresh
      <4>3. QED
        BY <1>5, <1>9, <1>10, <4>1, <4>2 DEF IsTail
    <3>3. QED
      BY <3>1, <3>2
  <2>3. QED
    BY <2>1, <2>2 DEF Fresh
<1>15. Linked'
  <2> SUFFICES ASSUME NEW e \in Events, seq'[e] > 0, pc'[owner'[e]] # "aborted"
               PROVE  IsTail(hash_prev[e], Before(owner[e], org[e], seq[e]))'
    BY DEF Linked
  <2>1. e <= entries /\ owner[e] \in Txns
    BY <1>1 DEF Ledger, Types, Events
  <2>2. pc[owner[e]] # "aborted"
    BY <1>1, <1>5, <1>7, <2>1
  <2>3. IsTail(hash_prev[e], Before(owner[e], org[e], seq[e]))
    BY <1>1, <2>2 DEF Linked
  <2>4. QED
    BY <1>1, <1>5, <1>9, <1>10, <2>1, <2>3 DEF Before, IsTail
<1>16. Ordered'
  <2>1. \A d \in Events : seq[d] > 0 => d <= entries /\ owner[d] \in Txns
    BY DEF Ledger, Types, Events
  <2>2. \A u \in Txns : (pc'[u] = "committed" <=> pc[u] = "committed") /\ (pc'[u] \in Live => pc[u] \in Live)
    BY <1>1, <1>7, <1>8 DEF Live
  <2>3. QED
    BY <1>1, <1>5, <2>1, <2>2 DEF Ordered
<1>17. QED
  BY <1>11, <1>12, <1>13, <1>14, <1>15, <1>16

\* What a flush does: the one unflushed entry of t becomes the newest row.
LEMMA FlushFacts ==
  ASSUME Types, Ledger, NEW t \in Txns, Flush(t), UNCHANGED <<entries, org, owner, hash_prev>>
  PROVE  /\ seq' \in [Events -> Nat] /\ last_seq' \in Nat
         /\ \A e \in Events : seq'[e] <= last_seq'
         /\ \A e \in Events : seq[e] > 0 => seq'[e] = seq[e]
         /\ \A e \in Events : owner[e] # t => seq'[e] = seq[e]
         /\ \A e \in Events : owner[e] = t => seq'[e] > 0
         /\ \A e \in Events : seq'[e] # seq[e] => seq[e] = 0 /\ seq'[e] = last_seq + 1
         /\ \A d, e \in Events : seq'[d] = seq'[e] /\ seq'[d] > 0 => d = e
<1> USE ChainAssumption DEF Types
<1> t # None
  OBVIOUS
<1>1. CASE Unflushed(t) = {}
  BY <1>1 DEF Flush, Unflushed, Ledger
<1>2. CASE Unflushed(t) # {}
  <2>1. last_seq' = last_seq + 1
    BY <1>2 DEF Flush
  <2>2. seq' = [e \in Events |-> IF e \in Unflushed(t) THEN last_seq + 1 ELSE seq[e]]
    BY <1>2 DEF Flush
  <2>3. \A e \in Events : seq'[e] = IF owner[e] = t /\ seq[e] = 0 THEN last_seq + 1 ELSE seq[e]
    BY <2>2 DEF Unflushed
  <2>4. seq' \in [Events -> Nat]
    BY <2>2
  <2>5. \A d, e \in Events : seq'[d] = seq'[e] /\ seq'[d] > 0 => d = e
    BY <2>3 DEF Ledger
  <2>6. \A e \in Events : owner[e] = t => seq'[e] > 0
    BY <2>3
  <2>7. QED
    BY <2>1, <2>3, <2>4, <2>5, <2>6
<1>3. QED
  BY <1>1, <1>2

LEMMA FlushStep ==
  ASSUME IInv, NEW t \in Txns, pc[t] \in Live, pc[t] # "insert",
         Flush(t), UNCHANGED <<entries, org, owner, hash_prev>>,
         pc' \in [Txns -> Live \cup {"new", "committed", "aborted"}],
         \A u \in Txns : u # t => pc'[u] = pc[u] /\ target'[u] = target[u] /\ tail'[u] = tail[u],
         \/ pc'[t] = "committed"
         \/ pc'[t] = "insert" /\ IsTail(tail[t], Visible(t, target[t]))'
  PROVE  Rest'
<1> USE ChainAssumption DEF IInv, Rest
<1>1. /\ \A e \in Events : seq[e] > 0 => seq'[e] = seq[e]
      /\ \A e \in Events : owner[e] # t => seq'[e] = seq[e]
      /\ \A e \in Events : owner[e] = t => seq'[e] > 0
      /\ \A e \in Events : seq'[e] # seq[e] => seq[e] = 0 /\ seq'[e] = last_seq + 1
      /\ \A d, e \in Events : seq'[d] = seq'[e] /\ seq'[d] > 0 => d = e
      /\ seq' \in [Events -> Nat] /\ seq \in [Events -> Nat]
      /\ last_seq \in Nat /\ \A e \in Events : seq[e] <= last_seq
  BY FlushFacts DEF Types
<1>2. \A e \in Events : seq'[e] > 0 => e <= entries /\ owner[e] \in Txns /\ org[e] \in Orgs
  <2>1. \A e \in Events : e <= entries => owner[e] \in Txns /\ org[e] \in Orgs
    BY DEF Ledger
  <2>2. \A e \in Events : ~ (e <= entries) => owner[e] = None /\ seq[e] = 0
    BY DEF Ledger, Types, Events
  <2>3. QED
    BY <1>1, <2>1, <2>2
<1>3. pc[t] # "committed" /\ pc[t] # "new" /\ pc[t] # "aborted" /\ pc'[t] # "new" /\ pc'[t] # "aborted"
  BY DEF Live
\* Another live transaction with the lock of p sees what it saw.
<1>4. \A u \in Txns, p \in Orgs : u # t /\ advisory[p] = u => Visible(u, p)' = Visible(u, p)
  <2> TAKE u \in Txns, p \in Orgs
  <2> HAVE u # t /\ advisory[p] = u
  <2>1. \A d \in Events : owner[d] = t /\ d <= entries => org[d] # p
    BY DEF Locked
  <2>2. \A d \in Events : d \in Visible(u, p)' <=> d \in Visible(u, p)
    BY <1>1, <1>2, <1>3, <2>1 DEF Visible, Rows
  <2>3. QED
    BY <2>2 DEF Visible, Rows
<1>5. Ledger'
  BY <1>1, <1>2, <1>3 DEF Ledger
<1>6. Ordered'
  <2> SUFFICES ASSUME NEW d \in Events, NEW e \in Events, seq'[d] > 0, seq'[e] > 0,
                      org[d] = org[e], pc'[owner[d]] = "committed", pc'[owner[e]] \in Live
               PROVE  seq'[d] < seq'[e]
    BY DEF Ordered
  <2>1. CASE owner[d] = t
    <3>1. owner[e] # t /\ pc[owner[e]] \in Live
      BY <1>2, <2>1 DEF Live
    <3>2. advisory[org[d]] = t /\ advisory[org[e]] = owner[e]
      BY <1>2, <2>1, <3>1 DEF Locked
    <3>3. QED
      BY <3>1, <3>2
  <2>2. CASE owner[d] # t
    <3>1. pc[owner[d]] = "committed" /\ seq'[d] = seq[d]
      BY <1>1, <1>2, <2>2
    <3>2. pc[owner[e]] \in Live
      BY <1>2
    <3>3. CASE seq'[e] = seq[e]
      BY <3>1, <3>2, <3>3 DEF Ordered
    <3>4. CASE seq'[e] # seq[e]
      BY <1>1, <3>1, <3>4
    <3>5. QED
      BY <3>3, <3>4
  <2>3. QED
    BY <2>1, <2>2
<1>7. Fresh'
  <2>1. ASSUME NEW u \in Txns, pc'[u] = "insert"
        PROVE  (Unflushed(u) = {})' /\ IsTail(tail[u], Visible(u, target[u]))'
    <3>1. CASE u = t
      BY <1>1, <2>1, <3>1 DEF Unflushed
    <3>2. CASE u # t
      <4>1. pc[u] = "insert" /\ target'[u] = target[u] /\ tail'[u] = tail[u]
        BY <2>1, <3>2
      <4>2. advisory[target[u]] = u /\ target[u] \in Orgs
        BY <4>1 DEF Locked
      <4>3. Unflushed(u) = {} /\ IsTail(tail[u], Visible(u, target[u]))
        BY <4>1 DEF Fresh
      <4>4. Visible(u, target[u])' = Visible(u, target[u])
        BY <1>4, <3>2, <4>1, <4>2
      <4>5. \A d \in Visible(u, target[u]) : seq'[d] = seq[d]
        BY <1>1 DEF Visible, Rows
      <4>6. IsTail(tail[u], Visible(u, target[u]))'
        BY ONLY <4>1, <4>3, <4>4, <4>5 DEF IsTail
      <4>7. (Unflushed(u) = {})'
        BY <1>1, <3>2, <4>3 DEF Unflushed
      <4>8. QED
        BY <4>6, <4>7
    <3>3. QED
      BY <3>1, <3>2
  <2>2. ASSUME NEW e \in Events, e <= entries, seq'[e] = 0, pc'[owner[e]] \in Live
        PROVE  IsTail(hash_prev[e], Visible(owner[e], org[e]))'
    <3>1. owner[e] # t /\ owner[e] \in Txns /\ org[e] \in Orgs /\ seq[e] = 0
      BY <1>1, <2>2 DEF Ledger
    <3>2. pc[owner[e]] \in Live
      BY <2>2, <3>1
    <3>3. advisory[org[e]] = owner[e] /\ IsTail(hash_prev[e], Visible(owner[e], org[e]))
      BY <2>2, <3>1, <3>2 DEF Locked, Fresh
    <3>4. Visible(owner[e], org[e])' = Visible(owner[e], org[e])
      BY <1>4, <3>1, <3>3
    <3>5. \A d \in Visible(owner[e], org[e]) : seq'[d] = seq[d]
      BY <1>1 DEF Visible, Rows
    <3>6. QED
      BY ONLY <3>3, <3>4, <3>5, UNCHANGED <<hash_prev, owner, org>> DEF IsTail
  <2>3. QED
    BY <2>1, <2>2 DEF Fresh
<1>8. Linked'
  <2> SUFFICES ASSUME NEW e \in Events, seq'[e] > 0, pc'[owner[e]] # "aborted"
               PROVE  IsTail(hash_prev[e], Before(owner[e], org[e], seq[e]))'
    BY DEF Linked
  <2> DEFINE u == owner[e]
             p == org[e]
             B == Before(u, p, seq[e])'
  <2>1. u \in Txns /\ p \in Orgs /\ e <= entries
    BY <1>2
  <2>2. \A d \in B : seq'[d] = seq[d]
    <3> SUFFICES ASSUME NEW d \in B PROVE seq'[d] = seq[d]
      OBVIOUS
    <3>1. d \in Events /\ seq'[d] < seq'[e]
      BY DEF Before, Visible, Rows
    <3>2. QED
      BY <1>1, <3>1
  <2>3. CASE seq'[e] # seq[e]
    <3>1. u = t /\ seq[e] = 0 /\ seq'[e] = last_seq + 1
      BY <1>1, <2>3
    <3>2. IsTail(hash_prev[e], Visible(u, p))
      BY <2>1, <3>1 DEF Fresh
    <3>3. \A d \in Events : d \in B <=> d \in Visible(u, p)
      BY <1>1, <1>2, <1>3, <2>2, <3>1 DEF Before, Visible, Rows
    <3>4. B = Visible(u, p)
      BY <3>3 DEF Before, Visible, Rows
    <3>5. QED
      BY ONLY <2>2, <3>2, <3>4, UNCHANGED <<hash_prev, owner, org>> DEF IsTail
  <2>4. CASE seq'[e] = seq[e]
    <3>1. pc[u] # "aborted"
      BY <1>3, <2>1
    <3>2. IsTail(hash_prev[e], Before(u, p, seq[e]))
      BY <2>4, <3>1 DEF Linked
    <3>3. \A d \in Events : d \in B => d \in Before(u, p, seq[e])
      <4> SUFFICES ASSUME NEW d \in Events, d \in B PROVE d \in Before(u, p, seq[e])
        OBVIOUS
      <4>1. seq'[d] = seq[d] /\ seq[d] > 0 /\ org[d] = p /\ seq[d] < seq[e]
        BY <2>2, <2>4 DEF Before, Visible, Rows
      <4>2. owner[d] = u \/ pc'[owner[d]] = "committed"
        BY DEF Before, Visible
      <4>3. owner[d] \in Txns /\ d <= entries
        BY <1>2, <4>1
      <4>4. ASSUME owner[d] = t, u # t PROVE FALSE
        <5>1. advisory[p] = t
          BY <4>1, <4>3, <4>4 DEF Locked
        <5>2. pc[u] \notin Live
          BY <2>1, <4>4, <5>1 DEF Locked
        <5>3. pc[u] # "new"
          BY <2>1 DEF Ledger
        <5>4. pc[u] = "committed"
          BY <2>1, <3>1, <5>2, <5>3 DEF Types
        <5>5. seq[e] < seq[d]
          BY <2>4, <4>1, <4>4, <5>4 DEF Ordered
        <5>6. QED
          BY <1>1, <4>1, <5>5
      <4>5. owner[d] = u \/ pc[owner[d]] = "committed"
        BY <4>2, <4>3, <4>4
      <4>6. QED
        BY <4>1, <4>5 DEF Before, Visible, Rows
    <3>4. \A d \in Events : d \in Before(u, p, seq[e]) => d \in B
      BY <1>1, <1>2, <1>3, <2>4 DEF Before, Visible, Rows
    <3>5. B = Before(u, p, seq[e])
      BY <3>3, <3>4 DEF Before, Visible, Rows
    <3>6. QED
      BY ONLY <2>2, <3>2, <3>5, UNCHANGED <<hash_prev, owner, org>> DEF IsTail
  <2>5. QED
    BY <2>3, <2>4
<1>9. QED
  BY <1>5, <1>6, <1>7, <1>8

LEMMA ReadTailStep ==
  ASSUME IInv, Postgres, NEW t \in Txns, ReadTail(t) PROVE IInv'
<1> USE ChainAssumption DEF IInv
<1>1. CASE FlushClashes(t)
  BY <1>1, AbortStep DEF ReadTail, Live
<1>2. CASE ~ FlushClashes(t)
  <2>1. /\ pc[t] = "tail" /\ pc' = [pc EXCEPT ![t] = "insert"]
        /\ Flush(t)
        /\ UNCHANGED <<target, entries, org, owner, hash_prev, advisory>>
    BY <1>2 DEF ReadTail
  <2>2. PICK p \in Events \cup {0} :
            IsTail(p, Visible(t, target[t]))' /\ tail' = [tail EXCEPT ![t] = p]
    BY <1>2 DEF ReadTail
  <2>3. tail'[t] = p /\ pc'[t] = "insert"
    BY <2>1, <2>2 DEF Types
  <2>4. IsTail(tail[t], Visible(t, target[t]))'
    BY <2>2, <2>3 DEF IsTail
  <2>5. pc' \in [Txns -> Live \cup {"new", "committed", "aborted"}]
    BY <2>1 DEF Types, Live
  <2>6. \A u \in Txns : u # t => pc'[u] = pc[u] /\ target'[u] = target[u] /\ tail'[u] = tail[u]
    BY <2>1, <2>2 DEF Types
  <2>7. Rest'
    BY <2>1, <2>3, <2>4, <2>5, <2>6, FlushStep DEF Live
  <2>8. Types'
    BY <2>1, <2>2, <2>5, FlushFacts DEF Types, Rest
  <2>9. Locked'
    BY <2>1, <2>3, <2>6 DEF Locked, Live, Rest, Ledger
  <2>10. QED
    BY <2>7, <2>8, <2>9
<1>3. QED
  BY <1>1, <1>2

LEMMA CommitStep ==
  ASSUME IInv, NEW t \in Txns, Commit(t) PROVE IInv'
<1> USE ChainAssumption DEF IInv
<1>1. CASE FlushClashes(t)
  BY <1>1, AbortStep DEF Commit, Live
<1>2. CASE ~ FlushClashes(t)
  <2>1. /\ pc[t] = "open" /\ End(t, "committed") /\ Flush(t)
        /\ UNCHANGED <<entries, org, owner, hash_prev>>
    BY <1>2 DEF Commit
  <2>2. pc'[t] = "committed" /\ pc' \in [Txns -> Live \cup {"new", "committed", "aborted"}]
    BY <2>1 DEF End, Types
  <2>3. \A u \in Txns : u # t => pc'[u] = pc[u] /\ target'[u] = target[u] /\ tail'[u] = tail[u]
    BY <2>1 DEF End, Types
  <2>4. Rest'
    BY <2>1, <2>2, <2>3, FlushStep DEF Live
  <2>5. Types'
    <3>1. /\ target' \in [Txns -> Orgs \cup {None}] /\ tail' \in [Txns -> Events \cup {0}]
          /\ advisory' \in [Orgs -> Txns \cup {None}]
      BY <2>1 DEF End, Types, AdvisoryAfter
    <3>2. QED
      BY <2>1, <2>2, <3>1, FlushFacts DEF Types, Rest
  <2>6. Locked'
    <3>1. \A u \in Txns : pc'[u] \in Live => u # t
      BY <2>2 DEF Live
    <3>2. \A o \in Orgs : advisory[o] # t => advisory'[o] = advisory[o]
      BY <2>1 DEF End, Types, AdvisoryAfter
    <3>3. \A u \in Txns : pc'[u] \in {"lock", "tail", "insert"} => target'[u] \in Orgs
      BY <2>3, <3>1 DEF Locked, Live
    <3>4. \A u \in Txns : pc'[u] \in {"tail", "insert"} => advisory'[target'[u]] = u
      BY <2>3, <3>1, <3>2 DEF Locked, Live
    <3>5. \A e \in Events : e <= entries' /\ pc'[owner'[e]] \in Live => advisory'[org'[e]] = owner'[e]
      BY <2>1, <2>3, <3>1, <3>2 DEF Locked, Ledger, Rest
    <3>6. QED
      BY <3>3, <3>4, <3>5 DEF Locked
  <2>7. QED
    BY <2>4, <2>5, <2>6
<1>3. QED
  BY <1>1, <1>2

LEMMA StepIInv ==
  ASSUME Postgres PROVE IInv /\ [Next]_vars => IInv'
<1> SUFFICES ASSUME IInv, [Next]_vars PROVE IInv'
  OBVIOUS
<1>1. ASSUME NEW t \in Txns, HostChange(t) PROVE IInv'
  BY <1>1 DEF HostChange
<1>2. ASSUME NEW t \in Txns, Rollback(t) PROVE IInv'
  BY <1>2, AbortStep DEF Rollback
<1>3. ASSUME NEW t \in Txns, WaitFails(t) PROVE IInv'
  BY <1>3, AbortStep DEF WaitFails, Waiting, Live
<1>4. CASE UNCHANGED vars
  <2>1. Quiet
    BY <1>4 DEF Quiet, vars, rowVars, IInv, Types, Live
  <2>2. Types' /\ Locked'
    BY <1>4 DEF vars, rowVars, lockVars, IInv, Types, Locked
  <2>3. QED
    BY <2>1, <2>2, QuietRest DEF IInv
<1>5. QED
  BY <1>1, <1>2, <1>3, <1>4, BeginStep, AppendCall, LockStep, ReadTailStep, AddRowStep, CommitStep
     DEF Next, AppendStep

LEMMA Invariance ==
  ASSUME Postgres PROVE Spec => []IInv
  BY InitIInv, StepIInv, PTL DEF Spec

-----------------------------------------------------------------------------
(* On SQLite the mutex covers the tail read and the insert, the engine lets *)
(* one transaction write at a time, and the unique index refuses an entry   *)
(* that another has overtaken, if the tenant's chain has been founded.      *)

TypesSQLite ==
    /\ pc \in [Txns -> Live \cup {"new", "committed", "aborted"}]
    /\ target \in [Txns -> Orgs \cup {None}]
    /\ tail \in [Txns -> Events \cup {0}]
    /\ entries \in 0 .. MaxEvents
    /\ org \in [Events -> Orgs \cup {None}]
    /\ owner \in [Events -> Txns \cup {None}]
    /\ hash_prev \in [Events -> Events \cup {0}]
    /\ seq \in [Events -> Nat]
    /\ last_seq \in Nat
    /\ \A e \in Events : seq[e] <= last_seq

\* An entry is inserted as it is made.
Inserted ==
    /\ \A e \in Events : e <= entries =>
          org[e] \in Orgs /\ owner[e] \in Txns /\ pc[owner[e]] # "new" /\ seq[e] > 0
    /\ \A e \in Events : e > entries => owner[e] = None /\ seq[e] = 0
    /\ \A d, e \in Events : seq[d] = seq[e] /\ seq[d] > 0 => d = e

\* Rows that are not committed are the writer's, and one transaction is in the mutex.
OneWriter ==
    /\ \A e \in Events : e <= entries /\ pc[owner[e]] \in Live => writer = owner[e]
    /\ \A t \in Txns : pc[t] \in {"lock", "tail", "insert"} => target[t] \in Orgs
    /\ \A t \in Txns : pc[t] \in {"tail", "insert"} => mutex = t

\* What was read as the tail still is it, or a committed entry has built on it.
Overtaken ==
    \A t \in Txns : pc[t] = "insert" =>
        \/ IsTail(tail[t], Visible(t, target[t]))
        \/ \E d \in CommittedRows(target[t]) : hash_prev[d] = tail[t]

RestSQLite == Inserted /\ Linked /\ Ordered /\ Overtaken
IInvSQLite == TypesSQLite /\ OneWriter /\ RestSQLite

LEMMA InitSQLite == Init => IInvSQLite
  BY ChainAssumption
     DEF Init, IInvSQLite, RestSQLite, TypesSQLite, Inserted, OneWriter, Linked, Ordered, Overtaken, Live, Events

\* Every row has its transaction, and no entry waits for a flush.
LEMMA RowsSQLite ==
  ASSUME TypesSQLite, Inserted
  PROVE  /\ \A e \in Events : seq[e] > 0 =>
                e <= entries /\ owner[e] \in Txns /\ org[e] \in Orgs /\ pc[owner[e]] # "new"
         /\ \A t \in Txns : Unflushed(t) = {} /\ ~ FlushClashes(t)
<1>1. \A e \in Events : e <= entries \/ e > entries BY DEF TypesSQLite, Events
<1>2. \A e \in Events : seq[e] > 0 => e <= entries BY <1>1 DEF Inserted
<1>3. \A t \in Txns : Unflushed(t) = {} BY <1>1, ChainAssumption DEF Inserted, Unflushed
<1>4. \A t \in Txns : ~ FlushClashes(t) BY <1>3 DEF FlushClashes
<1> QED BY <1>2, <1>3, <1>4 DEF Inserted

\* Steps that leave the rows alone and commit nothing keep RestSQLite.
LEMMA QuietSQLite ==
  ASSUME TypesSQLite, RestSQLite, UNCHANGED rowVars,
         \A t \in Txns :
            /\ pc'[t] = "committed" <=> pc[t] = "committed"
            /\ pc'[t] = "new" => pc[t] = "new"
            /\ pc[t] = "aborted" => pc'[t] = "aborted"
            /\ pc'[t] \in Live => pc[t] \in Live \cup {"new"}
            /\ pc'[t] = "insert" => \/ pc[t] = "insert" /\ tail'[t] = tail[t] /\ target'[t] = target[t]
                                    \/ IsTail(tail[t], Visible(t, target[t]))'
  PROVE  RestSQLite'
<1> USE DEF rowVars
<1>1. \A e \in Events : seq[e] > 0 =>
          e <= entries /\ owner[e] \in Txns /\ org[e] \in Orgs /\ pc[owner[e]] # "new"
  BY RowsSQLite DEF RestSQLite
<1>2. \A t \in Txns : \A o : Visible(t, o)' = Visible(t, o) /\ CommittedRows(o)' = CommittedRows(o)
  BY <1>1 DEF Visible, CommittedRows, Rows
<1>3. \A p, S : IsTail(p, S)' <=> IsTail(p, S) BY DEF IsTail
<1>4. Inserted' BY DEF RestSQLite, Inserted
<1>5. Linked'
  <2> SUFFICES ASSUME NEW e \in Events, seq[e] > 0, pc'[owner[e]] # "aborted"
               PROVE  IsTail(hash_prev[e], Before(owner[e], org[e], seq[e]))'
    BY DEF Linked
  <2>1. owner[e] \in Txns /\ pc[owner[e]] # "aborted" BY <1>1
  <2>2. IsTail(hash_prev[e], Before(owner[e], org[e], seq[e])) BY <2>1 DEF RestSQLite, Linked
  <2>3. Before(owner[e], org[e], seq[e])' = Before(owner[e], org[e], seq[e]) BY <1>2, <2>1 DEF Before
  <2> QED BY <1>3, <2>2, <2>3 DEF IsTail
<1>6. Ordered' BY <1>1 DEF RestSQLite, Ordered, Live
<1>7. Overtaken'
  <2> SUFFICES ASSUME NEW t \in Txns, pc'[t] = "insert", ~ IsTail(tail[t], Visible(t, target[t]))'
               PROVE  \E d \in CommittedRows(target[t])' : hash_prev'[d] = tail'[t]
    BY DEF Overtaken
  <2>1. pc[t] = "insert" /\ tail'[t] = tail[t] /\ target'[t] = target[t] OBVIOUS
  <2>2. CASE IsTail(tail[t], Visible(t, target[t])) BY <1>2, <2>1, <2>2 DEF IsTail
  <2>3. CASE \E d \in CommittedRows(target[t]) : hash_prev[d] = tail[t] BY <1>2, <2>1, <2>3
  <2> QED BY <2>1, <2>2, <2>3 DEF RestSQLite, Overtaken
<1> QED BY <1>4, <1>5, <1>6, <1>7 DEF RestSQLite

LEMMA AbortSQLite ==
  ASSUME IInvSQLite, NEW t \in Txns, pc[t] \in Live, End(t, "aborted"), UNCHANGED rowVars
  PROVE  IInvSQLite'
<1> USE ChainAssumption DEF IInvSQLite, End
<1>1. \A u \in Txns : u # t => pc'[u] = pc[u] /\ target'[u] = target[u] /\ tail'[u] = tail[u] BY DEF TypesSQLite
<1>2. pc'[t] = "aborted" /\ pc[t] \notin {"committed", "new", "aborted"} BY DEF TypesSQLite, Live
<1>3. TypesSQLite' BY DEF TypesSQLite, rowVars
<1>4. RestSQLite' BY <1>1, <1>2, QuietSQLite DEF Live
<1>5. OneWriter'
  <2>1. \A e \in Events : e <= entries /\ pc'[owner[e]] \in Live => owner[e] # t /\ pc[owner[e]] \in Live
    BY <1>1, <1>2 DEF RestSQLite, Inserted, Live
  <2>2. \A e \in Events : e <= entries /\ pc'[owner[e]] \in Live => writer' = owner[e] BY <2>1 DEF OneWriter
  <2>3. \A u \in Txns : pc'[u] \in {"tail", "insert"} => mutex' = u BY <1>1, <1>2 DEF OneWriter, MutexAfter
  <2>4. \A u \in Txns : pc'[u] \in {"lock", "tail", "insert"} => target'[u] \in Orgs BY <1>1, <1>2 DEF OneWriter
  <2> QED BY <2>2, <2>3, <2>4 DEF OneWriter, rowVars
<1> QED BY <1>3, <1>4, <1>5

\* A transaction begins, changes an object of its own, or enters append.
LEMMA CallSQLite ==
  ASSUME IInvSQLite, ~ Postgres, NEW t \in Txns,
         Begin(t) \/ HostChange(t) \/ (\E o \in Orgs : Append(t, o)) \/ LockChain(t)
  PROVE  IInvSQLite'
<1> USE ChainAssumption DEF IInvSQLite
<1> DEFINE Called ==
        /\ UNCHANGED rowVars /\ writer' = writer /\ tail' = tail
        /\ \A u \in Txns : u # t => pc'[u] = pc[u] /\ target'[u] = target[u]
        /\ pc'[t] \in {"open", "lock", "tail"} /\ pc[t] \in {"new", "open", "lock"}
        /\ pc[t] = "new" => pc'[t] = "open"
        /\ \/ pc'[t] = "open" /\ UNCHANGED <<target, mutex>>
           \/ pc'[t] = "lock" /\ target'[t] \in Orgs /\ mutex' = mutex
           \/ pc[t] = "lock" /\ pc'[t] = "tail" /\ target' = target /\ mutex = None /\ mutex' = t
        /\ pc' \in [Txns -> Live \cup {"new", "committed", "aborted"}]
        /\ target' \in [Txns -> Orgs \cup {None}]
<1>1. Called
  <2>1. CASE Begin(t)
    BY <2>1 DEF Begin, lockVars, TypesSQLite, Live
  <2>2. CASE HostChange(t)
    BY <2>2 DEF HostChange, lockVars, TypesSQLite, Live
  <2>3. CASE \E o \in Orgs : Append(t, o)
    BY <2>3 DEF Append, lockVars, TypesSQLite, Live
  <2>4. CASE LockChain(t)
    BY <2>4 DEF LockChain, MayLock, TypesSQLite, Live
  <2>5. QED
    BY <2>1, <2>2, <2>3, <2>4
<1>2. TypesSQLite'
  BY <1>1 DEF TypesSQLite, rowVars
<1>3. RestSQLite'
  BY <1>1, QuietSQLite DEF Live
<1>4. OneWriter'
  <2>1. \A e \in Events : e <= entries /\ pc'[owner[e]] \in Live => pc[owner[e]] \in Live
    BY <1>1 DEF RestSQLite, Inserted, Live
  <2>2. \A e \in Events : e <= entries /\ pc'[owner[e]] \in Live => writer' = owner[e]
    BY <1>1, <2>1 DEF OneWriter
  <2>3. \A u \in Txns : pc'[u] \in {"tail", "insert"} => mutex' = u
    BY <1>1 DEF OneWriter
  <2>4. \A u \in Txns : pc'[u] \in {"lock", "tail", "insert"} => target'[u] \in Orgs
    BY <1>1 DEF OneWriter
  <2>5. QED
    BY <1>1, <2>2, <2>3, <2>4 DEF OneWriter, rowVars
<1>5. QED
  BY <1>2, <1>3, <1>4

\* The read of the tail: nothing waits for a flush, so it only reads.
LEMMA ReadTailSQLite ==
  ASSUME IInvSQLite, ~ Postgres, NEW t \in Txns, ReadTail(t)
  PROVE  IInvSQLite'
<1> USE ChainAssumption DEF IInvSQLite
<1>1. Unflushed(t) = {} /\ ~ FlushClashes(t)
  BY RowsSQLite DEF RestSQLite
<1>2. /\ pc[t] = "tail" /\ (dirty[t] => MayWrite(t))
      /\ pc' = [pc EXCEPT ![t] = "insert"]
      /\ IF dirty[t] THEN Writes(t) ELSE UNCHANGED writer
      /\ UNCHANGED <<target, entries, org, owner, hash_prev, advisory, mutex, seq, last_seq>>
  BY <1>1 DEF ReadTail, Flush
<1>3. PICK p \in Events \cup {0} :
          IsTail(p, Visible(t, target[t]))' /\ tail' = [tail EXCEPT ![t] = p]
  BY <1>1 DEF ReadTail
<1>4. IsTail(tail[t], Visible(t, target[t]))'
  BY <1>3 DEF IsTail, TypesSQLite
<1>5. pc'[t] = "insert" /\ \A u \in Txns : u # t => pc'[u] = pc[u] /\ tail'[u] = tail[u]
  BY <1>2, <1>3 DEF TypesSQLite
<1>6. TypesSQLite'
  BY <1>2, <1>3 DEF TypesSQLite, Live
<1>7. RestSQLite'
  BY <1>2, <1>4, <1>5, QuietSQLite DEF Live, rowVars
<1>8. OneWriter'
  <2>1. writer' = writer \/ (writer \in {None, t} /\ writer' = t)
    BY <1>2 DEF MayWrite, Writes
  <2>2. \A e \in Events : e <= entries /\ pc'[owner[e]] \in Live => writer = owner[e] /\ owner[e] \in Txns
    BY <1>2, <1>5 DEF OneWriter, RestSQLite, Inserted, Live
  <2>3. \A e \in Events : e <= entries /\ pc'[owner[e]] \in Live => writer' = owner[e]
    BY <2>1, <2>2
  <2>4. \A u \in Txns : pc'[u] \in {"tail", "insert"} => mutex' = u
    BY <1>2, <1>5 DEF OneWriter
  <2>5. \A u \in Txns : pc'[u] \in {"lock", "tail", "insert"} => target'[u] \in Orgs
    BY <1>2, <1>5 DEF OneWriter
  <2>6. QED
    BY <1>2, <2>3, <2>4, <2>5 DEF OneWriter
<1>9. QED
  BY <1>6, <1>7, <1>8

\* The insert: the index refuses it if the entry it builds on is no longer the tail.
LEMMA AddRowSQLite ==
  ASSUME IInvSQLite, ~ Postgres, Orgs \subseteq Founded, NEW t \in Txns, AddRow(t)
  PROVE  IInvSQLite'
<1> USE ChainAssumption DEF IInvSQLite
<1> DEFINE n == entries + 1
           o == target[t]
<1>1. CASE Clashes(o, tail[t])
  BY <1>1, AbortSQLite DEF AddRow, Live
<1>2. CASE ~ Clashes(o, tail[t])
  <2>1. /\ pc[t] = "insert" /\ entries < MaxEvents /\ MayWrite(t)
        /\ entries' = n
        /\ org' = [org EXCEPT ![n] = o]
        /\ owner' = [owner EXCEPT ![n] = t]
        /\ hash_prev' = [hash_prev EXCEPT ![n] = tail[t]]
        /\ pc' = [pc EXCEPT ![t] = "open"]
        /\ target' = [target EXCEPT ![t] = None]
        /\ tail' = [tail EXCEPT ![t] = 0]
        /\ writer' = t /\ last_seq' = last_seq + 1
        /\ seq' = [seq EXCEPT ![n] = last_seq + 1]
    BY <1>2 DEF AddRow, AddEntry, BackToHost, Writes
  <2>2. n \in Events /\ entries \in Nat /\ \A e \in Events : e <= n <=> e <= entries \/ e = n
    BY <2>1 DEF TypesSQLite, Events
  <2>3. o \in Orgs /\ mutex = t
    BY <2>1 DEF OneWriter
  <2>4. IsTail(tail[t], Visible(t, o))
    BY <1>2, <2>1, <2>3 DEF RestSQLite, Overtaken, Clashes
  <2>5. \A e \in Events : seq[e] > 0 =>
            e <= entries /\ owner[e] \in Txns /\ org[e] \in Orgs /\ pc[owner[e]] # "new"
    BY RowsSQLite DEF RestSQLite
  <2>6. \A e \in Events : e # n => org'[e] = org[e] /\ owner'[e] = owner[e]
                                   /\ hash_prev'[e] = hash_prev[e] /\ seq'[e] = seq[e]
    BY <2>1, <2>2 DEF TypesSQLite
  <2>7. org'[n] = o /\ owner'[n] = t /\ hash_prev'[n] = tail[t] /\ seq'[n] = last_seq + 1
    BY <2>1, <2>2 DEF TypesSQLite
  <2>8. \A u \in Txns : u # t => pc'[u] = pc[u] /\ target'[u] = target[u] /\ tail'[u] = tail[u]
    BY <2>1 DEF TypesSQLite
  <2>9. pc'[t] = "open"
    BY <2>1 DEF TypesSQLite
  <2>10. ~ (n <= entries) /\ seq[n] = 0
    BY <2>2 DEF RestSQLite, Inserted
  <2>11. last_seq \in Nat /\ \A e \in Events : seq[e] \in Nat /\ seq[e] <= last_seq
    BY DEF TypesSQLite
  <2>12. \A e \in Events : seq'[e] > 0 => e <= n
    BY <2>2, <2>5, <2>6
  \* Another transaction sees what it saw, and this one its new row as well.
  <2>13. \A u \in Txns : \A p : \A d \in Events : d # n => (d \in Visible(u, p)' <=> d \in Visible(u, p))
    BY <2>5, <2>6, <2>8, <2>9, <2>1 DEF Visible, Rows
  <2>14. \A u \in Txns : \A p : n \notin Visible(u, p) /\ (u # t => n \notin Visible(u, p)')
    BY <2>7, <2>9, <2>10 DEF Visible, Rows
  <2>15. TypesSQLite'
    <3>1. pc' \in [Txns -> Live \cup {"new", "committed", "aborted"}]
      BY <2>1 DEF TypesSQLite, Live
    <3>2. target' \in [Txns -> Orgs \cup {None}] /\ tail' \in [Txns -> Events \cup {0}]
      BY <2>1 DEF TypesSQLite
    <3>3. /\ org' \in [Events -> Orgs \cup {None}] /\ owner' \in [Events -> Txns \cup {None}]
          /\ hash_prev' \in [Events -> Events \cup {0}]
      BY <2>1, <2>2, <2>3 DEF TypesSQLite
    <3>4. seq' \in [Events -> Nat] /\ last_seq' \in Nat
      <4>1. last_seq + 1 \in Nat /\ seq \in [Events -> Nat]
        BY <2>11 DEF TypesSQLite
      <4> DEFINE k == last_seq + 1
      <4>2. seq' = [seq EXCEPT ![n] = k] /\ last_seq' = k /\ k \in Nat
        BY <2>1, <4>1
      <4> HIDE DEF k, n
      <4>3. QED
        BY <4>1, <4>2
    <3>5. entries' \in 0 .. MaxEvents
      BY <2>1, <2>2
    <3>6. \A e \in Events : seq'[e] <= last_seq'
      BY <2>1, <2>6, <2>7, <2>11
    <3>7. QED
      BY <3>1, <3>2, <3>3, <3>4, <3>5, <3>6 DEF TypesSQLite
  <2>16. OneWriter'
    <3>1. \A e \in Events : e <= entries /\ pc[owner[e]] \in Live => owner[e] = t
      BY <2>1 DEF OneWriter, MayWrite, RestSQLite, Inserted
    <3>2. \A e \in Events : e <= entries' /\ pc'[owner'[e]] \in Live => writer' = owner'[e]
      <4> SUFFICES ASSUME NEW e \in Events, e <= entries', pc'[owner'[e]] \in Live, e # n
                   PROVE  owner[e] = t
        BY <2>1, <2>6, <2>7
      <4>1. e <= entries /\ owner[e] \in Txns
        BY <2>1, <2>2 DEF RestSQLite, Inserted
      <4>2. QED
        BY <2>6, <2>8, <3>1, <4>1
    <3>3. \A u \in Txns : pc'[u] \in {"tail", "insert"} => FALSE
      BY <2>3, <2>8, <2>9 DEF OneWriter
    <3>4. \A u \in Txns : pc'[u] \in {"lock", "tail", "insert"} => target'[u] \in Orgs
      BY <2>8, <2>9 DEF OneWriter
    <3>5. QED
      BY <3>2, <3>3, <3>4 DEF OneWriter
  <2>17. Inserted'
    <3>1. \A e \in Events : e <= entries' =>
              org'[e] \in Orgs /\ owner'[e] \in Txns /\ pc'[owner'[e]] # "new" /\ seq'[e] > 0
      <4>1. \A e \in Events : e <= entries /\ e # n =>
                org'[e] \in Orgs /\ owner'[e] \in Txns /\ pc'[owner'[e]] # "new" /\ seq'[e] > 0
        BY <2>6, <2>8, <2>9 DEF RestSQLite, Inserted
      <4>2. org'[n] \in Orgs /\ owner'[n] \in Txns /\ pc'[owner'[n]] # "new" /\ seq'[n] > 0
        BY <2>3, <2>7, <2>9, <2>11
      <4>3. QED
        BY <2>1, <2>2, <2>10, <4>1, <4>2
    <3>2. \A e \in Events : e > entries' => owner'[e] = None /\ seq'[e] = 0
      BY <2>1, <2>2, <2>6 DEF RestSQLite, Inserted, Events
    <3>3. \A d, e \in Events : seq'[d] = seq'[e] /\ seq'[d] > 0 => d = e
      BY <2>6, <2>7, <2>11 DEF RestSQLite, Inserted
    <3>4. QED
      BY <3>1, <3>2, <3>3 DEF Inserted
  <2>18. Linked'
    <3> SUFFICES ASSUME NEW e \in Events, seq'[e] > 0, pc'[owner'[e]] # "aborted"
                 PROVE  IsTail(hash_prev[e], Before(owner[e], org[e], seq[e]))'
      BY DEF Linked
    <3>1. CASE e = n
      <4> DEFINE B == Before(owner[e], org[e], seq[e])'
                 V == Visible(t, o)
      <4>1. \A d : d \in B <=> d \in Visible(owner[e], org[e])' /\ seq'[d] < last_seq + 1
        BY <2>7, <3>1 DEF Before
      <4>2. Visible(owner[e], org[e])' = {d \in Events : seq'[d] > 0 /\ org'[d] = o
                                             /\ (owner'[d] = t \/ pc'[owner'[d]] = "committed")}
        BY <2>7, <3>1 DEF Visible, Rows
      <4>3. V = {d \in Events : seq[d] > 0 /\ org[d] = o /\ (owner[d] = t \/ pc[owner[d]] = "committed")}
        BY DEF Visible, Rows
      <4>4. \A d \in Events : d # n /\ seq[d] > 0 => (pc'[owner[d]] = "committed" <=> pc[owner[d]] = "committed")
        BY <2>1, <2>5, <2>8, <2>9
      <4>5. \A d \in Events : d # n => (d \in B <=> d \in V)
        <5> HIDE DEF B, V, n, o
        <5>1. QED
          BY <2>6, <2>11, <4>1, <4>2, <4>3, <4>4
      <4>6. n \notin B /\ n \notin V
        BY <2>7, <2>10, <2>11, <4>1, <4>3
      <4>7. B = V
        <5>1. B \subseteq Events /\ V \subseteq Events
          BY <4>1, <4>2, <4>3
        <5> HIDE DEF B, V
        <5>2. QED
          BY <4>5, <4>6, <5>1
      <4>8. \A d \in Visible(t, o) : seq'[d] = seq[d]
        BY <2>6, <2>14 DEF Visible, Rows
      <4>9. Before(owner[e], org[e], seq[e])' = Visible(t, o)
        BY <4>7
      <4>10. QED
        BY ONLY <2>4, <2>7, <3>1, <4>8, <4>9 DEF IsTail
    <3>2. CASE e # n
      <4>1. seq[e] > 0 /\ owner[e] \in Txns /\ e <= entries /\ owner'[e] = owner[e]
            /\ org'[e] = org[e] /\ seq'[e] = seq[e] /\ hash_prev'[e] = hash_prev[e]
        BY <2>5, <2>6, <3>2
      <4>2. pc[owner[e]] # "aborted"
        BY <2>1, <2>8, <4>1
      <4>3. IsTail(hash_prev[e], Before(owner[e], org[e], seq[e]))
        BY <4>1, <4>2 DEF RestSQLite, Linked
      <4>4. \A d \in Events : d \in Before(owner[e], org[e], seq[e])' <=> d \in Before(owner[e], org[e], seq[e])
        <5> TAKE d \in Events
        <5>1. CASE d = n
          <6>1. n \notin Before(owner[e], org[e], seq[e])'
            BY <2>7, <2>11, <4>1 DEF Before
          <6>2. n \notin Before(owner[e], org[e], seq[e])
            BY <2>14, <4>1 DEF Before
          <6>3. QED
            BY <5>1, <6>1, <6>2
        <5>2. CASE d # n
          BY <2>6, <2>13, <4>1, <5>2 DEF Before
        <5>3. QED
          BY <5>1, <5>2
      <4>5. Before(owner[e], org[e], seq[e])' = Before(owner[e], org[e], seq[e])
        <5>1. /\ Before(owner[e], org[e], seq[e])' \subseteq Events
              /\ Before(owner[e], org[e], seq[e]) \subseteq Events
          BY DEF Before, Visible, Rows
        <5>2. QED
          BY <4>4, <5>1
      <4>6. \A d \in Before(owner[e], org[e], seq[e]) : seq'[d] = seq[d]
        BY <2>6, <2>14, <4>1 DEF Before, Visible, Rows
      <4>7. QED
        BY ONLY <4>1, <4>3, <4>5, <4>6 DEF IsTail
    <3>3. QED
      BY <3>1, <3>2
  <2>19. Ordered'
    <3> SUFFICES ASSUME NEW d \in Events, NEW e \in Events, seq'[d] > 0, seq'[e] > 0, org'[d] = org'[e],
                        pc'[owner'[d]] = "committed", pc'[owner'[e]] \in Live
                 PROVE  seq'[d] < seq'[e]
      BY DEF Ordered
    <3>1. d # n
      BY <2>7, <2>9
    <3>2. CASE e = n
      BY <2>6, <2>7, <2>11, <3>1, <3>2
    <3>3. CASE e # n
      <4>1. pc[owner[d]] = "committed" /\ pc[owner[e]] \in Live
        BY <2>1, <2>5, <2>6, <2>8, <2>9, <3>1, <3>3 DEF Live
      <4>2. QED
        BY <2>6, <3>1, <3>3, <4>1 DEF RestSQLite, Ordered
    <3>4. QED
      BY <3>2, <3>3
  <2>20. Overtaken'
    BY <2>3, <2>8, <2>9 DEF Overtaken, OneWriter
  <2>21. QED
    BY <2>15, <2>16, <2>17, <2>18, <2>19, <2>20 DEF RestSQLite
<1>3. QED
  BY <1>1, <1>2

\* Only one hash is the tail of a set of rows.
LEMMA OneTail ==
  ASSUME TypesSQLite, Inserted, NEW S, S \subseteq {e \in Events : seq[e] > 0},
         NEW p, NEW q, IsTail(p, S), IsTail(q, S)
  PROVE  p = q
<1>1. CASE S = {}
  BY <1>1 DEF IsTail
<1>2. CASE S # {}
  <2>1. p \in S /\ q \in S /\ seq[p] <= seq[q] /\ seq[q] <= seq[p]
    BY <1>2 DEF IsTail
  <2>2. p \in Events /\ q \in Events /\ seq[p] > 0 /\ seq[p] \in Nat /\ seq[q] \in Nat
    BY <2>1 DEF TypesSQLite
  <2>3. seq[p] = seq[q]
    BY <2>1, <2>2
  <2>4. QED
    BY <2>2, <2>3 DEF Inserted
<1>3. QED
  BY <1>1, <1>2

\* Some row of a set of rows is the oldest.
LEMMA OldestRow ==
  ASSUME TypesSQLite, NEW S, S \subseteq Events, S # {}
  PROVE  \E f \in S : \A e \in S : seq[f] <= seq[e]
<1> DEFINE R == {ss \in Nat \X Nat : ss[1] < ss[2]}
           T == {seq[e] : e \in S}
<1>1. T \subseteq Nat /\ T # {} /\ \A e \in S : seq[e] \in Nat
  BY DEF TypesSQLite
<1>2. IsWellFoundedOn(R, Nat)
  BY NatLessThanWellFounded DEF OpToRel
<1>3. \E x \in T : \A y \in T : ~ (<<y, x>> \in R)
  <2> HIDE DEF R, T
  <2>1. QED
    BY <1>1, <1>2, WFMin
<1>4. PICK f \in S : \A y \in T : ~ (<<y, seq[f]>> \in R)
  BY <1>3
<1>5. ASSUME NEW e \in S PROVE seq[f] <= seq[e]
  <2>1. ~ (<<seq[e], seq[f]>> \in R)
    BY <1>4
  <2>2. ~ (seq[e] < seq[f])
    BY <1>1, <2>1
  <2>3. QED
    BY <1>1, <2>2
<1>6. QED
  BY <1>5

\* A commit shows the rows of its transaction to the others.
LEMMA CommitSQLite ==
  ASSUME IInvSQLite, NEW t \in Txns, Commit(t)
  PROVE  IInvSQLite'
<1> USE ChainAssumption DEF IInvSQLite
<1>1. Unflushed(t) = {} /\ ~ FlushClashes(t)
  BY RowsSQLite DEF RestSQLite
<1>2. pc[t] = "open" /\ End(t, "committed") /\ UNCHANGED rowVars
  BY <1>1 DEF Commit, Flush, rowVars
<1>3. pc'[t] = "committed" /\ \A u \in Txns : u # t => pc'[u] = pc[u] /\ target'[u] = target[u] /\ tail'[u] = tail[u]
  BY <1>2 DEF End, TypesSQLite
<1>4. \A e \in Events : seq[e] > 0 =>
          e <= entries /\ owner[e] \in Txns /\ org[e] \in Orgs /\ pc[owner[e]] # "new"
  BY RowsSQLite DEF RestSQLite
<1>5. \A e \in Events : seq[e] > 0 /\ owner[e] = t => writer = t
  BY <1>2, <1>4 DEF OneWriter, Live
<1>6. \A e \in Events : seq[e] > 0 /\ pc[owner[e]] \in Live => writer = owner[e]
  BY <1>4 DEF OneWriter
<1>7. TypesSQLite'
  <2>1. pc' \in [Txns -> Live \cup {"new", "committed", "aborted"}]
    BY <1>2 DEF End, TypesSQLite
  <2>2. target' \in [Txns -> Orgs \cup {None}] /\ tail' \in [Txns -> Events \cup {0}]
    BY <1>2 DEF End, TypesSQLite
  <2>3. QED
    BY <1>2, <2>1, <2>2 DEF TypesSQLite, rowVars
<1>8. OneWriter'
  <2>1. \A e \in Events : e <= entries /\ pc'[owner[e]] \in Live => owner[e] # t /\ pc[owner[e]] \in Live
    BY <1>3 DEF RestSQLite, Inserted, Live
  <2>2. \A e \in Events : e <= entries /\ pc'[owner[e]] \in Live => writer' = owner[e]
    BY <1>2, <2>1 DEF OneWriter, End
  <2>3. \A u \in Txns : pc'[u] \in {"tail", "insert"} => mutex' = u
    BY <1>2, <1>3 DEF OneWriter, End, MutexAfter
  <2>4. \A u \in Txns : pc'[u] \in {"lock", "tail", "insert"} => target'[u] \in Orgs
    BY <1>3 DEF OneWriter
  <2>5. QED
    BY <1>2, <2>2, <2>3, <2>4 DEF OneWriter, rowVars
<1>9. Inserted'
  <2>1. \A e \in Events : e <= entries =>
            org[e] \in Orgs /\ owner[e] \in Txns /\ pc'[owner[e]] # "new" /\ seq[e] > 0
    BY <1>3 DEF RestSQLite, Inserted
  <2>2. QED
    BY <1>2, <2>1 DEF RestSQLite, Inserted, rowVars
<1>10. Linked'
  <2> SUFFICES ASSUME NEW e \in Events, seq[e] > 0, pc'[owner[e]] # "aborted"
               PROVE  IsTail(hash_prev[e], Before(owner[e], org[e], seq[e]))'
    BY <1>2 DEF Linked, rowVars
  <2> DEFINE w == owner[e]
             p == org[e]
             B == Before(w, p, seq[e])
             C == Before(w, p, seq[e])'
  <2>1. w \in Txns /\ pc[w] # "aborted" /\ pc[w] # "new"
    BY <1>2, <1>3, <1>4
  <2>2. IsTail(hash_prev[e], B)
    BY <2>1 DEF RestSQLite, Linked
  <2>3. B = {d \in Events : seq[d] > 0 /\ org[d] = p /\ (owner[d] = w \/ pc[owner[d]] = "committed") /\ seq[d] < seq[e]}
    BY DEF Before, Visible, Rows
  <2>4. C = {d \in Events : seq[d] > 0 /\ org[d] = p /\ (owner[d] = w \/ pc'[owner[d]] = "committed") /\ seq[d] < seq[e]}
    BY <1>2 DEF Before, Visible, Rows, rowVars
  <2>5. ASSUME NEW d \in Events, seq[d] > 0, org[d] = p, owner[d] = t, w # t, seq[d] < seq[e] PROVE FALSE
    <3>1. writer = t
      BY <1>5, <2>5
    <3>2. pc[w] \notin Live
      BY <1>6, <2>5, <3>1
    <3>3. pc[w] = "committed"
      BY <2>1, <3>2 DEF TypesSQLite
    <3>4. seq[e] < seq[d]
      BY <1>2, <2>5, <3>3 DEF RestSQLite, Ordered, Live
    <3>5. seq[e] \in Nat /\ seq[d] \in Nat
      BY DEF TypesSQLite
    <3>6. QED
      BY <2>5, <3>4, <3>5
  <2>6. \A d \in Events : seq[d] > 0 => (pc[owner[d]] = "committed" => pc'[owner[d]] = "committed")
                                        /\ (pc'[owner[d]] = "committed" => owner[d] = t \/ pc[owner[d]] = "committed")
    BY <1>2, <1>3, <1>4
  <2>7. B = C
    <3>1. \A d \in Events : d \in B <=> d \in C
      <4> HIDE DEF B, C
      <4>1. QED
        BY <2>3, <2>4, <2>5, <2>6
    <3>2. B \subseteq Events /\ C \subseteq Events
      BY <2>3, <2>4
    <3> HIDE DEF B, C
    <3>3. QED
      BY <3>1, <3>2
  <2>8. QED
    BY ONLY <1>2, <2>2, <2>7 DEF IsTail, rowVars
<1>11. Ordered'
  <2> SUFFICES ASSUME NEW d \in Events, NEW e \in Events, seq[d] > 0, seq[e] > 0, org[d] = org[e],
                      pc'[owner[d]] = "committed", pc'[owner[e]] \in Live
               PROVE  seq[d] < seq[e]
    BY <1>2 DEF Ordered, rowVars
  <2>1. owner[e] # t /\ pc[owner[e]] \in Live /\ writer = owner[e]
    BY <1>3, <1>4, <1>6 DEF Live
  <2>2. pc[owner[d]] = "committed"
    BY <1>3, <1>4, <1>5, <2>1
  <2>3. QED
    BY <2>1, <2>2 DEF RestSQLite, Ordered
<1>12. Overtaken'
  <2> SUFFICES ASSUME NEW u \in Txns, pc'[u] = "insert"
               PROVE  \/ IsTail(tail[u], Visible(u, target[u]))'
                      \/ \E d \in CommittedRows(target[u])' : hash_prev'[d] = tail'[u]
    BY DEF Overtaken
  <2> DEFINE o == target[u]
             Mine == {e \in Events : seq[e] > 0 /\ org[e] = o /\ owner[e] = t}
  <2>1. u # t /\ pc[u] = "insert" /\ target'[u] = o /\ tail'[u] = tail[u]
    BY <1>3
  <2>2. CommittedRows(target[u])' = CommittedRows(o) \cup Mine
    BY <1>2, <1>3, <1>4, <2>1 DEF CommittedRows, Rows, rowVars
  <2>3. CASE \E d \in CommittedRows(o) : hash_prev[d] = tail[u]
    BY <1>2, <2>1, <2>2, <2>3 DEF rowVars
  <2>4. CASE Mine = {} /\ IsTail(tail[u], Visible(u, o))
    <3>1. Visible(u, target[u])' = Visible(u, o)
      BY <1>2, <1>3, <1>4, <2>1, <2>4 DEF Visible, Rows, rowVars
    <3>2. QED
      BY ONLY <1>2, <2>1, <2>4, <3>1 DEF IsTail, rowVars
  <2>5. CASE Mine # {} /\ IsTail(tail[u], Visible(u, o))
    <3>1. PICK f \in Mine : \A e \in Mine : seq[f] <= seq[e]
      BY <2>5, OldestRow
    <3>2. writer = t
      BY <1>5, <2>5
    <3>3. Visible(u, o) = CommittedRows(o)
      BY <1>6, <2>1, <3>2 DEF Visible, CommittedRows, Rows, Live
    <3>4. Before(t, o, seq[f]) = CommittedRows(o)
      <4>1. \A d \in Mine : ~ (seq[d] < seq[f])
        BY <3>1 DEF TypesSQLite
      <4>2. \A d \in CommittedRows(o) : seq[d] < seq[f]
        BY <1>2 DEF RestSQLite, Ordered, CommittedRows, Rows, Live
      <4>3. QED
        BY <4>1, <4>2 DEF Before, Visible, CommittedRows, Rows
    <3>5. IsTail(hash_prev[f], CommittedRows(o))
      BY <1>2, <3>4 DEF RestSQLite, Linked
    <3>6. CommittedRows(o) \subseteq {e \in Events : seq[e] > 0}
      BY DEF CommittedRows, Rows
    <3>7. hash_prev[f] = tail[u]
      <4> HIDE DEF o
      <4>1. QED
        BY <2>5, <3>3, <3>5, <3>6, OneTail DEF RestSQLite
    <3>8. QED
      BY <1>2, <2>1, <2>2, <3>7 DEF rowVars
  <2>6. QED
    BY <2>1, <2>3, <2>4, <2>5 DEF RestSQLite, Overtaken
<1>13. QED
  BY <1>7, <1>8, <1>9, <1>10, <1>11, <1>12 DEF RestSQLite

LEMMA StepSQLite ==
  ASSUME ~ Postgres, Orgs \subseteq Founded PROVE IInvSQLite /\ [Next]_vars => IInvSQLite'
<1> SUFFICES ASSUME IInvSQLite, [Next]_vars PROVE IInvSQLite'
  OBVIOUS
<1>1. ASSUME NEW t \in Txns, Rollback(t) PROVE IInvSQLite'
  BY <1>1, AbortSQLite DEF Rollback
<1>2. ASSUME NEW t \in Txns, WaitFails(t) PROVE IInvSQLite'
  BY <1>2, AbortSQLite DEF WaitFails, Waiting, Live
<1>3. CASE UNCHANGED vars
  <2>1. RestSQLite'
    BY <1>3, QuietSQLite DEF vars, IInvSQLite, TypesSQLite, Live
  <2>2. TypesSQLite' /\ OneWriter'
    BY <1>3 DEF vars, rowVars, lockVars, IInvSQLite, TypesSQLite, OneWriter
  <2>3. QED
    BY <2>1, <2>2 DEF IInvSQLite
<1>4. QED
  BY <1>1, <1>2, <1>3, CallSQLite, ReadTailSQLite, AddRowSQLite, CommitSQLite DEF Next, AppendStep

LEMMA InvarianceSQLite ==
  ASSUME ~ Postgres, Orgs \subseteq Founded PROVE Spec => []IInvSQLite
  BY InitSQLite, StepSQLite, PTL DEF Spec

-----------------------------------------------------------------------------
(* The results.                                                             *)

LEMMA LinkedIsIntact == Linked => ChainIntact
<1> SUFFICES ASSUME Linked, NEW o \in Orgs, NEW e \in CommittedRows(o)
             PROVE  IsTail(hash_prev[e], {d \in CommittedRows(o) : seq[d] < seq[e]})
  BY DEF ChainIntact
<1>1. e \in Events /\ seq[e] > 0 /\ org[e] = o /\ pc[owner[e]] = "committed"
  BY DEF CommittedRows, Rows
<1>2. IsTail(hash_prev[e], Before(owner[e], o, seq[e]))
  BY <1>1 DEF Linked
<1>3. Before(owner[e], o, seq[e]) = {d \in CommittedRows(o) : seq[d] < seq[e]}
  BY <1>1 DEF Before, Visible, CommittedRows, Rows
<1>4. QED
  BY <1>2, <1>3

\* verify never finds a break in what append committed: on Postgres, and on
\* SQLite in tenants whose first entry is committed already (_tail, the unique
\* index on org_id and hash_prev).
THEOREM IntactTheorem ==
  ASSUME Postgres \/ Orgs \subseteq Founded PROVE Spec => []ChainIntact
<1>1. CASE Postgres
  <2>1. IInv => ChainIntact
    BY LinkedIsIntact DEF IInv, Rest
  <2>2. QED
    BY <1>1, <2>1, Invariance, PTL
<1>2. CASE ~ Postgres /\ Orgs \subseteq Founded
  <2>1. IInvSQLite => ChainIntact
    BY LinkedIsIntact DEF IInvSQLite, RestSQLite
  <2>2. QED
    BY <1>2, <2>1, InvarianceSQLite, PTL
<1>3. QED
  BY <1>1, <1>2

\* On Postgres no two appends to a tenant ever build on the same entry.
THEOREM FreshTheorem ==
  ASSUME Postgres PROVE Spec => []TailIsFresh
<1>1. IInv => TailIsFresh
  BY DEF IInv, Rest, Fresh, TailIsFresh
<1>2. QED
  BY <1>1, Invariance, PTL

\* What CommitsExtend asks of a step.
Extends ==
    \A o \in Orgs : \A e \in CommittedRows(o)' : \A d \in CommittedRows(o) :
        e \notin CommittedRows(o) => seq[d] < seq'[e]

LEMMA ExtendStep ==
  ASSUME Postgres PROVE IInv /\ [Next]_vars => Extends
<1> SUFFICES ASSUME IInv, [Next]_vars, NEW o \in Orgs,
                    NEW e \in CommittedRows(o)', NEW d \in CommittedRows(o),
                    e \notin CommittedRows(o)
             PROVE  seq[d] < seq'[e]
  BY DEF Extends
<1> USE ChainAssumption DEF IInv, Rest
<1>1. ASSUME NEW t \in Txns, Commit(t), ~ FlushClashes(t) PROVE seq[d] < seq'[e]
  <2>1. /\ pc[t] = "open" /\ Flush(t) /\ UNCHANGED <<entries, org, owner, hash_prev>>
        /\ \A u \in Txns : u # t => pc'[u] = pc[u]
    BY <1>1 DEF Commit, End, Types
  <2>2. /\ e \in Events /\ seq'[e] > 0 /\ org[e] = o /\ pc'[owner[e]] = "committed"
        /\ d \in Events /\ seq[d] > 0 /\ org[d] = o /\ pc[owner[d]] = "committed"
    BY <2>1 DEF CommittedRows, Rows
  <2>3. seq'[e] = seq[e] \/ seq'[e] = last_seq + 1
    BY <2>1, <2>2, FlushFacts
  <2>4. seq[d] <= last_seq /\ seq[d] \in Nat /\ last_seq \in Nat
    BY <2>2 DEF Types
  <2>5. CASE seq'[e] = last_seq + 1
    BY <2>4, <2>5
  <2>6. CASE seq'[e] = seq[e]
    <3>1. pc[owner[e]] # "committed"
      BY <2>2, <2>6 DEF CommittedRows, Rows
    <3>2. e <= entries
      BY <2>2, <2>6 DEF Ledger, Types, Events
    <3>3. owner[e] = t
      BY <2>1, <2>2, <3>1, <3>2 DEF Ledger
    <3>4. QED
      BY <2>1, <2>2, <2>6, <3>3 DEF Ordered, Live
  <2>7. QED
    BY <2>3, <2>5, <2>6
<1>2. ASSUME \A u \in Txns : pc'[u] = "committed" => pc[u] = "committed",
             \A x \in Events : seq'[x] > 0 /\ pc'[owner'[x]] = "committed" =>
                 seq'[x] = seq[x] /\ org'[x] = org[x] /\ owner'[x] = owner[x] /\ owner[x] \in Txns
      PROVE FALSE
  BY <1>2 DEF CommittedRows, Rows
<1>3. \A x \in Events : seq[x] > 0 => x <= entries /\ owner[x] \in Txns
  BY DEF Ledger, Types, Events
<1>4. ASSUME UNCHANGED rowVars, \A u \in Txns : pc'[u] = "committed" => pc[u] = "committed"
      PROVE  FALSE
  BY <1>2, <1>3, <1>4 DEF rowVars
<1>5. ASSUME NEW t \in Txns, End(t, "aborted"), UNCHANGED rowVars PROVE FALSE
  BY <1>4, <1>5 DEF End, Types
<1>6. ASSUME NEW t \in Txns, ReadTail(t), ~ FlushClashes(t) PROVE FALSE
  <2>1. /\ pc[t] = "tail" /\ pc' = [pc EXCEPT ![t] = "insert"]
        /\ Flush(t) /\ UNCHANGED <<entries, org, owner, hash_prev>>
    BY <1>6 DEF ReadTail
  <2>2. \A u \in Txns : pc'[u] = "committed" => pc[u] = "committed" /\ u # t
    BY <2>1 DEF Types
  <2>3. \A x \in Events : owner[x] # t => seq'[x] = seq[x]
    BY <2>1, FlushFacts
  <2>4. \A x \in Events : seq'[x] > 0 => owner[x] \in Txns
    BY <1>3, <2>3
  <2>5. QED
    BY <1>2, <2>1, <2>2, <2>3, <2>4
<1>7. ASSUME NEW t \in Txns, AddRow(t) PROVE FALSE
  <2>1. /\ pc[t] = "insert" /\ entries < MaxEvents /\ seq' = seq
        /\ org' = [org EXCEPT ![entries + 1] = target[t]]
        /\ owner' = [owner EXCEPT ![entries + 1] = t]
        /\ pc' = [pc EXCEPT ![t] = "open"]
    BY <1>7 DEF AddRow, AddEntry, BackToHost
  <2>2. \A u \in Txns : pc'[u] = "committed" => pc[u] = "committed"
    BY <2>1 DEF Types
  <2>3. \A x \in Events : seq[x] > 0 => x # entries + 1
    BY <1>3 DEF Types
  <2>4. \A x \in Events : seq[x] > 0 => org'[x] = org[x] /\ owner'[x] = owner[x]
    BY <2>1, <2>3 DEF Types
  <2>5. QED
    BY <1>2, <1>3, <2>1, <2>2, <2>4
<1>8. ASSUME NEW t \in Txns, Begin(t) PROVE FALSE
  BY <1>4, <1>8 DEF Begin, Types
<1>9. ASSUME NEW t \in Txns, NEW p \in Orgs, Append(t, p) PROVE FALSE
  BY <1>4, <1>9 DEF Append, Types
<1>10. ASSUME NEW t \in Txns, LockChain(t) PROVE FALSE
  BY <1>4, <1>10 DEF LockChain, Types
<1>11. ASSUME UNCHANGED vars PROVE FALSE
  BY <1>4, <1>11 DEF vars
<1>12. QED
  BY <1>1, <1>5, <1>6, <1>7, <1>8, <1>9, <1>10, <1>11
     DEF Next, AppendStep, HostChange, Rollback, WaitFails, Commit, ReadTail

LEMMA ExtendStepSQLite ==
  ASSUME ~ Postgres PROVE IInvSQLite /\ [Next]_vars => Extends
<1> SUFFICES ASSUME IInvSQLite, [Next]_vars, NEW o \in Orgs,
                    NEW e \in CommittedRows(o)', NEW d \in CommittedRows(o),
                    e \notin CommittedRows(o)
             PROVE  seq[d] < seq'[e]
  BY DEF Extends
<1> USE ChainAssumption DEF IInvSQLite, RestSQLite
<1>1. \A x \in Events : seq[x] > 0 => x <= entries /\ owner[x] \in Txns
  BY RowsSQLite
<1>2. \A t \in Txns : Unflushed(t) = {} /\ ~ FlushClashes(t)
  BY RowsSQLite
<1>3. ASSUME NEW t \in Txns, Commit(t) PROVE seq[d] < seq'[e]
  <2>1. /\ pc[t] = "open" /\ UNCHANGED rowVars
        /\ \A u \in Txns : u # t => pc'[u] = pc[u]
    BY <1>2, <1>3 DEF Commit, End, Flush, rowVars, TypesSQLite
  <2>2. /\ e \in Events /\ seq[e] > 0 /\ org[e] = o /\ pc'[owner[e]] = "committed"
        /\ d \in Events /\ seq[d] > 0 /\ org[d] = o /\ pc[owner[d]] = "committed"
    BY <2>1 DEF CommittedRows, Rows, rowVars
  <2>3. pc[owner[e]] # "committed"
    BY <2>2 DEF CommittedRows, Rows
  <2>4. owner[e] = t
    BY <1>1, <2>1, <2>2, <2>3
  <2>5. QED
    BY <2>1, <2>2, <2>4 DEF Ordered, Live, rowVars
<1>4. ASSUME UNCHANGED rowVars, \A u \in Txns : pc'[u] = "committed" => pc[u] = "committed"
      PROVE  FALSE
  BY <1>1, <1>4 DEF CommittedRows, Rows, rowVars
<1>5. ASSUME NEW t \in Txns, End(t, "aborted"), UNCHANGED rowVars PROVE FALSE
  BY <1>4, <1>5 DEF End, TypesSQLite
<1>6. ASSUME NEW t \in Txns, ReadTail(t) PROVE FALSE
  BY <1>2, <1>4, <1>6 DEF ReadTail, Flush, rowVars, TypesSQLite
<1>7. ASSUME NEW t \in Txns, AddRow(t), ~ Clashes(target[t], tail[t]) PROVE FALSE
  <2>1. /\ org' = [org EXCEPT ![entries + 1] = target[t]]
        /\ owner' = [owner EXCEPT ![entries + 1] = t]
        /\ seq' = [seq EXCEPT ![entries + 1] = last_seq + 1]
        /\ pc' = [pc EXCEPT ![t] = "open"] /\ entries < MaxEvents
    BY <1>7 DEF AddRow, AddEntry, BackToHost
  <2>2. e # entries + 1
    <3>1. entries + 1 \in Events
      BY <2>1 DEF TypesSQLite, Events
    <3>2. ASSUME e = entries + 1 PROVE FALSE
      <4>1. owner'[e] = t /\ pc'[owner'[e]] = "open"
        BY <2>1, <3>1, <3>2 DEF TypesSQLite
      <4>2. QED
        BY <4>1 DEF CommittedRows
    <3>3. QED
      BY <3>2
  <2>3. e \in Events /\ org'[e] = org[e] /\ owner'[e] = owner[e] /\ seq'[e] = seq[e]
    BY <2>1, <2>2 DEF CommittedRows, Rows, TypesSQLite
  <2>4. owner[e] \in Txns /\ seq[e] > 0 /\ org[e] = o /\ pc'[owner[e]] = "committed"
    BY <1>1, <2>3 DEF CommittedRows, Rows
  <2>5. pc[owner[e]] = "committed"
    BY <2>1, <2>4 DEF TypesSQLite
  <2>6. QED
    BY <2>3, <2>4, <2>5 DEF CommittedRows, Rows
<1>8. ASSUME NEW t \in Txns, AddRow(t), Clashes(target[t], tail[t]) PROVE FALSE
  BY <1>5, <1>8 DEF AddRow
<1>9. ASSUME NEW t \in Txns, Begin(t) PROVE FALSE
  BY <1>4, <1>9 DEF Begin, TypesSQLite
<1>10. ASSUME NEW t \in Txns, NEW p \in Orgs, Append(t, p) PROVE FALSE
  BY <1>4, <1>10 DEF Append, TypesSQLite
<1>11. ASSUME NEW t \in Txns, LockChain(t) PROVE FALSE
  BY <1>4, <1>11 DEF LockChain, TypesSQLite
<1>12. ASSUME NEW t \in Txns, HostChange(t) PROVE FALSE
  BY <1>4, <1>12 DEF HostChange
<1>13. ASSUME UNCHANGED vars PROVE FALSE
  BY <1>4, <1>13 DEF vars
<1>14. QED
  BY <1>3, <1>5, <1>6, <1>7, <1>8, <1>9, <1>10, <1>11, <1>12, <1>13
     DEF Next, AppendStep, Rollback, WaitFails

\* A commit only ever extends a tenant's chain at its end: on Postgres, and on
\* SQLite in tenants whose first entry is committed already.
THEOREM ExtendTheorem ==
  ASSUME Postgres \/ Orgs \subseteq Founded PROVE Spec => CommitsExtend
<1>1. [Extends]_vars => [\A o \in Orgs : \A e \in CommittedRows(o)' : \A d \in CommittedRows(o) :
                            e \notin CommittedRows(o) => seq[d] < seq'[e]]_vars
  BY DEF Extends
<1>2. CASE Postgres
  <2>1. IInv /\ [Next]_vars => [Extends]_vars
    BY <1>2, ExtendStep
  <2>2. QED
    BY <1>1, <1>2, <2>1, Invariance, PTL DEF Spec, CommitsExtend
<1>3. CASE ~ Postgres /\ Orgs \subseteq Founded
  <2>1. IInvSQLite /\ [Next]_vars => [Extends]_vars
    BY <1>3, ExtendStepSQLite
  <2>2. QED
    BY <1>1, <1>3, <2>1, InvarianceSQLite, PTL DEF Spec, CommitsExtend
<1>4. QED
  BY <1>2, <1>3
=============================================================================
