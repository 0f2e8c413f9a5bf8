------------------------------- MODULE MCJobs -------------------------------
(* Instances of JobRunner for TLC.                                          *)
EXTENDS JobRunner, TLC

CONSTANTS c1, c2, k1, s1, t1, t2, w1, w2

\* Both calls of enqueue pass the same idempotency key.
SameKey == (c1 :> k1) @@ (c2 :> k1)
NoCalls == [c \in {} |-> k1]

WorkerSymmetry == Permutations(Workers)
=============================================================================
