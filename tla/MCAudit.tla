------------------------------- MODULE MCAudit -------------------------------
(* AuditChain for TLC on both engines: a behavior runs on one of them.  On     *)
(* Postgres one tenant's chain has entries already and the other's has none;   *)
(* on SQLite the only tenant's chain has entries.                              *)
EXTENDS AuditChain

CONSTANTS t1, t2, t3, o1, o2

VARIABLE engine

SQLite == INSTANCE AuditChain WITH Postgres <- FALSE, Orgs <- {o1}

OnEither(postgres, sqlite) ==
    \/ engine = "postgres" /\ postgres
    \/ engine = "sqlite" /\ sqlite

EngineInit == engine \in {"postgres", "sqlite"} /\ OnEither(Init, SQLite!Init)
EngineNext == OnEither(Next, SQLite!Next) /\ UNCHANGED engine

\* The fairness of AuditChain, on the engine of the behavior.
EngineFairSpec ==
    /\ EngineInit /\ [][EngineNext]_<<engine, vars>>
    /\ \A t \in Txns :
        /\ WF_vars(OnEither(AppendStep(t), SQLite!AppendStep(t)))
        /\ WF_vars(OnEither(Commit(t), SQLite!Commit(t)))
        /\ WF_vars(OnEither(WaitFails(t), SQLite!WaitFails(t)))
=============================================================================
