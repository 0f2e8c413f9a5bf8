------------------------------ MODULE MCBreaker ------------------------------
(* Two callers of OracleBreaker that use different resources, for TLC.      *)
EXTENDS OracleBreaker, TLC

CONSTANTS c1, c2, positions, grades

OneEach == c1 :> positions @@ c2 :> grades
=============================================================================
