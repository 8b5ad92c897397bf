-------------------------- MODULE MCRelatedWorkRun ---------------------------
(* TLC instance of RelatedWorkRun: one proposal, two requests that start   *)
(* searches.  No symmetry: the run also checks liveness.                   *)
EXTENDS RelatedWorkRun
=============================================================================
