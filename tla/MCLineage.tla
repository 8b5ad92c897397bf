------------------------------ MODULE MCLineage ------------------------------
(* TLC instance of Lineage: runs that used a passage of evidence and the    *)
(* commit; the evidence was extracted from a paper.                         *)
EXTENDS Lineage, TLC

CONSTANTS paper, evidence, commit, before, after

MCSources == [u \in Records |-> {p \in Records : u = evidence /\ p = paper}]
MCInputs == [r \in Runs |-> {evidence, commit}]

WorkersAreAlike == Permutations(Workers)
=============================================================================
