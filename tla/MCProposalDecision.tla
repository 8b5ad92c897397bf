------------------------ MODULE MCProposalDecision -------------------------
(* TLC instance of ProposalDecision: interchangeable requests and proposals *)
(* of one kind.                                                             *)
EXTENDS ProposalDecision, TLC

RequestsAreAlike ==
  Permutations(Requests) \cup Permutations(Patches) \cup Permutations(Revisions)
=============================================================================
