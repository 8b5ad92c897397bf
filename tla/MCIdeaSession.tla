---------------------------- MODULE MCIdeaSession ----------------------------
(* TLC instance of IdeaSession: turns, projects and files are              *)
(* interchangeable.                                                        *)
EXTENDS IdeaSession, TLC

Alike == Permutations(Turn) \cup Permutations(Project) \cup Permutations(File)
=============================================================================
