--------------------------- MODULE MCProjectMemory ---------------------------
(* TLC instance of ProjectMemory: projects, configurations, requests and   *)
(* processes are interchangeable.                                          *)
EXTENDS ProjectMemory, TLC

Alike == Permutations(Project) \cup Permutations(Config)
         \cup Permutations(Request) \cup Permutations(Child)
=============================================================================
