------------------------- MODULE MCRecursiveCollect -------------------------
(* TLC instance of RecursiveCollect: four records of three papers, where   *)
(* record 3 shares one key with record 2 and another with record 4, two    *)
(* providers of which the second search asks one.                          *)
EXTENDS RecursiveCollect, TLC

MCRecord == 1..4
MCKeysOf == <<<<"a">>, <<"b">>, <<"c", "b">>, <<"c">>>>
MCProviders == [r \in Searches |-> IF r = 1 THEN {"p", "q"} ELSE {"p"}]
MCDepth == <<3, 2>>
MCMaxTotal == <<3, 2>>
MCMaxTotalFree == <<4, 3>>
MCSeeds == <<<<1, 1>>, <<1>>>>
MCRank == [x \in {"p", "q"} \X MCRecord |-> IF x[1] = "p" THEN 2 * x[2] ELSE 11 - 2 * x[2]]
\* Record 1 cites up to three others, some of which cite each other and record 1.
MCWorlds ==
  {[v \in {"p", "q"} |-> IF v = "p" THEN <<x[1], {1, 3}, {4}, {1}>> ELSE <<x[2], {}, {1}, {}>>] :
     x \in {<<{3, 4}, {2}>>, <<{2, 3, 4}, {4}>>}}
=============================================================================
