CONSTANTS
  Searches = {1, 2}
  Record <- MCRecord
  Provider = {"p", "q"}
  Providers <- MCProviders
  KeysOf <- MCKeysOf
  Seeds <- MCSeeds
  Rank <- MCRank
  Worlds <- MCWorlds
  Depth <- MCDepth
  Width = 2
  MaxTotal <- MCMaxTotal
  Absent = Absent

SPECIFICATION CollectSpec

INVARIANTS
  CollectTypeOK
  CollectionIsSound
  CollectionIsComplete

\* The server may rest when all searches have ended.
CHECK_DEADLOCK FALSE
