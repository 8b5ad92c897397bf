CONSTANTS
  Searches = {1, 2}
  Record <- MCRecord
  Provider = {"p", "q"}
  Providers <- MCProviders
  KeysOf <- MCKeysOf
  Seeds <- MCSeeds
  Rank <- MCRank
  Worlds <- MCWorlds
  Depth <- MCDepth
  Width = 2
  MaxTotal <- MCMaxTotalFree
  Absent = Absent

SPECIFICATION CollectSpec

INVARIANTS
  AliasesConverge

CHECK_DEADLOCK FALSE
