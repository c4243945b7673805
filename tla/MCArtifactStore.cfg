SPECIFICATION Spec
CONSTANTS
  p1 = p1
  p2 = p2
  k1 = k1
  k2 = k2
  b1 = b1
  b2 = b2
  Absent = Absent
  Rotten = Rotten
  Putters <- MCPutters
  Getters <- MCGetters
  Deleters <- MCDeleters
  Sweepers <- MCSweepers
  Offers <- MCOffers
  Described <- MCDescribed
  Keys <- MCKeys
  Contents <- MCContents
  ShardOf <- MCShardOf
  KindOf <- MCKindOf
  RankOf <- MCRankOf
  SizeOf <- MCSizeOf
  ManifestSize = 1
  Policies <- MCPolicies
  MaxEvents = 1
INVARIANTS AcceptedIsServed RoutesSurvive SweepReachesTarget
PROPERTY OneValuePerKey
