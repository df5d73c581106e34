\* Three players, alone or in pairs, of two ratings that tolerate each other late.
CONSTANTS
  Players = {ann, bob, cat}
  Teams <- Pairs
  Ratings = {1000, 1101}
  Opponents = {1}
  MatchSize = 2
  QueueTimeout = 1
  BaseTolerance = 100
  ExpansionPeriod = 1
  ExpansionRate = 100
  AnySize <- Minus1
  Nobody = Nobody
  MaxLag = 1
SYMMETRY Symmetry
SPECIFICATION Spec
VIEW QueueAndThread
INVARIANTS QueueSound MatchSound PendingSound
