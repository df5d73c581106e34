\* Pairs the server can match: no entry stays for good.
CONSTANTS
  Players = {ann, bob}
  Teams <- Pairs
  Ratings = {1000}
  Opponents <- WildOrFew
  MatchSize = 2
  QueueTimeout = 0
  BaseTolerance = 100
  ExpansionPeriod = 1
  ExpansionRate = 100
  AnySize <- Minus1
  Nobody = Nobody
  MaxLag = 1
SPECIFICATION FairSpec
PROPERTY QueueDrains
