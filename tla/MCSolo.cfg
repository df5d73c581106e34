\* Everybody queues alone: every request is answered.
CONSTANTS
  Players = {ann, bob, cat}
  Teams <- Solo
  Ratings = {1000}
  Opponents = {1}
  MatchSize = 2
  QueueTimeout = 0
  BaseTolerance = 100
  ExpansionPeriod = 1
  ExpansionRate = 100
  AnySize <- Minus1
  Nobody = Nobody
  MaxLag = 0
SPECIFICATION FairSpec
INVARIANTS TypeOK NobodyForgotten
PROPERTY Answered
