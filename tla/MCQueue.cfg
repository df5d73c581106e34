\* Every queue of up to four teams of one or two players.
CONSTANTS
  Players <- Everybody
  MaxEntries = 4
  Sizes = {1, 2}
  TeamRatings = {1000, 1150}
  Targets <- Targets24
  Waits = {0, 10, 31}
  Lags = {0, 1}
  MatchSize = 3
  QueueTimeout = 30
  BaseTolerance = 100
  ExpansionPeriod = 10
  ExpansionRate = 100
  AnySize <- Minus1
SPECIFICATION SearchSpec
INVARIANTS SearchSound FirstComeFirstServed NoDuelMissed
CHECK_DEADLOCK FALSE
