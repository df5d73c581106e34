\* Two players in parties and in the queue, with any number of connections,
\* those of one of them for other accounts, too.
CONSTANTS
  Players = {ann, bob}
  PartyIds = {X, Y}
  NoParty = NoParty
  Relogins = {ann, bob}
  Switches = {bob}
  Ratings = {1000}
  Opponents <- Wild
  MatchSize = 2
  QueueTimeout = 0
  BaseTolerance = 100
  ExpansionPeriod = 10
  ExpansionRate = 100
  AnySize <- Minus1
  Nobody = Nobody
  MaxLag = 0
SYMMETRY IdSymmetry
SPECIFICATION ArenaSpec
VIEW ServerState
INVARIANT QueuedOnline
PROPERTY ImplementsMatchmaker
CONSTRAINT NoCollision
