\* Three players with every friendship, and reports of up to two of them on two matches.
CONSTANTS
  Players = {p1, p2, p3}
  Initial = 10
  Gain = 25
  Loss = 15
  NoRow = NoRow
  MatchIds = {m1, m2}
  NoPlayer = NoPlayer
  None = None
  HistoryLimit = 1
  MaxPlayers = 2
  MaxGames = 2
SYMMETRY Symmetry
SPECIFICATION MCSpec
INVARIANTS DbTypeOK Friendship RatingFits
PROPERTY HistoryWhole
