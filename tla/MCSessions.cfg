\* Connections of two players overlap, switch and end late; Redis may fail and the server restart.
CONSTANTS
  Players = {ann, bob}
  Conns = {c1, c2, c3}
  Nobody = Nobody
  RedisFails = TRUE
SYMMETRY Symmetry
SPECIFICATION Spec
INVARIANTS TypeOK PresenceFresh Delivered Reachable
PROPERTY ImplementsSessions
