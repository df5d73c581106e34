\* One player on one connection at a time, three whose connections overlap and
\* switch accounts; ids collide, and the server may crash for it.
CONSTANTS
  Players = {ann, bob, cat, dan}
  PartyIds = {X, Y, Z}
  NoParty = NoParty
  Relogins = {bob, cat, dan}
  Switches = {bob, cat, dan}
SYMMETRY AlikeSymmetry
SPECIFICATION Spec
INVARIANTS TypeOK Membership Filed Survives MembersOnline ViewInSync
PROPERTY Succession
CHECK_DEADLOCK FALSE
VIEW ServerState
