\* The matchmaker thread sends while the I/O thread does.
CONSTANTS
  Packets = {p1, p2}
  Threads = {io, matchmaker}
  IO = io
  Garbage = Garbage
SPECIFICATION ConnSpec
INVARIANT Framed
CHECK_DEADLOCK FALSE
