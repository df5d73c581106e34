\* Two calls of two types, one of which the server does not know.
CONSTANTS
  Packets = {1, 2}
  Threads = {io}
  IO = io
  Garbage = Garbage
  MaxCalls = 2
  Types = {login, friends}
  Answered = {login}
  None = None
SPECIFICATION WireFairSpec
INVARIANTS OneWrite AnsweredOnce OwnAnswer
PROPERTIES ImplementsChannel EndNoticed Completed ImplementsClient
CHECK_DEADLOCK FALSE
