\* A client that mixes framings, closes its pipe and signals the server.
CONSTANTS
  Kinds <- MCKinds
  Frames <- MCFrames
  MaxMessages = 3
  PipeSize = 2
  Slots = 8

SPECIFICATION FairSpec

INVARIANTS
  TypeOK
  MessagesInOrder
  AnswersFollowRequests

PROPERTIES
  EveryRequestAnswered
  ClosingStops
  ImplementsRequestLine

CHECK_DEADLOCK FALSE
