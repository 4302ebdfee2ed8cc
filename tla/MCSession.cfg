CONSTANTS
  Payload = {p}
  NoPayload = NoPayload
  MaxPayloadSize = 2
  Requests <- EveryKind
  MaxFrames = 3
SPECIFICATION FairSpec
\* The client may leave and the session end: nothing is left to do then.
CHECK_DEADLOCK FALSE
INVARIANTS
  TypeOK
  ListensUntilStopped
  OneWriteAtATime
PROPERTIES
  NothingAfterCut
  StoppedForGood
  AnswersInOrder
  KeepsSessionLife
  ReleasedInTheEnd
  EveryRequestAnswered
