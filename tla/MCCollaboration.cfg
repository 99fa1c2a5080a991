CONSTANTS
  Request = {"r1"}
  Chat = {"c1"}
  Handoff = {"h1", "h2"}
  PollLimit = 1
  SnapshotLimit = 2
  StreamLimit = 2
  MaxCrashes = 1

SPECIFICATION Spec

INVARIANTS
  EventsNameMessages
  OnlyNewEventsStreamed

PROPERTIES
  NewEventsStreamed
  RoomStored
