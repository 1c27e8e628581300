SPECIFICATION Spec
CONSTANTS
  MaxEvents = 2
  ChannelCapacity = 2
  MaxPublishers = 2
  MaxSequence = 5
  MaxDrops = 2
INVARIANTS
  TypeOK
  ConnectedKnowsAll
  LostOnlyByKnownCauses
PROPERTY
  EventArrives
CHECK_DEADLOCK FALSE
