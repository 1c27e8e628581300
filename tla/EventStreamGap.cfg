SPECIFICATION Spec
CONSTANTS
  MaxEvents = 2
  ChannelCapacity = 2
  MaxPublishers = 1
  MaxSequence = 4
  MaxDrops = 2
INVARIANT
  ResumeLosesNothing
CHECK_DEADLOCK FALSE
