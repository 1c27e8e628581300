SPECIFICATION Spec
CONSTANTS
  w1 = w1
  w2 = w2
  w3 = w3
  r1 = r1
  r2 = r2
  r3 = r3
  ka = ka
  kb = kb
  alice = alice
  bob = bob
  Tickets <- MCTickets
  Keys <- MCKeys
  ActorOf <- MCActorOf
  KeyOf <- MCKeyOf
  ModeOf <- MCModeOf
  MaxQueuedPerActor = 2
  MaxGitProcesses = 3
  MaxReadersPerKey = 2
INVARIANTS
  TypeOK
  LimitsHold
  PassOfWrites
PROPERTIES
  WritesKeepTheirOrder
  QueuedJobStarts
