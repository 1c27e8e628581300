SPECIFICATION FairSpec
CONSTANTS
  c1 = c1
  c2 = c2
  r1 = r1
  r2 = r2
  r3 = r3
  ka = ka
  kb = kb
  alice = alice
  NoReq = NoReq
  Callers = {c1}
  Requests <- TwoKeys
  Keys = {ka, kb}
  Actors = {alice}
  ActorOf <- MCActorOf
  CridOf <- MCCridOf
  KeyOf <- MCKeyOf
  MaxQueuedPerActor = 2
  MaxGitProcesses = 2
  MaxOps = 2
  MaxCrashes = 1
  MaxFaults = 1
PROPERTIES
  SlotIsReleased
  CallReturns
