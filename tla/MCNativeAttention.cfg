SPECIFICATION Spec
CONSTANTS
  c1 = c1
  c2 = c2
  r1 = r1
  r2 = r2
  r3 = r3
  ka = ka
  kb = kb
  alice = alice
  NoReq = NoReq
  Callers = {c1, c2}
  Requests <- OneKey
  Keys = {ka}
  Actors = {alice}
  ActorOf <- MCActorOf
  CridOf <- MCCridOf
  KeyOf <- MCKeyOf
  MaxQueuedPerActor = 1
  MaxGitProcesses = 1
  MaxOps = 2
  MaxCrashes = 0
  MaxFaults = 0
SYMMETRY MCSymmetry
INVARIANT
  BlockRuleAgrees
