SPECIFICATION Spec
CONSTANTS
  c1 = c1
  r1 = r1
  r2 = r2
  ka = ka
  kb = kb
  NoReq = NoReq
  Callers = {c1}
  Requests = {r1}
  Keys = {ka}
  KeyOf <- MCKeyOf
  CridOf <- MCCridOf
  Outcomes = {"succeeded"}
  MaxQueuedPerActor = 1
  MaxGitProcesses = 2
  MaxLookup = 2
  MaxLines = 3
  MaxOps = 3
  MaxCrashes = 0
  MaxFaults = 0
INVARIANTS
  RunsOnRecord
CHECK_DEADLOCK FALSE
