SPECIFICATION Spec
CONSTANTS
  c1 = c1
  r1 = r1
  r2 = r2
  ka = ka
  kb = kb
  NoReq = NoReq
  Callers = {c1}
  Requests = {r1}
  Keys = {ka}
  KeyOf <- MCKeyOf
  CridOf <- MCCridOf
  Outcomes = {"succeeded"}
  MaxQueuedPerActor = 1
  MaxGitProcesses = 2
  MaxLookup = 2
  MaxLines = 4
  MaxOps = 2
  MaxCrashes = 2
  MaxFaults = 0
INVARIANTS
  CrashLeavesReadable
CHECK_DEADLOCK FALSE
