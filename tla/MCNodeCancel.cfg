SPECIFICATION Spec
CONSTANTS
  c1 = c1
  r1 = r1
  r2 = r2
  ka = ka
  kb = kb
  NoReq = NoReq
  Callers = {c1}
  Requests = {r1, r2}
  Keys = {ka, kb}
  KeyOf <- MCKeyOf
  CridOf <- MCCridOf
  Outcomes = {"succeeded"}
  MaxQueuedPerActor = 1
  MaxGitProcesses = 1
  MaxLookup = 2
  MaxLines = 3
  MaxOps = 2
  MaxCrashes = 0
  MaxFaults = 0
PROPERTIES
  CancelledIsRecorded
CHECK_DEADLOCK FALSE
