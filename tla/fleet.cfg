CONSTANTS
  Keys = {k1, k2}
  Ips = {i1}
  Slashed <- MCSlashed
  Requests = {r1, r2}
  Calls <- MCCalls
  MaxEpoch = 1
  ImageDisk = NoFile
  NoKey = NoKey
  Absent = Absent
  NoIps = NoIps
  BadIps = BadIps
  Idle = Idle
  NoCall = NoCall
  NoDir = NoDir
  NoFile = NoFile
  Unexpanded = Unexpanded
  Jobs <- MCJobs
  NoJob = NoJob
  NoRow = NoRow
  Never = Never
SPECIFICATION FairFleet
PROPERTY KeepsPanel
PROPERTY EveryAdminRequestEnds
CHECK_DEADLOCK FALSE
