CONSTANTS
  k1 = k1
  k2 = k2
  k3 = k3
  i1 = i1
  Keys = {k1, k2, k3}
  Ips = {i1}
  Slashed <- MCSlashed
  Requests = {r1, r2}
  Calls <- MCCalls
  MaxEpoch = 2
  ImageDisk = NoFile
  NoKey = NoKey
  Absent = Absent
  NoIps = NoIps
  BadIps = BadIps
  Idle = Idle
  NoCall = NoCall
  NoDir = NoDir
  NoFile = NoFile
  Unexpanded = Unexpanded
SPECIFICATION Spec
PROPERTY ChangeReachesDisk
CHECK_DEADLOCK FALSE
