CONSTANTS
  Keys = {k1, k2, k3}
  Ips = {i1}
  Requests = {r1, r2, r3}
  Jobs <- JobType
  NoKey = NoKey
  Absent = Absent
  NoIps = NoIps
  NoCall = NoCall
  NoRow = NoRow
  Never = Never
  NoJob = NoJob
SPECIFICATION Spec
CONSTRAINT OneOther
SYMMETRY Symmetry
INVARIANT TypeOK
INVARIANT RevokedIsGone
INVARIANT HandedOutHasRow
INVARIANT OrphansComeFromFailedCreates
PROPERTY RevokeMeansGone
PROPERTY KeepsPeerLife
CHECK_DEADLOCK FALSE
