CONSTANTS
  Uid = {u1}
  Device = {d1, d2}
  Req = {q1, q2}
  Durations = {1}
  DefaultLease = 1
  ShortestLease = 1
  LongestLease = 1
  AskedStatus = {"unset", "invalid"}
  Skew = 0
  LockKey <- MCLockKey
  UidLock <- OwnUidLock
  LeaseLock <- OwnLeaseLock
  MaxToken = 3
  MaxClock = 0
  NoRow = NoRow
SYMMETRY Symmetry
SPECIFICATION AccountsSafe
INVARIANTS
  OnlyOneDeviceDeadlocks
  VersionNamesToken
PROPERTIES
  ImplementsRegister
  UpdatesBuildOnTheirBase
