CONSTANTS
  Uid = {u1}
  Device = {d1, d2}
  Req = {q1, q2}
  Durations = {1}
  DefaultLease = 1
  ShortestLease = 1
  LongestLease = 1
  AskedStatus = {"unset"}
  Skew = 0
  LockKey <- MCLockKey
  UidLock <- OwnUidLock
  LeaseLock <- OwnLeaseLock
  MaxToken = 2
  MaxClock = 1
  NoRow = NoRow
SYMMETRY Symmetry
SPECIFICATION AccountsSafe
PROPERTIES
  UpdateUnderLease
