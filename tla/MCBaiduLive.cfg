CONSTANTS
  Uid = {u1}
  Device = {d1}
  Req = {q1, q2}
  Durations = {1}
  DefaultLease = 1
  ShortestLease = 1
  LongestLease = 1
  AskedStatus = {"unset"}
  Skew = 0
  LockKey <- MCLockKey
  UidLock <- OwnUidLock
  LeaseLock <- OwnLeaseLock
  MaxToken = 3
  MaxClock = 0
  NoRow = NoRow
SPECIFICATION AccountsSpec
PROPERTIES
  EveryRequestAnswered
