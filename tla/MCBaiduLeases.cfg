CONSTANTS
  Uid = {u1}
  Device = {d1, d2}
  Req = {q1, q2}
  Durations = {0, 1, 4}
  DefaultLease = 2
  ShortestLease = 2
  LongestLease = 3
  AskedStatus = {"unset"}
  Skew = 1
  LockKey <- MCLockKey
  UidLock <- OwnUidLock
  LeaseLock <- OwnLeaseLock
  MaxToken = 1
  MaxClock = 3
  NoRow = NoRow
SYMMETRY Symmetry
SPECIFICATION AccountsSafe
INVARIANTS
  LeasesAreShort
  AccountsInv
PROPERTIES
  LeasesChangeHandsAtTheirEnd
