CONSTANTS
  Req = {q1, q2, q3}
  Device = {d1}
  Batches <- SmallBatches
  MaxEvents = 2
  PoolSize = 2
  LockKey <- MCLockKey
  HashText <- TwoKeys
  DatabaseFails = FALSE
  Events <- MCEvents
  EntityId <- MCEntityId
  Text <- MCText
  Sha256 <- MCSha256
  MaxSchemaVersion = 2
  Blank = Blank
  Oversized = Oversized
  Nul = Nul
  Null = Null
  Absent = Absent
  Mistyped = Mistyped
  NoPayload = NoPayload
  NotObject = NotObject
  NoRow = NoRow
SPECIFICATION IngestSpec
INVARIANTS
  NoCircularWait
  UnavailableHasACause
PROPERTIES
  EveryBatchAnswered
