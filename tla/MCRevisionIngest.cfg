CONSTANTS
  Req = {q1, q2}
  Device = {d1}
  Batches <- MCBatches
  MaxEvents = 2
  PoolSize = 2
  LockKey <- MCLockKey
  HashText <- TwoKeys
  DatabaseFails = TRUE
  Events <- MCEvents
  EntityId <- MCEntityId
  Text <- MCText
  Sha256 <- MCSha256
  MaxSchemaVersion = 2
  Blank = Blank
  Oversized = Oversized
  Nul = Nul
  Null = Null
  Absent = Absent
  Mistyped = Mistyped
  NoPayload = NoPayload
  NotObject = NotObject
  NoRow = NoRow
SYMMETRY Symmetry
SPECIFICATION IngestSafe
INVARIANTS
  IngestInv
  RepliesTruthful
  RepliesComplete
PROPERTIES
  ImplementsStore
