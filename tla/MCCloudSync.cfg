CONSTANTS
  Reader = {q1}
  HistoryLimit = 2
  Req = {r1, r2}
  Batches <- MCBatches
  MaxEvents = 2
  PoolSize = 1
  LockKey <- MCLockKey
  HashText <- TwoKeys
  DatabaseFails = FALSE
  Device = {d1}
  Events <- MCEvents
  EntityId <- MCEntityId
  Text <- MCText
  Sha256 <- MCSha256
  MaxSchemaVersion = 2
  Blank = Blank
  Oversized = Oversized
  Nul = Nul
  Null = Null
  Absent = Absent
  Mistyped = Mistyped
  NoPayload = NoPayload
  NotObject = NotObject
  NoRow = NoRow
SYMMETRY Symmetry
SPECIFICATION SyncSpec
INVARIANTS
  HistoryReachesState
  TornIsOvertaken
  RepliesShow
PROPERTIES
  AnswersGoOn
