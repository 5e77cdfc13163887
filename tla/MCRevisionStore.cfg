CONSTANTS
  Device = {d1, d2}
  Events <- MCEvents
  EntityId <- MCEntityId
  Text <- MCText
  Sha256 <- MCSha256
  MaxSchemaVersion = 2
  Blank = Blank
  Oversized = Oversized
  Nul = Nul
  Null = Null
  Absent = Absent
  Mistyped = Mistyped
  NoPayload = NoPayload
  NotObject = NotObject
  NoRow = NoRow
SYMMETRY DeviceSymmetry
SPECIFICATION StoreSpec
INVARIANTS
  OneWinnerPerVersion
  ProjectionIsNewest
  LosersNameTheirWinner
  ContentIndexSound
  ArchiveIndexAggregates
PROPERTY NothingIsUndone
CHECK_DEADLOCK FALSE
