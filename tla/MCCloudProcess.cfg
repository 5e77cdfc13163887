CONSTANTS
  Device = {d1, d2}
  Req = {q1, q2}
  NoToken = NoToken
  DatabaseFails = TRUE
  p1 = p1
  p2 = p2
  v1 = v1
  v2 = v2
  Empty = Empty
  Blank = Blank
  Nul = Nul
  Missing = Missing
  Unreadable = Unreadable
  Key <- MCKey
  Text <- MCText
  Path <- MCPath
  Candidates <- MCCandidates
  Disks <- MCDisks
  Environments <- MCEnvironments
  Flags <- MCFlags
SPECIFICATION ProcessSpec
INVARIANTS
  ProcessTypeOK
  GateHolds
  IssuedIsRegistered
  FirstValueWins
  NamedFileDecides
  ReportExplains
PROPERTIES
  RevocationTakesHold
  StopEnds
