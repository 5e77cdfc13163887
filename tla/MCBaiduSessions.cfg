CONSTANTS
  Session = {s1}
  Uid = {u1, u2}
  Req = {q1, q2}
  k1 = k1
  Key <- MCKey
  BadKey = BadKey
  Asked <- MCAsked
  Offers <- MCOffers
  Half = 128
  Unit = 10
  Numbers <- MCNumbers
  Floats <- MCFloats
  Exact = 16
  DefaultLifetime = 5
  DefaultStart = 1
  Absent = Absent
  Null = Null
  Other = Other
  Word = Word
  StartReplies <- MCReplies
  CallbackLifetime = 0
  MayFail = TRUE
  MaxCode = 2
  MaxClock = 1
  None = None
  Stray = Stray
SPECIFICATION SessionsSpec
INVARIANTS
  CompletedKeepsNoCode
  TokensAreTheirUsers
  LifetimeIsMeant
  UserIsNamed
PROPERTIES
  ImplementsBinding
  ExpiredCompletesOnlyFromBefore
  RedeemedIsSettled
