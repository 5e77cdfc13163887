----------------------------- MODULE BaiduReplies -----------------------------
(***************************************************************************)
(* What the OAuth client makes of the fields in Baidu's JSON: how long a    *)
(* token and a device code live and how a user is named.  Baidu sends       *)
(* numbers as numbers or as texts, or not at all; the client reads them     *)
(* into 64 bit integers, and the handlers make points in time of them.      *)
(*                                                                          *)
(* Integers are those of 64 bits, or of fewer, a second has Unit            *)
(* nanoseconds, and float64 has every integer as far as Exact and from      *)
(* there on only some, so that TLC meets the limits of all three.           *)
(***************************************************************************)
EXTENDS Integers

CONSTANTS
  Half,             \* half the number of integers, 2^63 in the code
  Unit,             \* 10^9 in the code
  Numbers,          \* the numbers in replies
  Floats,           \* the integers that float64 has
  Exact,            \* 2^53 in the code
  DefaultLifetime,  \* of a token, thirty days in the code
  DefaultStart,     \* of a device code, 1800 seconds in the code
  Absent, Null,     \* no field or an empty text, and null
  Other,            \* an array, an object, a truth value or a number beyond float64
  Word              \* a text that is not an integer

MaxInt == Half - 1
MinInt == -Half
Bits(n) == ((n - MinInt) % (2 * Half)) + MinInt

ASSUME RepliesAssumption ==
  /\ Half \in Nat \ {0} /\ Unit \in Nat \ {0} /\ Numbers \subseteq Int
  /\ Exact \in (MaxInt \div Unit)..MaxInt
  /\ (-Exact)..Exact \subseteq Floats /\ Floats \subseteq Int
  /\ {DefaultLifetime, DefaultStart} \subseteq 1..(MaxInt \div Unit)

\* A name that is an integer in a text.
Spelled(spelling, n) == [spelling |-> spelling, n |-> n]

ASSUME ReplyFormsAssumption ==
  /\ Word \notin {Absent, Null, Other}
  /\ Absent \notin [spelling: {"text", "padded"}, n: Int]

\* A number in digits, one with a point or an exponent, of which n is the integer
\* part, or an integer in a text, spelled as strconv.FormatInt spells it or with
\* zeros or a sign in front.  A fraction so near to the next integer that float64
\* takes it for that counts as that.
Forms == {"integer", "float", "text", "padded"}
Scalar == {Absent, Null, Other, Word} \cup [form: Forms, n: Numbers]
IsNumber(v) == v \notin {Absent, Null, Other, Word}
IsText(v) == v.form \in {"text", "padded"}
-----------------------------------------------------------------------------
InRange(n) == n \in MinInt..MaxInt
Nearest(n) == IF n > MaxInt THEN MaxInt ELSE IF n < MinInt THEN MinInt ELSE n

\* What float64 makes of a number; between two that are as near it is either.
Distance(m, n) == IF m < n THEN n - m ELSE m - n
NearestFloats(n) == {f \in Floats : \A g \in Floats : Distance(f, n) <= Distance(g, n)}

\* int64(f): out of range Go leaves the result to the machine, the smallest integer
\* on one and the nearest on another.
Truncations(f) == IF InRange(f) THEN {f} ELSE {MinInt, Nearest(f)}
FromFloat(n) == UNION {Truncations(f) : f \in NearestFloats(n)}

\* What json.Unmarshal and the conversion make of a number that is not in a text.
IntegersOf(v) == IF v.form = "integer" /\ InRange(v.n) THEN {v.n} ELSE FromFloat(v.n)

\* parseJSONInt64: strconv.ParseInt returns the nearest integer with an error, and
\* the error is ignored.
ParseInt64(v) ==
  IF ~ IsNumber(v) THEN {0} ELSE IF IsText(v) THEN {Nearest(v.n)} ELSE IntegersOf(v)

\* Variant, never used: every number goes through float64.
NamesThroughFloat(v) ==
  IF v \in {Absent, Null, Other} THEN {Absent}
  ELSE IF v = Word THEN {Word}
  ELSE IF IsText(v) THEN {Spelled(v.form, v.n)}
  ELSE {Spelled("text", n) : n \in FromFloat(v.n)}

\* rawJSONScalar: a text is taken as it is, a number becomes one; Absent is the
\* empty text.
NamesOf(v) ==
  IF v \in {Absent, Null, Other} THEN {Absent}
  ELSE IF v = Word THEN {Word}
  ELSE IF IsText(v) THEN {Spelled(v.form, v.n)}
  ELSE {Spelled("text", n) : n \in IntegersOf(v)}
-----------------------------------------------------------------------------
\* The end of a lifetime that starts now, at 0: a product of 64 bit integers.
Until(lifetime) == Bits(lifetime * Unit)

\* Variant, never used: a lifetime that is not there counts as zero.
TokenLifetimesAsIs(v) == ParseInt64(v)

\* exchangeToken: a lifetime that is not positive is replaced.
TokenLifetimes(v) == {IF n <= 0 THEN DefaultLifetime ELSE n : n \in ParseInt64(v)}

\* GetUserInfo: uk stands in for a uid that is empty; Absent is an error.
UserNames(uid, uk) == UNION {IF n = Absent THEN NamesOf(uk) ELSE {n} : n \in NamesOf(uid)}

\* StartDeviceAuth: expires_in is an integer field, so that a text, a fraction or a
\* number out of range makes the whole reply unreadable.
Decodes(v) == v \in {Absent, Null} \/ (IsNumber(v) /\ v.form = "integer" /\ InRange(v.n))

StartLifetime(v) == IF IsNumber(v) /\ v.n > 0 THEN v.n ELSE DefaultStart

\* How many whole seconds a device code lasts; of the end only whole seconds tell.
StartSeconds(v) == Until(StartLifetime(v)) \div Unit
-----------------------------------------------------------------------------
(* What it should be *)

Longest == MaxInt \div Unit

\* The whole seconds that expires_in means, whatever its form, if they are positive.
Meant(v, default) == IF IsNumber(v) /\ v.n > 0 THEN v.n ELSE default

\* It takes a lifetime of more than 292 years for the product to overflow.
TokenEndsAsMeant(v) ==
  Meant(v, DefaultLifetime) <= Longest =>
    \A n \in TokenLifetimes(v) :
      Until(n) = Meant(v, DefaultLifetime) * Unit /\ Until(n) > 0

\* A text, an integer of 64 bits, or a number that float64 is sure to have.
Readable(v) ==
  \/ v = Word
  \/ IsNumber(v) /\ \/ IsText(v)
                    \/ v.form = "integer" /\ InRange(v.n)
                    \/ v.n \in (-Exact)..Exact

OwnName(v) == IF v = Word THEN Word
              ELSE Spelled(IF v.form = "padded" THEN "padded" ELSE "text", v.n)

NamedByUidFirst(uid, uk) ==
  LET given == IF uid \in {Absent, Null, Other} THEN uk ELSE uid
  IN /\ given \in {Absent, Null, Other} => UserNames(uid, uk) = {Absent}
     /\ Readable(given) => UserNames(uid, uk) = {OwnName(given)}

LifetimesAreMeant == \A v \in Scalar : TokenEndsAsMeant(v)
NamesAreOwn == \A uid, uk \in Scalar : NamedByUidFirst(uid, uk)
=============================================================================
