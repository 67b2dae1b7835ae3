SPECIFICATION Spec
CONSTANTS
  WordBits = 15
  TagBits = 8
  Texts <- SomeTexts
  Words <- SomeWords
  Integers64 <- SomeInts
  BigInts <- SomeBigInts
  Extras <- SomeExtras
  Overlong <- SomeOverlong
INVARIANTS
  RoundTrip
  DamageInventsNothing
CHECK_DEADLOCK FALSE
