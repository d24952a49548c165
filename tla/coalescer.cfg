CONSTANTS
  Alphabet = {"digit", "space", "stop", "comma"}
  MaxPush = 2
  Texts <- ShortTexts
  SoftMin = 2
  HardMax = 4
  Window = 3
  MaxText = 6
SPECIFICATION Spec
INVARIANTS
  TypeOK
  Conservation
  Bounded
  NumbersWhole
PROPERTIES
  TurnsShrink
