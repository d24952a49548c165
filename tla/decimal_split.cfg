CONSTANTS
  Alphabet = {"digit", "stop"}
  MaxPush = 2
  Texts <- ShortTexts
  SoftMin = 1
  HardMax = 4
  Window = 8
  MaxText = 4
SPECIFICATION Spec
INVARIANTS
  DecimalKept
