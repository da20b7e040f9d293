SPECIFICATION Spec
CONSTANTS
  ByteBase = 3
  AmountBytes = 2
  KeyBytes = 3
  JsLimit = 7
  MaxInput = 4
  Keys <- MCKeys
INVARIANTS
  InstructionsArrive
  OnlyPackedAccepted
  EscrowReadAlike
