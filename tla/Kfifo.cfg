SPECIFICATION KfifoSpec
CONSTANTS
  Bytes = {1, 2}
  NoByte = 0
  Sizes = {1, 2, 3, 5, 8}
  Bits = 4
  MaxLen = 3
INVARIANTS KfifoTypeOK SizeRounded
PROPERTIES ImplementsByteFifo
