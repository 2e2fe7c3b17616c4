SPECIFICATION Spec
CONSTANTS
  Radix = 4
  IntBytes = 2
  LenBytes = 2
  MaxFields = 3
  Ints <- MCInts
  Texts <- MCTexts
  Zstd <- MCZstd
  Expiries <- MCExpiries
INVARIANT WritesFit
INVARIANT RowsReadBack
INVARIANT PageShowsRow
