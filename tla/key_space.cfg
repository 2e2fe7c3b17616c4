SPECIFICATION MCSpec
CONSTANTS
  Bits = 2
  HashBytes = 2
  PkBytes = 2
  Hashes = {0, 7}
  NormalFields = {1}
  UniqueFields = {2, 5}
  FieldValues <- SomeFieldValues
  Pks <- SomePks
  MaxEntries = 2
  Hash <- MCHash
  Day = 3
  MaxDuration = 7
  NoTTL = NoTTL
  NoOption = NoOption
  NoTable = NoTable
  Handlers = {1, 2}
  Files <- MCFiles
  Sources = {"a.proto"}
  Stored <- MCStored
  MaxUploads = 2
INVARIANT ScansExact
INVARIANT ScansInPkOrder
INVARIANT KeysDecode
INVARIANT TablesAreSound
INVARIANT MapAndListAgree
INVARIANT EntryOfOneSchema
\* The bound on the entries is reached.
CHECK_DEADLOCK FALSE
