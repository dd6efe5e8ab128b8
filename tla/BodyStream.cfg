SPECIFICATION Spec
CONSTANTS
  Stores = {"memory", "postgres"}
  MaxLen = 8
  Limit = 6
  BufSize = 3
INVARIANTS
  TypeOK
  StoredIsSigned
  OversizeIsTooLarge
  MismatchMeansOtherBytes
